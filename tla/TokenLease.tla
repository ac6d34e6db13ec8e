----------------------------- MODULE TokenLease -----------------------------
(***************************************************************************)
(* The token lease of identity-svc (internal/identity) and its HTTP client *)
(* (pkg/identityclient): every service that calls Jira leases an access    *)
(* token here, and a lease refreshes an expired token under a per-user     *)
(* mutex.  The module interleaves lease handlers with the user's connect   *)
(* and disconnect (which write the same Mongo document without the mutex), *)
(* with failing reads and writes, with exchanges whose answer is lost and  *)
(* with a crash of identity-svc.                                           *)
(*                                                                         *)
(* Tokens are serial numbers.  Each access token issued for a user has its *)
(* own serial; a grant (one OAuth consent) is named by the serial of the   *)
(* first token it issued, and a refresh token by the serial of the token   *)
(* it was issued with.  Atlassian rotates refresh tokens: an exchange      *)
(* normally issues a new refresh token and retires the one presented.      *)
(***************************************************************************)
EXTENDS Naturals, FiniteSets

CONSTANTS
  Owners,      \* Telegram users: the owners of the tokens
  Callers,     \* goroutines that lease tokens, one request at a time each
  Services,    \* the processes the callers live in, each with one client cache
  ServiceOf,   \* the service of a caller
  NoCaller,    \* the mutex is free
  NoOwner,     \* the caller has no request
  MaxSerial    \* bound: access tokens issued per user

ASSUME ServiceOfAssumption == ServiceOf \in [Callers -> Services]
ASSUME NoCallerAssumption == NoCaller \notin Callers
ASSUME NoOwnerAssumption == NoOwner \notin Owners
ASSUME MaxSerialAssumption == MaxSerial \in Nat \ {0}

Serial == 0 .. MaxSerial
Stages == {"idle", "read", "wait", "reread", "refresh", "save", "respond"}

\* The credential fields of a users document: acc = 0 is an absent access
\* token.  grant is the grant the tokens came from, site the grant whose
\* cloud id, site URL and account id are in the document.
Credentials == [grant : Serial, acc : Serial, ref : Serial, site : Serial]
NoCredentials == [grant |-> 0, acc |-> 0, ref |-> 0, site |-> 0]

VARIABLES
  \* MongoDB, shared by all services
  doc,        \* credential fields of each user's document
  \* Atlassian
  issued,     \* last serial issued for the user
  current,    \* current[u][g]: serial of the refresh token grant g accepts
  revoked,    \* grants the user revoked at Atlassian
  expired,    \* serials of access tokens too old to be leased
  \* identity-svc
  lock,       \* holder of each user's mutex
  stage,      \* where each caller's request is
  req,        \* the user each caller asked for
  snap,       \* the caller's copy of the document, then the new tokens
  \* service processes
  cache,      \* each client's cached lease of each user
  \* history, read by the properties only
  lost,       \* grants with a refresh token Atlassian issued and nobody stored
  stored,     \* serials of access tokens that were ever in doc
  wanted,     \* the user's last act was to connect
  exposed     \* an exchange was in flight when the user disconnected

jiraVars == <<issued, current, revoked, expired>>
history == <<lost, stored, wanted, exposed>>
leaseVars == <<doc, issued, current, revoked, expired, lock, stage, req, snap,
          cache, lost, stored, wanted, exposed>>

LeaseTypeOK ==
  /\ doc \in [Owners -> Credentials]
  /\ issued \in [Owners -> Serial]
  /\ current \in [Owners -> [Serial -> Serial]]
  /\ revoked \in [Owners -> SUBSET Serial]
  /\ expired \in [Owners -> SUBSET Serial]
  /\ lock \in [Owners -> Callers \union {NoCaller}]
  /\ stage \in [Callers -> Stages]
  /\ req \in [Callers -> Owners \union {NoOwner}]
  /\ \A c \in Callers : req[c] = NoOwner <=> stage[c] = "idle"
  /\ snap \in [Callers -> Credentials]
  /\ cache \in [Services -> [Owners -> Credentials]]
  /\ lost \in [Owners -> SUBSET Serial]
  /\ stored \in [Owners -> SUBSET Serial]
  /\ wanted \in [Owners -> BOOLEAN]
  /\ exposed \in [Owners -> BOOLEAN]

LeaseInit ==
  /\ doc = [u \in Owners |-> NoCredentials]
  /\ issued = [u \in Owners |-> 0]
  /\ current = [u \in Owners |-> [g \in Serial |-> 0]]
  /\ revoked = [u \in Owners |-> {}]
  /\ expired = [u \in Owners |-> {}]
  /\ lock = [u \in Owners |-> NoCaller]
  /\ stage = [c \in Callers |-> "idle"]
  /\ req = [c \in Callers |-> NoOwner]
  /\ snap = [c \in Callers |-> NoCredentials]
  /\ cache = [s \in Services |-> [u \in Owners |-> NoCredentials]]
  /\ lost = [u \in Owners |-> {}]
  /\ stored = [u \in Owners |-> {}]
  /\ wanted = [u \in Owners |-> FALSE]
  /\ exposed = [u \in Owners |-> FALSE]

-----------------------------------------------------------------------------
(* Time and the user                                                       *)

\* A lease holds an access token with more than refreshSkew of life left.
Usable(u, cred) == cred.acc # 0 /\ cred.acc \notin expired[u]

\* An exchange of u's refresh token is with Atlassian, or done and not saved.
Exchanging(u) == \E c \in Callers : req[c] = u /\ stage[c] \in {"refresh", "save"}

\* Time passes: the access token with serial a gets within refreshSkew of
\* its expiry, wherever copies of it are.
Expire(u) ==
  \E a \in (1 .. issued[u]) \ expired[u] :
    /\ expired' = [expired EXCEPT ![u] = @ \union {a}]
    /\ UNCHANGED <<doc, issued, current, revoked, lock, stage, req, snap, cache>>
    /\ UNCHANGED history

\* OAuth connect ends in UserRepo.Upsert: one update that sets the tokens and
\* the site of a new grant, whatever the document holds.
UpsertTokens(u) ==
  LET g == issued[u] + 1 IN
  /\ g <= MaxSerial
  /\ issued' = [issued EXCEPT ![u] = g]
  /\ current' = [current EXCEPT ![u][g] = g]
  /\ doc' = [doc EXCEPT ![u] = [grant |-> g, acc |-> g, ref |-> g, site |-> g]]
  /\ stored' = [stored EXCEPT ![u] = @ \union {g}]
  /\ wanted' = [wanted EXCEPT ![u] = TRUE]
  /\ UNCHANGED <<revoked, expired, lock, stage, req, snap, cache, lost, exposed>>

\* /disconnect ends in UserRepo.ClearJiraCredentials.
ClearCredentials(u) ==
  /\ wanted[u]
  /\ doc' = [doc EXCEPT ![u] = NoCredentials]
  /\ wanted' = [wanted EXCEPT ![u] = FALSE]
  /\ exposed' = [exposed EXCEPT ![u] = Exchanging(u)]
  /\ UNCHANGED <<lock, stage, req, snap, cache, lost, stored>>
  /\ UNCHANGED jiraVars

\* The user removes the app in Atlassian's account settings.
Revoke(u) ==
  \E g \in 1 .. issued[u] :
    /\ current[u][g] # 0
    /\ g \notin revoked[u]
    /\ revoked' = [revoked EXCEPT ![u] = @ \union {g}]
    /\ UNCHANGED <<doc, issued, current, expired, lock, stage, req, snap, cache>>
    /\ UNCHANGED history

-----------------------------------------------------------------------------
(* The lease protocol.  A handler's early returns all go through Return.   *)

\* Mutant of Return: the request is not taken off the caller.
ReturnKeepingRequest(c) ==
  /\ stage' = [stage EXCEPT ![c] = "idle"]
  /\ snap' = [snap EXCEPT ![c] = NoCredentials]
  /\ lock' = [lock EXCEPT ![req[c]] = IF @ = c THEN NoCaller ELSE @]
  /\ UNCHANGED req

\* The handler of c returns without a lease: the deferred Unlock frees the
\* mutex when c holds it, and the caller sees an error.
Return(c) ==
  /\ stage' = [stage EXCEPT ![c] = "idle"]
  /\ req' = [req EXCEPT ![c] = NoOwner]
  /\ snap' = [snap EXCEPT ![c] = NoCredentials]
  /\ lock' = [lock EXCEPT ![req[c]] = IF @ = c THEN NoCaller ELSE @]

\* The handler of c returns the lease l.
ReturnLease(c, l) ==
  /\ stage' = [stage EXCEPT ![c] = "respond"]
  /\ snap' = [snap EXCEPT ![c] = l]
  /\ lock' = [lock EXCEPT ![req[c]] = IF @ = c THEN NoCaller ELSE @]
  /\ UNCHANGED req

\* Client.Lease: a cached lease with enough life left is handed out with no
\* call (no state changes); otherwise the request goes to identity-svc.
SendRequest(c, u) ==
  /\ stage[c] = "idle"
  /\ ~Usable(u, cache[ServiceOf[c]][u])
  /\ stage' = [stage EXCEPT ![c] = "read"]
  /\ req' = [req EXCEPT ![c] = u]
  /\ UNCHANGED <<doc, lock, snap, cache>>
  /\ UNCHANGED jiraVars /\ UNCHANGED history

\* First read fails, or finds no access token.  A failed read can happen in
\* any state: Mongo is down, or the client gave up and cancelled the context.
ReadRejects(c) ==
  /\ stage[c] = "read"
  /\ Return(c)
  /\ UNCHANGED <<doc, cache>> /\ UNCHANGED jiraVars /\ UNCHANGED history

ReadFresh(c) ==
  /\ stage[c] = "read"
  /\ Usable(req[c], doc[req[c]])
  /\ ReturnLease(c, doc[req[c]])
  /\ UNCHANGED <<doc, cache>> /\ UNCHANGED jiraVars /\ UNCHANGED history

ReadStale(c) ==
  /\ stage[c] = "read"
  /\ doc[req[c]].acc # 0
  /\ ~Usable(req[c], doc[req[c]])
  /\ stage' = [stage EXCEPT ![c] = "wait"]
  /\ UNCHANGED <<doc, lock, req, snap, cache>>
  /\ UNCHANGED jiraVars /\ UNCHANGED history

\* Mutant of Acquire: no mutex.
AcquireTaken(c) ==
  /\ stage[c] = "wait"
  /\ lock' = [lock EXCEPT ![req[c]] = c]
  /\ stage' = [stage EXCEPT ![c] = "reread"]
  /\ UNCHANGED <<doc, req, snap, cache>>
  /\ UNCHANGED jiraVars /\ UNCHANGED history

\* mu.Lock(): not bound to the request's context, so a waiter stays a waiter.
Acquire(c) ==
  /\ stage[c] = "wait"
  /\ lock[req[c]] = NoCaller
  /\ lock' = [lock EXCEPT ![req[c]] = c]
  /\ stage' = [stage EXCEPT ![c] = "reread"]
  /\ UNCHANGED <<doc, req, snap, cache>>
  /\ UNCHANGED jiraVars /\ UNCHANGED history

\* Mutant of RereadRejects: an early return that skips the Unlock.
RereadRejectsLocked(c) ==
  /\ stage[c] = "reread"
  /\ stage' = [stage EXCEPT ![c] = "idle"]
  /\ req' = [req EXCEPT ![c] = NoOwner]
  /\ snap' = [snap EXCEPT ![c] = NoCredentials]
  /\ UNCHANGED <<doc, lock, cache>> /\ UNCHANGED jiraVars /\ UNCHANGED history

\* The second read, under the mutex.
RereadRejects(c) ==
  /\ stage[c] = "reread"
  /\ Return(c)
  /\ UNCHANGED <<doc, cache>> /\ UNCHANGED jiraVars /\ UNCHANGED history

RereadFresh(c) ==
  /\ stage[c] = "reread"
  /\ Usable(req[c], doc[req[c]])
  /\ ReturnLease(c, doc[req[c]])
  /\ UNCHANGED <<doc, cache>> /\ UNCHANGED jiraVars /\ UNCHANGED history

\* Mutant of RereadStale: the second read does not look for a disconnect.
RereadStaleUnchecked(c) ==
  /\ stage[c] = "reread"
  /\ ~Usable(req[c], doc[req[c]])
  /\ stage' = [stage EXCEPT ![c] = "refresh"]
  /\ snap' = [snap EXCEPT ![c] = doc[req[c]]]
  /\ UNCHANGED <<doc, lock, req, cache>>
  /\ UNCHANGED jiraVars /\ UNCHANGED history

RereadStale(c) ==
  /\ stage[c] = "reread"
  /\ doc[req[c]].acc # 0
  /\ ~Usable(req[c], doc[req[c]])
  /\ stage' = [stage EXCEPT ![c] = "refresh"]
  /\ snap' = [snap EXCEPT ![c] = doc[req[c]]]
  /\ UNCHANGED <<doc, lock, req, cache>>
  /\ UNCHANGED jiraVars /\ UNCHANGED history

-----------------------------------------------------------------------------
(* RefreshTokens: the exchange at Atlassian                                *)

\* Atlassian accepts the refresh token of cred.
Accepts(u, cred) ==
  /\ cred.ref = current[u][cred.grant]
  /\ cred.grant \notin revoked[u]

\* Atlassian issues the next access token of grant g, with a new refresh
\* token when rotate is TRUE.
Issue(u, g, rotate) ==
  /\ issued[u] < MaxSerial
  /\ issued' = [issued EXCEPT ![u] = @ + 1]
  /\ current' = [current EXCEPT ![u][g] = IF rotate THEN issued[u] + 1 ELSE @]
  /\ UNCHANGED <<revoked, expired>>

\* The exchange succeeds; a response without a refresh token keeps the old.
ExchangeOk(c) ==
  LET u == req[c]
      g == snap[c].grant
  IN
  /\ stage[c] = "refresh"
  /\ Accepts(u, snap[c])
  /\ \E rotate \in BOOLEAN :
       /\ Issue(u, g, rotate)
       /\ snap' = [snap EXCEPT ![c] =
                     [grant |-> g, acc |-> issued[u] + 1, site |-> snap[c].site,
                      ref |-> IF rotate THEN issued[u] + 1 ELSE snap[c].ref]]
  /\ stage' = [stage EXCEPT ![c] = "save"]
  /\ UNCHANGED <<doc, lock, req, cache>> /\ UNCHANGED history

\* Refused (invalid_grant), failed before Atlassian acted, or cancelled.
ExchangeFails(c) ==
  /\ stage[c] = "refresh"
  /\ Return(c)
  /\ UNCHANGED <<doc, cache>> /\ UNCHANGED jiraVars /\ UNCHANGED history

\* Atlassian rotates the token and the answer never arrives: the client's
\* 10 s timeout cancels the context the exchange runs under.
ExchangeLost(c) ==
  /\ stage[c] = "refresh"
  /\ Accepts(req[c], snap[c])
  /\ Issue(req[c], snap[c].grant, TRUE)
  /\ lost' = [lost EXCEPT ![req[c]] = @ \union {snap[c].grant}]
  /\ Return(c)
  /\ UNCHANGED <<doc, cache, stored, wanted, exposed>>

\* The exchange of c issued a new refresh token.
Rotated(c) == snap[c].ref = snap[c].acc

\* The new tokens of c's exchange are gone: its grant is lost if they hold a
\* new refresh token.
Lose(c) ==
  lost' = [lost EXCEPT ![req[c]] = IF Rotated(c) THEN @ \union {snap[c].grant} ELSE @]

\* Mutant of WriteTokens: the rotated refresh token is not saved.
WriteAccessToken(u, cred) ==
  /\ doc' = [doc EXCEPT ![u] = [grant |-> cred.grant, acc |-> cred.acc,
                                ref |-> doc[u].ref, site |-> doc[u].site]]
  /\ stored' = [stored EXCEPT ![u] = @ \union {cred.acc}]

\* UpdateTokens sets the token fields alone, whatever the document holds by
\* now.  The response takes its site from the snapshot, not from the document.
WriteTokens(u, cred) ==
  /\ doc' = [doc EXCEPT ![u] = [grant |-> cred.grant, acc |-> cred.acc,
                                ref |-> cred.ref, site |-> doc[u].site]]
  /\ stored' = [stored EXCEPT ![u] = @ \union {cred.acc}]

SaveOk(c) ==
  /\ stage[c] = "save"
  /\ WriteTokens(req[c], snap[c])
  /\ ReturnLease(c, snap[c])
  /\ UNCHANGED <<cache, lost, wanted, exposed>> /\ UNCHANGED jiraVars

\* UpdateTokens returns an error; the write may have been applied or not.
SaveFails(c) ==
  /\ stage[c] = "save"
  /\ Return(c)
  /\ \/ WriteTokens(req[c], snap[c]) /\ UNCHANGED lost
     \/ UNCHANGED <<doc, stored>> /\ Lose(c)
  /\ UNCHANGED <<cache, wanted, exposed>> /\ UNCHANGED jiraVars

-----------------------------------------------------------------------------
(* The answer travels back                                                 *)

\* Client.store overwrites the cached lease, in the order answers arrive.
Deliver(c) ==
  /\ stage[c] = "respond"
  /\ cache' = [cache EXCEPT ![ServiceOf[c]][req[c]] = snap[c]]
  /\ Return(c)
  /\ UNCHANGED doc /\ UNCHANGED jiraVars /\ UNCHANGED history

\* The answer is lost, or the client has timed out.
DropAnswer(c) ==
  /\ stage[c] = "respond"
  /\ Return(c)
  /\ UNCHANGED <<doc, cache>> /\ UNCHANGED jiraVars /\ UNCHANGED history

\* identity-svc dies: the in-memory mutexes and every handler go.  The tokens
\* of an exchange that is done and not saved are gone with it.
LeaseCrash ==
  /\ \E c \in Callers : stage[c] # "idle"
  /\ lost' = [u \in Owners |-> lost[u] \union
       {snap[c].grant : c \in {d \in Callers :
                           req[d] = u /\ stage[d] = "save" /\ Rotated(d)}}]
  /\ lock' = [u \in Owners |-> NoCaller]
  /\ stage' = [c \in Callers |-> "idle"]
  /\ req' = [c \in Callers |-> NoOwner]
  /\ snap' = [c \in Callers |-> NoCredentials]
  /\ UNCHANGED <<doc, cache, stored, wanted, exposed>> /\ UNCHANGED jiraVars

-----------------------------------------------------------------------------
Reads(c) == ReadRejects(c) \/ ReadFresh(c) \/ ReadStale(c)
Rereads(c) == RereadRejects(c) \/ RereadFresh(c) \/ RereadStale(c)
Exchange(c) == ExchangeOk(c) \/ ExchangeFails(c) \/ ExchangeLost(c)
Save(c) == SaveOk(c) \/ SaveFails(c)
Answer(c) == Deliver(c) \/ DropAnswer(c)

Environment(u) == Expire(u) \/ UpsertTokens(u) \/ ClearCredentials(u) \/ Revoke(u)
Handler(c) == Reads(c) \/ Acquire(c) \/ Rereads(c) \/ Exchange(c) \/ Save(c) \/ Answer(c)

LeaseNext ==
  \/ \E u \in Owners : Environment(u)
  \/ \E c \in Callers, u \in Owners : SendRequest(c, u)
  \/ \E c \in Callers : Handler(c)
  \/ LeaseCrash

LeaseSpec == LeaseInit /\ [][LeaseNext]_leaseVars

\* Every call a handler makes returns (Mongo and HTTP timeouts), and Go's
\* mutex hands over to a starving waiter, so a waiter that finds the mutex
\* free again and again gets it.
Fairness ==
  \A c \in Callers :
    /\ WF_leaseVars(Reads(c))
    /\ SF_leaseVars(Acquire(c))
    /\ WF_leaseVars(Rereads(c))
    /\ WF_leaseVars(Exchange(c))
    /\ WF_leaseVars(Save(c))
    /\ WF_leaseVars(Answer(c))

FairSpec == LeaseSpec /\ Fairness

-----------------------------------------------------------------------------
(* Properties                                                              *)

\* At most one handler per user is between its second read and the end of
\* its save (the per-user mutex of LocalProvider.Lease).
SingleRefreshPerUser ==
  \A c, d \in Callers :
    /\ c # d
    /\ stage[c] \in {"reread", "refresh", "save"}
    /\ stage[d] \in {"reread", "refresh", "save"}
    => req[c] # req[d]

\* A handler never presents a refresh token that was already exchanged, unless
\* an earlier exchange of the grant was lost before its tokens were stored:
\* the mutex, the second read and the save inside the mutex work together.
PresentedTokenIsCurrent ==
  \A c \in Callers :
    stage[c] = "refresh" =>
      \/ snap[c].ref = current[req[c]][snap[c].grant]
      \/ snap[c].grant \in lost[req[c]]

\* No service ever holds an access token that identity-svc did not store
\* first: neither in an answer under way nor in a client's cache.
LeasedTokensWereStored ==
  /\ \A c \in Callers : stage[c] = "respond" => snap[c].acc \in stored[req[c]]
  /\ \A s \in Services, u \in Owners :
       cache[s][u].acc # 0 => cache[s][u].acc \in stored[u]

\* After a disconnect the tokens stay gone, provided that no exchange was in
\* flight when the user disconnected: handlers that only waited for the mutex
\* must notice ("user disconnected while refreshing").
DisconnectSticksWhenQuiet ==
  \A u \in Owners : ~wanted[u] /\ ~exposed[u] => doc[u].acc = 0

\* The unconditional form: ClearJiraCredentials "removes the Jira-side
\* identity (cloud id, account id, site URL, OAuth tokens)" for good.
DisconnectSticks ==
  \A u \in Owners : ~wanted[u] => doc[u].acc = 0

\* Every lease request is answered, by a lease or an error: no early return
\* of the handler keeps the mutex.
RequestsReturn ==
  \A c \in Callers : stage[c] # "idle" ~> stage[c] = "idle"
=============================================================================
