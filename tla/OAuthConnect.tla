------------------------------ MODULE OAuthConnect ------------------------------
(***************************************************************************)
(* Connecting a Telegram user to a Jira site.  /connect (telegram-svc)     *)
(* stores a state and answers with a link; the browser comes back to       *)
(* /callback (cmd/bot) with the state and a code; an account with several  *)
(* sites is staged in MongoDB until the user presses a site's button,      *)
(* which telegram-svc handles.  Requests and presses overlap, links and    *)
(* keyboards stay in the chat, states and selections get too old, every    *)
(* call may fail and both processes die.                                   *)
(*                                                                         *)
(* ValidateState looks into the memory of its own process first: /connect  *)
(* filled that of telegram-svc, /callback runs in cmd/bot, so the stored   *)
(* state is the one that counts.  Webhooks that Finalize registers are in  *)
(* WebhookRegistry.                                                        *)
(***************************************************************************)
EXTENDS Naturals, Sequences, FiniteSets

CONSTANTS
  Users,
  Links,        \* one per /connect: the state in its URL
  Accounts,     \* Atlassian accounts
  SitesOf,      \* the sites of an account
  Workers,      \* requests and presses handled at the same time
  NoJob, NoUser, NoSite, NoPending,
  MaxVisits,    \* bound: requests of the browser
  MaxPresses,   \* bound: presses of a site's button
  MaxDisc,      \* bound: /disconnect
  MaxTroubles   \* bound: failures and deaths

Sites == UNION {{SitesOf[a][i] : i \in DOMAIN SitesOf[a]} : a \in Accounts}
Buttons == UNION {DOMAIN SitesOf[a] : a \in Accounts}

ASSUME SitesAssumption == \A a \in Accounts : SitesOf[a] \in Seq(Sites)
ASSUME NullAssumption == NoUser \notin Users /\ NoSite \notin Sites
ASSUME BoundsAssumption == {MaxVisits, MaxPresses, MaxDisc, MaxTroubles} \subseteq Nat
ASSUME WorkersAssumption == IsFiniteSet(Workers) /\ IsFiniteSet(Users)

VARIABLES
  owner,      \* who asked for the link
  states,     \* oauth_states
  pending,    \* oauth_pending_sites: at most one selection per user
  site,       \* users: the connected site
  keyboards,  \* site keyboards in the chats
  job,        \* what the workers are at
  \* history: codes exchanged per link, grants that ended with a connection,
  \* grants that ended without for a reason, presses that connected a site
  \* other than the one on the button
  grants, used, dropped, wrong,
  visits, presses, discs, troubles

storeVars == <<states, pending, site>>
histVars == <<grants, used, dropped, wrong>>
boundVars == <<visits, presses, discs, troubles>>
vars == <<owner, states, pending, site, keyboards, job, grants, used, dropped, wrong,
          visits, presses, discs, troubles>>

Ages == {"fresh", "stale"}
Selections == [link : Links, acct : Accounts, age : Ages]
Keyboards == [link : Links, acct : Accounts]
Callbacks == [pc : {"validate", "exchange", "sites", "stage"}, link : Links, acct : Accounts]
Presses == [pc : {"consume"}, user : Users, key : Keyboards, button : Buttons]
\* A grant in hand and where to connect it; label: the site on the button.
Finals == [pc : {"finalize"}, link : Links, site : Sites, key : Links, label : Sites]

ASSUME NoValueAssumption == NoJob \notin Callbacks \union Presses \union Finals /\ NoPending \notin Selections

TypeOK ==
  /\ owner \in [Links -> Users \union {NoUser}]
  /\ states \in [Links -> Ages \union {"none"}]
  /\ \A l \in Links : /\ owner[l] = NoUser => states[l] = "none" /\ grants[l] = 0
                      /\ states[l] # "none" => grants[l] = 0
  /\ pending \in [Users -> Selections \union {NoPending}]
  /\ \A u \in Users : pending[u] # NoPending =>
       owner[pending[u].link] = u /\ Len(SitesOf[pending[u].acct]) > 1
  /\ site \in [Users -> Sites \union {NoSite}]
  /\ keyboards \subseteq Keyboards
  /\ job \in [Workers -> Callbacks \union Presses \union Finals \union {NoJob}]
  /\ grants \in [Links -> 0 .. MaxVisits] /\ used \subseteq Links /\ dropped \subseteq Links
  /\ wrong \subseteq Links \X Links
  /\ visits \in 0 .. MaxVisits /\ presses \in 0 .. MaxPresses
  /\ discs \in 0 .. MaxDisc /\ troubles \in 0 .. MaxTroubles

Init ==
  /\ owner = [l \in Links |-> NoUser] /\ states = [l \in Links |-> "none"]
  /\ pending = [u \in Users |-> NoPending] /\ site = [u \in Users |-> NoSite]
  /\ keyboards = {} /\ job = [w \in Workers |-> NoJob]
  /\ grants = [l \in Links |-> 0] /\ used = {} /\ dropped = {} /\ wrong = {}
  /\ visits = 0 /\ presses = 0 /\ discs = 0 /\ troubles = 0

Trouble == troubles < MaxTroubles /\ troubles' = troubles + 1

\* Workers are alike: the next job goes to this one of the free ones.
Free(w) == job[w] = NoJob /\ w = CHOOSE v \in Workers : job[v] = NoJob
At(w, pc) == job[w] # NoJob /\ job[w].pc = pc
Goes(w, j) == job' = [job EXCEPT ![w] = j]
Ends(w) == Goes(w, NoJob)

-----------------------------------------------------------------------------
(* telegram-svc: /connect and /disconnect                                  *)

\* A connected user is refused; links that were sent before stay good.
MayConnect(u) == site[u] = NoSite

\* The link is sent whether or not its state could be stored.
GenerateAuthURL(l) ==
  \/ states' = [states EXCEPT ![l] = "fresh"] /\ UNCHANGED troubles
  \/ Trouble /\ UNCHANGED states

Connect(u, l) ==
  /\ owner[l] = NoUser
  /\ MayConnect(u)
  /\ owner' = [owner EXCEPT ![l] = u]
  /\ GenerateAuthURL(l)
  /\ UNCHANGED <<pending, site, keyboards, job, histVars, visits, presses, discs>>

\* Stored states and selections outlive a /disconnect.
ClearJiraCredentials(u) == site' = [site EXCEPT ![u] = NoSite]

Disconnect(u) ==
  /\ site[u] # NoSite /\ discs < MaxDisc
  /\ discs' = discs + 1
  /\ ClearJiraCredentials(u)
  /\ UNCHANGED <<owner, states, pending, keyboards, job, histVars, visits, presses, troubles>>

-----------------------------------------------------------------------------
(* Time                                                                    *)

\* Ten minutes pass over a state or a selection.
Age ==
  /\ \/ \E l \in Links : states[l] = "fresh" /\ states' = [states EXCEPT ![l] = "stale"] /\ UNCHANGED pending
     \/ \E u \in Users : /\ pending[u] # NoPending /\ pending[u].age = "fresh"
                         /\ pending' = [pending EXCEPT ![u].age = "stale"]
                         /\ UNCHANGED states
  /\ UNCHANGED <<owner, site, keyboards, job, histVars, boundVars>>

\* The cleanup and the TTL index remove old states, another index selections.
CleanExpiredStates ==
  /\ \E l \in Links : states[l] = "stale" /\ states' = [states EXCEPT ![l] = "none"]
  /\ UNCHANGED <<owner, pending, site, keyboards, job, histVars, boundVars>>

ExpirePending(u) ==
  /\ pending[u] # NoPending /\ pending[u].age = "stale"
  /\ pending' = [pending EXCEPT ![u] = NoPending]
  /\ dropped' = dropped \union {pending[u].link}
  /\ UNCHANGED <<owner, states, site, keyboards, job, grants, used, wrong, boundVars>>

-----------------------------------------------------------------------------
(* cmd/bot: /callback                                                      *)

\* The browser follows a link, once more perhaps, and consents with an account.
Visit(w, l, a) ==
  /\ Free(w) /\ owner[l] # NoUser /\ visits < MaxVisits
  /\ visits' = visits + 1
  /\ Goes(w, [pc |-> "validate", link |-> l, acct |-> a])
  /\ UNCHANGED <<owner, storeVars, keyboards, histVars, presses, discs, troubles>>

\* Mutant of Consume: the state is read and not removed.
ConsumeRead(l) == UNCHANGED states

\* One call that reads and deletes.
Consume(l) == states' = [states EXCEPT ![l] = "none"]

\* A state is good once and for ten minutes; a failed read is a refusal.
ValidateState(w) ==
  /\ At(w, "validate")
  /\ LET l == job[w].link
     IN \/ states[l] = "fresh" /\ Consume(l) /\ Goes(w, [job[w] EXCEPT !.pc = "exchange"]) /\ UNCHANGED troubles
        \/ states[l] = "stale" /\ Consume(l) /\ Ends(w) /\ UNCHANGED troubles
        \/ states[l] = "none" /\ Ends(w) /\ UNCHANGED <<states, troubles>>
        \/ Trouble /\ Ends(w) /\ (UNCHANGED states \/ Consume(l))
  /\ UNCHANGED <<owner, pending, site, keyboards, histVars, visits, presses, discs>>

\* The answer of the token endpoint.
RequestToken(l) == grants' = [grants EXCEPT ![l] = @ + 1]

ExchangeCode(w) ==
  /\ At(w, "exchange")
  /\ \/ /\ RequestToken(job[w].link)
        /\ Goes(w, [job[w] EXCEPT !.pc = "sites"])
        /\ UNCHANGED troubles
     \/ Trouble /\ Ends(w) /\ UNCHANGED grants
  /\ UNCHANGED <<owner, storeVars, keyboards, used, dropped, wrong, visits, presses, discs>>

Drops(l) == dropped' = dropped \union {l}

\* None: refused.  One: connected.  More: staged for a choice.
WithSites(w, s) ==
  LET j == job[w]
  IN \/ Len(s) = 0 /\ Ends(w) /\ Drops(j.link)
     \/ /\ Len(s) = 1
        /\ Goes(w, [pc |-> "finalize", link |-> j.link, site |-> s[1], key |-> j.link, label |-> s[1]])
        /\ UNCHANGED dropped
     \/ Len(s) > 1 /\ Goes(w, [j EXCEPT !.pc = "stage"]) /\ UNCHANGED dropped

GetAccessibleResources(w) ==
  /\ At(w, "sites")
  /\ \/ WithSites(w, SitesOf[job[w].acct]) /\ UNCHANGED troubles
     \/ Trouble /\ Ends(w) /\ Drops(job[w].link)
  /\ UNCHANGED <<owner, storeVars, keyboards, grants, used, wrong, visits, presses, discs>>

\* A selection that waits is replaced, with its grant.
Staged(u, l, a) == pending' = [pending EXCEPT ![u] = [link |-> l, acct |-> a, age |-> "fresh"]]

Replaced(u) == IF pending[u] = NoPending THEN {} ELSE {pending[u].link}

StorePending(w) ==
  /\ At(w, "stage")
  /\ LET j == job[w]
         u == owner[j.link]
     IN \/ /\ Staged(u, j.link, j.acct)
           /\ dropped' = dropped \union Replaced(u)
           /\ \/ keyboards' = keyboards \union {[link |-> j.link, acct |-> j.acct]} /\ UNCHANGED troubles
              \/ Trouble /\ UNCHANGED keyboards
        \/ Trouble /\ Drops(j.link) /\ UNCHANGED <<pending, keyboards>>
  /\ Ends(w)
  /\ UNCHANGED <<owner, states, site, grants, used, wrong, visits, presses, discs>>

-----------------------------------------------------------------------------
(* telegram-svc: a site's button                                           *)

Press(w, k, b) ==
  /\ Free(w) /\ presses < MaxPresses
  /\ b \in DOMAIN SitesOf[k.acct]
  /\ presses' = presses + 1
  /\ Goes(w, [pc |-> "consume", user |-> owner[k.link], key |-> k, button |-> b])
  /\ UNCHANGED <<owner, storeVars, keyboards, histVars, visits, discs, troubles>>

\* Mutant of Resource: the button's number is taken for an index.
ResourceAfter(a, b) == IF b + 1 \in DOMAIN SitesOf[a] THEN SitesOf[a][b + 1] ELSE SitesOf[a][1]

Resource(a, b) == SitesOf[a][b]

\* Mutant of Taken: the selection is read and stays.
TakenNot(u) == UNCHANGED pending

\* One call that reads and deletes.
Taken(u) == pending' = [pending EXCEPT ![u] = NoPending]

\* The selection is removed whatever comes of it: one that is too old, or has
\* fewer sites than the keyboard that was pressed, is gone.
ConsumePending(w) ==
  /\ At(w, "consume")
  /\ LET j == job[w]
         p == pending[j.user]
     IN \/ p = NoPending /\ Ends(w) /\ UNCHANGED <<pending, dropped, troubles>>
        \/ /\ p # NoPending
           /\ Taken(j.user)
           /\ \/ /\ p.age = "fresh" /\ j.button \in DOMAIN SitesOf[p.acct]
                 /\ Goes(w, [pc |-> "finalize", link |-> p.link, site |-> Resource(p.acct, j.button),
                             key |-> j.key.link, label |-> SitesOf[j.key.acct][j.button]])
                 /\ UNCHANGED <<dropped, troubles>>
              \/ /\ p.age = "stale" \/ j.button \notin DOMAIN SitesOf[p.acct]
                 /\ Ends(w) /\ Drops(p.link) /\ UNCHANGED troubles
              \/ Trouble /\ Ends(w) /\ Drops(p.link)
        \/ Trouble /\ Ends(w) /\ UNCHANGED <<pending, dropped>>
  /\ UNCHANGED <<owner, states, site, keyboards, grants, used, wrong, visits, presses, discs>>

-----------------------------------------------------------------------------
(* Either process                                                          *)

\* Account, tokens and site are one document, written in one update.
Upsert(u, s) == site' = [site EXCEPT ![u] = s]

Finalize(w) ==
  /\ At(w, "finalize")
  /\ LET j == job[w]
     IN \/ /\ Upsert(owner[j.link], j.site)
           /\ used' = used \union {j.link}
           /\ wrong' = IF j.site = j.label THEN wrong ELSE wrong \union {<<j.key, j.link>>}
           /\ UNCHANGED <<dropped, troubles>>
        \/ Trouble /\ Drops(j.link) /\ UNCHANGED <<site, used, wrong>>
  /\ Ends(w)
  /\ UNCHANGED <<owner, states, pending, keyboards, grants, visits, presses, discs>>

\* Grants in the workers' hands.
Holders == {w \in Workers : At(w, "sites") \/ At(w, "stage") \/ At(w, "finalize")}

Crash ==
  /\ \E w \in Workers : job[w] # NoJob
  /\ Trouble
  /\ job' = [w \in Workers |-> NoJob]
  /\ dropped' = dropped \union {job[w].link : w \in Holders}
  /\ UNCHANGED <<owner, storeVars, keyboards, grants, used, wrong, visits, presses, discs>>

Next ==
  \/ \E u \in Users : (\E l \in Links : Connect(u, l)) \/ Disconnect(u) \/ ExpirePending(u)
  \/ Age \/ CleanExpiredStates
  \/ \E w \in Workers :
       \/ \E l \in Links, a \in Accounts : Visit(w, l, a)
       \/ ValidateState(w) \/ ExchangeCode(w) \/ GetAccessibleResources(w) \/ StorePending(w)
       \/ \E k \in keyboards, b \in Buttons : Press(w, k, b)
       \/ ConsumePending(w) \/ Finalize(w)
  \/ Crash

Spec == Init /\ [][Next]_vars

-----------------------------------------------------------------------------
(* Properties                                                              *)

\* A link brings one grant (ValidateState), and a grant is in one place: in
\* work, waiting for a choice, connected, or gone for a reason - a failure,
\* its age, an account without a site, a later selection or an earlier
\* keyboard (ConsumePending, Finalize).
GrantIsUsedOnce ==
  \A l \in Links :
    /\ grants[l] <= 1
    /\ grants[l] = Cardinality({w \in Holders : job[w].link = l})
                   + Cardinality({u \in Users : pending[u] # NoPending /\ pending[u].link = l})
                   + (IF l \in used THEN 1 ELSE 0) + (IF l \in dropped THEN 1 ELSE 0)

\* The site that is connected is the one on the button, unless the keyboard
\* is another link's than the selection (handleSiteSelectCallback takes the
\* index alone).
SiteIsPicked == \A x \in wrong : x[1] # x[2]

\* What a link grants is used at most once, and for the site the user pressed.
GrantIsUsedAsPicked == GrantIsUsedOnce /\ SiteIsPicked
=============================================================================
