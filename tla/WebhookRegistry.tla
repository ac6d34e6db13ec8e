--------------------------- MODULE WebhookRegistry ---------------------------
(***************************************************************************)
(* The dynamic Jira webhooks of one user (jira.WebhookManager) and the     *)
(* handlers that move them: subscribe, /unwatch, OAuth connect,            *)
(* /disconnect, the admin's disconnect and resync, and webhook-svc's       *)
(* refresher.  Each of them is a chain of calls to Mongo and to Jira, run  *)
(* in any of several processes with no lock and no transaction; any call   *)
(* may fail, and a chain may break off between two calls.                  *)
(*                                                                         *)
(* A hook is a webhook at Jira, a row its document in                      *)
(* webhook_registrations.  Only subscriptions whose type has a filter that *)
(* Jira accepts for webhooks are modelled.  Jira is external: a hook is    *)
(* old when its expiry is within the refresher's lead time.                *)
(***************************************************************************)
EXTENDS Naturals, FiniteSets

CONSTANTS
  Subs,        \* subscriptions, by document id: never created twice
  Chats,
  ChatOf,      \* the chat of a subscription
  Jqls,
  JqlOf,       \* its SubscriptionWebhookJQL
  NoSub, NoChat,
  Procs,       \* handlers that run at the same time
  MaxHooks,    \* bound: hooks ever registered
  MaxOps,      \* bound: handlers ever started
  MaxFailures  \* bound: failed calls and broken chains

ASSUME SubsAssumption ==
  ChatOf \in [Subs -> Chats] /\ JqlOf \in [Subs -> Jqls]
  /\ NoSub \notin Subs /\ NoChat \notin Chats
ASSUME BoundsAssumption == MaxHooks \in Nat /\ MaxOps \in Nat /\ MaxFailures \in Nat

Hooks == 1 .. MaxHooks
Rows == [sub : Subs, hook : Hooks, due : BOOLEAN]

\* What a handler does next.  "user" to "rollback" are RegisterForSubscription,
\* "regs" to "rows" the two delete methods, "list" to "adopt" ResyncForUser,
\* "owner" to "update" RefreshExpiring.
Steps == {"idle", "active", "existing", "user", "register", "create", "rollback",
          "regs", "jira", "rows", "subs", "creds",
          "list", "local", "adopt", "drop", "owner", "refresh", "update"}
Ops == {"none", "subscribe", "unwatch", "connect", "disconnect", "kick", "resync", "refresh"}

\* A handler: its operation, chat and next step, the subscriptions it still has
\* to deal with, the one it deals with, the hook it registered, the rows it read
\* and the hooks Jira listed.
Job == [op : Ops, chat : Chats \union {NoChat}, at : Steps, subs : SUBSET Subs, sub : Subs \union {NoSub},
        hook : Hooks \union {0}, regs : SUBSET Rows, list : SUBSET Hooks]
Idle == [op |-> "none", chat |-> NoChat, at |-> "idle", subs |-> {}, sub |-> NoSub, hook |-> 0,
         regs |-> {}, list |-> {}]

VARIABLES
  \* MongoDB
  connected, \* the user's document has an access token
  state,     \* each subscription: "new", "active" or "gone"
  rows,      \* webhook_registrations
  \* Jira
  hooks,     \* live webhooks
  old,       \* those that expire within the lead time
  filter,    \* the subscription each hook was registered for
  \* handlers
  job,
  \* history
  excused,   \* hooks whose row went, while they may live, for a named reason
  doubled,   \* a resync adopted a hook for a subscription that had a row
  calm,      \* no removal or resync has run beside another handler
  solo,      \* a /disconnect: "run", "done" if alone and without failure, or "no"
  ops,       \* handlers started
  failures

vars == <<connected, state, rows, hooks, old, filter, job, excused, doubled,
          calm, solo, ops, failures>>
mongo == <<connected, state, rows>>
jira == <<hooks, old, filter>>
history == <<excused, doubled>>

TypeOK ==
  /\ connected \in BOOLEAN
  /\ state \in [Subs -> {"new", "active", "gone"}]
  /\ rows \subseteq Rows
  /\ hooks \subseteq Hooks /\ old \subseteq hooks
  /\ filter \in [Hooks -> Subs \union {NoSub}]
  /\ job \in [Procs -> Job]
  /\ \A p \in Procs :
       /\ job[p].at \in {"create", "rollback"} => filter[job[p].hook] = job[p].sub
       /\ job[p].at \in {"register", "create"} => job[p].sub # NoSub
  /\ excused \subseteq Hooks
  /\ doubled \in BOOLEAN /\ calm \in BOOLEAN
  /\ solo \in {"run", "done", "no"}
  /\ ops \in 0 .. MaxOps
  /\ failures \in 0 .. MaxFailures

Init ==
  /\ connected = FALSE
  /\ state = [s \in Subs |-> "new"]
  /\ rows = {} /\ hooks = {} /\ old = {}
  /\ filter = [h \in Hooks |-> NoSub]
  /\ job = [p \in Procs |-> Idle]
  /\ excused = {} /\ doubled = FALSE /\ calm = TRUE /\ solo = "no" /\ ops = 0 /\ failures = 0

-----------------------------------------------------------------------------
Active == {s \in Subs : state[s] = "active"}
RowsOf(s) == {r \in rows : r.sub = s}
HooksOf(R) == {r.hook : r \in R}
Fail == failures < MaxFailures /\ failures' = failures + 1

\* A call fails on its own, or because the user has no token to lease.
Refused == (~connected /\ UNCHANGED failures) \/ Fail

Start(p, j) == job[p] = Idle /\ ops < MaxOps /\ job' = [job EXCEPT ![p] = j]
At(p, op, step) == job[p].op \in op /\ job[p].at = step
Go(p, j) == job' = [job EXCEPT ![p] = j]
Done(p) == Go(p, Idle)

-----------------------------------------------------------------------------
(* Registering hooks                                                       *)

\* createSimpleSubscription and its siblings: the subscription is created,
\* then registered.
Subscribe(p, s) ==
  /\ state[s] = "new"
  /\ state' = [state EXCEPT ![s] = "active"]
  /\ Start(p, [Idle EXCEPT !.op = "subscribe", !.at = "user", !.subs = {s}])
  /\ UNCHANGED <<connected, rows, jira, history, failures>>

\* SiteConnector.Finalize: the user is saved, then the active subscriptions
\* are read and those without a row registered.
Connect(p) ==
  /\ Start(p, [Idle EXCEPT !.op = "connect", !.at = "active"])
  /\ connected' = TRUE
  /\ UNCHANGED <<state, rows, jira, history, failures>>

ReadActive(p) ==
  /\ At(p, {"connect"}, "active")
  /\ \/ Go(p, [job[p] EXCEPT !.at = "existing", !.subs = Active]) /\ UNCHANGED failures
     \/ Done(p) /\ Fail
  /\ UNCHANGED <<mongo, jira, history>>

\* Mutant of ReadExisting: one registration counts for all subscriptions.
ReadExistingOnce(p) ==
  /\ At(p, {"connect"}, "existing")
  /\ \/ /\ Go(p, [job[p] EXCEPT !.at = "user", !.subs = IF rows = {} THEN @ ELSE {}])
        /\ UNCHANGED failures
     \/ Go(p, [job[p] EXCEPT !.at = "user"]) /\ Fail
  /\ UNCHANGED <<mongo, jira, history>>

\* A failed read of the rows makes every subscription look unregistered.
ReadExisting(p) ==
  /\ At(p, {"connect"}, "existing")
  /\ \/ /\ Go(p, [job[p] EXCEPT !.at = "user",
                    !.subs = {s \in job[p].subs : RowsOf(s) = {}}])
        /\ UNCHANGED failures
     \/ Go(p, [job[p] EXCEPT !.at = "user"]) /\ Fail
  /\ UNCHANGED <<mongo, jira, history>>

\* Mutant of ReadUser: the handler goes on with no subscription in hand.
ReadUserOnly(p) ==
  /\ At(p, {"subscribe", "connect"}, "user")
  /\ \/ job[p].subs = {} /\ Done(p) /\ UNCHANGED failures
     \/ \E s \in job[p].subs :
          \/ connected /\ Go(p, [job[p] EXCEPT !.at = "register", !.subs = @ \ {s}])
             /\ UNCHANGED failures
          \/ Go(p, [job[p] EXCEPT !.subs = @ \ {s}]) /\ Refused
  /\ UNCHANGED <<mongo, jira, history>>

\* The next subscription: nothing happens for it while the user is not
\* connected.
ReadUser(p) ==
  /\ At(p, {"subscribe", "connect"}, "user")
  /\ \/ job[p].subs = {} /\ Done(p) /\ UNCHANGED failures
     \/ \E s \in job[p].subs :
          \/ /\ connected
             /\ Go(p, [job[p] EXCEPT !.at = "register", !.sub = s, !.subs = @ \ {s}])
             /\ UNCHANGED failures
          \/ Go(p, [job[p] EXCEPT !.subs = @ \ {s}]) /\ Refused
  /\ UNCHANGED <<mongo, jira, history>>

NewHook == CHOOSE h \in Hooks : filter[h] = NoSub /\ \A g \in Hooks : g < h => filter[g] # NoSub
NextSub(p) == [job[p] EXCEPT !.at = "user", !.sub = NoSub, !.hook = 0]

\* RegisterWebhook; the answer may be lost after Jira registered the hook.
RegisterOk(p) ==
  /\ At(p, {"subscribe", "connect"}, "register")
  /\ \E h \in Hooks : filter[h] = NoSub
  /\ hooks' = hooks \union {NewHook}
  /\ filter' = [filter EXCEPT ![NewHook] = job[p].sub]
  /\ \/ Go(p, [job[p] EXCEPT !.at = "create", !.hook = NewHook]) /\ UNCHANGED failures
     \/ Go(p, NextSub(p)) /\ Fail
  /\ UNCHANGED <<mongo, old, history>>

RegisterFails(p) ==
  /\ At(p, {"subscribe", "connect"}, "register")
  /\ Go(p, NextSub(p))
  /\ Refused
  /\ UNCHANGED <<mongo, jira, history>>

CreateRow(p) ==
  /\ At(p, {"subscribe", "connect"}, "create")
  /\ \/ /\ rows' = rows \union {[sub |-> job[p].sub, hook |-> job[p].hook, due |-> FALSE]}
        /\ Go(p, NextSub(p)) /\ UNCHANGED failures
     \/ UNCHANGED rows /\ Go(p, [job[p] EXCEPT !.at = "rollback"]) /\ Fail
  /\ UNCHANGED <<connected, state, jira, history>>

Rollback(p) ==
  /\ At(p, {"subscribe", "connect"}, "rollback")
  /\ Go(p, NextSub(p))
  /\ \/ hooks' = hooks \ {job[p].hook} /\ old' = old \ {job[p].hook} /\ UNCHANGED failures
     \/ UNCHANGED <<hooks, old>> /\ Refused
  /\ UNCHANGED <<mongo, filter, history>>

-----------------------------------------------------------------------------
(* Deleting hooks                                                          *)

\* handleUnwatch: the chat's subscriptions are read (a failed read skips the
\* webhooks), each one's hooks are deleted, then whatever subscriptions the
\* chat has by then.
Unwatch(p, c) ==
  /\ \/ Start(p, [Idle EXCEPT !.op = "unwatch", !.chat = c, !.at = "regs",
                              !.subs = {s \in Active : ChatOf[s] = c}])
        /\ UNCHANGED failures
     \/ Start(p, [Idle EXCEPT !.op = "unwatch", !.chat = c, !.at = "subs"]) /\ Fail
  /\ UNCHANGED <<mongo, jira, history>>

\* handleDisconnect, and handleAdminDisconnect ("kick"), which keeps the
\* subscriptions.
Disconnect(p) ==
  /\ \E op \in {"disconnect", "kick"} : Start(p, [Idle EXCEPT !.op = op, !.at = "regs"])
  /\ UNCHANGED <<mongo, jira, history, failures>>

Deleting == {"unwatch", "disconnect", "kick"}
AllHooks == {"disconnect", "kick"}

\* Mutant of AfterHooks: /disconnect takes the admin's path.
AfterHooksNoSubs(j) ==
  IF j.op = "unwatch" THEN [j EXCEPT !.at = "regs", !.sub = NoSub, !.regs = {}]
  ELSE [j EXCEPT !.at = "creds", !.regs = {}]

\* Where a delete method returns to.
AfterHooks(j) ==
  CASE j.op = "unwatch" -> [j EXCEPT !.at = "regs", !.sub = NoSub, !.regs = {}]
    [] j.op = "disconnect" -> [j EXCEPT !.at = "subs", !.regs = {}]
    [] j.op = "kick" -> [j EXCEPT !.at = "creds", !.regs = {}]

\* GetBySubscription for the next subscription, or GetByUser; with no rows,
\* or none read, the method returns.
ReadRegs(p) ==
  /\ At(p, Deleting, "regs")
  /\ \/ /\ job[p].op = "unwatch" /\ job[p].subs = {}
        /\ Go(p, [job[p] EXCEPT !.at = "subs"]) /\ UNCHANGED failures
     \/ \E s \in IF job[p].op = "unwatch" THEN job[p].subs ELSE {NoSub} :
          LET found == IF job[p].op = "unwatch" THEN RowsOf(s) ELSE rows
              j == [job[p] EXCEPT !.sub = s, !.subs = @ \ {s}, !.regs = found, !.at = "jira"]
          IN \/ Go(p, IF found = {} THEN AfterHooks(j) ELSE j) /\ UNCHANGED failures
             \/ Go(p, AfterHooks(j)) /\ Fail
  /\ UNCHANGED <<mongo, jira, history>>

\* Mutant of DeleteHooks: only the first hook's id is sent.
DeleteFirstHook(p) ==
  /\ At(p, Deleting, "jira")
  /\ Go(p, [job[p] EXCEPT !.at = "rows"])
  /\ \/ /\ connected
        /\ LET first == {CHOOSE h \in HooksOf(job[p].regs) : TRUE} IN
             hooks' = hooks \ first /\ old' = old \ first
        /\ UNCHANGED <<failures, excused>>
     \/ /\ Refused /\ UNCHANGED <<hooks, old>>
        /\ excused' = excused \union HooksOf(job[p].regs)
  /\ UNCHANGED <<mongo, filter, doubled>>

\* Jira deletes the hooks, unless the user is not connected or the call
\* fails: then they live on, and their rows go all the same.
DeleteHooks(p) ==
  /\ At(p, Deleting, "jira")
  /\ Go(p, [job[p] EXCEPT !.at = "rows"])
  /\ \/ /\ connected
        /\ hooks' = hooks \ HooksOf(job[p].regs) /\ old' = old \ HooksOf(job[p].regs)
        /\ UNCHANGED <<failures, excused>>
     \/ /\ Refused /\ UNCHANGED <<hooks, old>>
        /\ excused' = excused \union HooksOf(job[p].regs)
  /\ UNCHANGED <<mongo, filter, doubled>>

\* DeleteBySubscription or DeleteByUser: all rows there are by now, also
\* those created since they were read.
DeleteRows(p) ==
  /\ At(p, Deleting, "rows")
  /\ Go(p, AfterHooks(job[p]))
  /\ LET there == IF job[p].op = "unwatch" THEN RowsOf(job[p].sub) ELSE rows IN
       \/ /\ rows' = rows \ there
          /\ excused' = excused \union (HooksOf(there) \ HooksOf(job[p].regs))
          /\ UNCHANGED failures
       \/ UNCHANGED <<rows, excused>> /\ Fail
  /\ UNCHANGED <<connected, state, jira, doubled>>

\* DeleteByChat or DeleteByUserID.
DeleteSubs(p) ==
  /\ At(p, Deleting, "subs")
  /\ \/ /\ state' = [s \in Subs |->
              IF s \in Active /\ (job[p].op = "disconnect" \/ ChatOf[s] = job[p].chat)
              THEN "gone" ELSE state[s]]
        /\ UNCHANGED failures
     \/ UNCHANGED state /\ Fail
  /\ IF job[p].op = "disconnect" THEN Go(p, [job[p] EXCEPT !.at = "creds"]) ELSE Done(p)
  /\ UNCHANGED <<connected, rows, jira, history>>

ClearCredentials(p) ==
  /\ At(p, AllHooks, "creds")
  /\ Done(p)
  /\ \/ connected' = FALSE /\ UNCHANGED failures
     \/ UNCHANGED connected /\ Fail
  /\ UNCHANGED <<state, rows, jira, history>>

-----------------------------------------------------------------------------
(* Resync: the admin's repair of drift                                     *)

\* The subscriptions are read before Jira's list, the rows after it.
Resync(p) ==
  /\ connected
  /\ Start(p, [Idle EXCEPT !.op = "resync", !.at = "list", !.subs = Active])
  /\ UNCHANGED <<mongo, jira, history, failures>>

ListHooks(p) ==
  /\ At(p, {"resync"}, "list")
  /\ \/ Go(p, [job[p] EXCEPT !.at = "local", !.list = hooks]) /\ UNCHANGED failures
     \/ Done(p) /\ Refused
  /\ UNCHANGED <<mongo, jira, history>>

\* subByJQL: one subscription per filter, the first of the list.
Representatives(S) ==
  {D \in SUBSET S : /\ \A s \in S : \E d \in D : JqlOf[d] = JqlOf[s]
                    /\ \A d, e \in D : JqlOf[d] = JqlOf[e] => d = e}

\* From here on list holds the hooks to adopt, regs the rows to drop.
ReadLocal(p) ==
  /\ At(p, {"resync"}, "local")
  /\ \/ /\ \E D \in Representatives(job[p].subs) :
             Go(p, [job[p] EXCEPT !.at = "adopt", !.subs = D,
                      !.list = @ \ HooksOf(rows),
                      !.regs = {r \in rows : r.hook \notin job[p].list}])
        /\ UNCHANGED failures
     \/ Done(p) /\ Fail
  /\ UNCHANGED <<mongo, jira, history>>

\* A hook is adopted for the subscription with its filter that is not
\* claimed; the other hooks are left alone.
Adopt(p) ==
  /\ At(p, {"resync"}, "adopt")
  /\ LET fits == {x \in job[p].list \X job[p].subs : JqlOf[filter[x[1]]] = JqlOf[x[2]]} IN
       \/ /\ fits = {} /\ Go(p, [job[p] EXCEPT !.at = "drop", !.list = {}, !.subs = {}])
          /\ UNCHANGED <<rows, doubled, failures>>
       \/ \E x \in fits :
            \/ /\ rows' = rows \union {[sub |-> x[2], hook |-> x[1], due |-> x[1] \in old]}
               /\ doubled' = (doubled \/ RowsOf(x[2]) # {})
               /\ Go(p, [job[p] EXCEPT !.list = @ \ {x[1]}, !.subs = @ \ {x[2]}])
               /\ UNCHANGED failures
            \/ /\ UNCHANGED <<rows, doubled>>
               /\ Go(p, [job[p] EXCEPT !.list = @ \ {x[1]}])
               /\ Fail
  /\ UNCHANGED <<connected, state, jira, excused>>

Same(q, r) == q.sub = r.sub /\ q.hook = r.hook

\* Rows are dropped one by one: those of hooks Jira did not list, or those
\* the refresher gave up.
Drop(p) ==
  /\ At(p, {"resync", "refresh"}, "drop")
  /\ \/ /\ job[p].regs = {} /\ Done(p)
        /\ UNCHANGED <<rows, excused, failures>>
     \/ \E r \in job[p].regs :
          /\ Go(p, [job[p] EXCEPT !.regs = @ \ {r}])
          /\ \/ /\ rows' = {q \in rows : ~Same(q, r)}
                /\ excused' = excused \union {r.hook}
                /\ UNCHANGED failures
             \/ UNCHANGED <<rows, excused>> /\ Fail
  /\ UNCHANGED <<connected, state, jira, doubled>>

-----------------------------------------------------------------------------
(* Refreshing and expiry                                                   *)

\* RefreshExpiring, by webhook-svc alone: the rows that are due are read, then
\* the user; an unreadable user counts as gone.
Refresh(p) ==
  /\ \A q \in Procs : job[q].op # "refresh"
  /\ \E r \in rows : r.due
  /\ Start(p, [Idle EXCEPT !.op = "refresh", !.at = "owner", !.regs = {r \in rows : r.due}])
  /\ UNCHANGED <<mongo, jira, history, failures>>

ReadOwner(p) ==
  /\ At(p, {"refresh"}, "owner")
  /\ \/ connected /\ Go(p, [job[p] EXCEPT !.at = "refresh"]) /\ UNCHANGED failures
     \/ Go(p, [job[p] EXCEPT !.at = "drop"]) /\ Refused
  /\ UNCHANGED <<mongo, jira, history>>

\* Jira renews the hooks it has; with one gone it may refuse them all (404).
RefreshHooks(p) ==
  /\ At(p, {"refresh"}, "refresh")
  /\ LET asked == HooksOf(job[p].regs) IN
       \/ old' = old \ asked /\ Go(p, [job[p] EXCEPT !.at = "update"]) /\ UNCHANGED failures
       \/ /\ ~(asked \subseteq hooks) /\ Go(p, [job[p] EXCEPT !.at = "drop"])
          /\ UNCHANGED <<old, failures>>
       \/ Done(p) /\ Refused /\ UNCHANGED old
  /\ UNCHANGED <<mongo, hooks, filter, history>>

UpdateExpiry(p) ==
  /\ At(p, {"refresh"}, "update")
  /\ \/ job[p].regs = {} /\ Done(p) /\ UNCHANGED <<rows, failures>>
     \/ \E r \in job[p].regs :
          /\ Go(p, [job[p] EXCEPT !.regs = @ \ {r}])
          /\ \/ /\ rows' = {IF Same(q, r) THEN [q EXCEPT !.due = FALSE] ELSE q : q \in rows}
                /\ UNCHANGED failures
             \/ UNCHANGED rows /\ Fail
  /\ UNCHANGED <<connected, state, jira, history>>

\* A hook and its rows come within the lead time of their expiry.
Age(h) ==
  /\ h \in hooks \ old \/ \E r \in rows : r.hook = h /\ ~r.due
  /\ old' = old \union ({h} \intersect hooks)
  /\ rows' = {IF r.hook = h THEN [r EXCEPT !.due = TRUE] ELSE r : r \in rows}
  /\ UNCHANGED <<connected, state, hooks, filter, job, history, failures>>

\* The refresher did not get to h for the whole lead time: Jira drops the hook
\* if it was not renewed, and the TTL index its rows that are due.
Lapse(h) ==
  /\ h \in old \/ \E r \in rows : r.hook = h /\ r.due
  /\ hooks' = hooks \ ({h} \intersect old) /\ old' = old \ {h}
  /\ rows' = {r \in rows : r.hook = h => ~r.due}
  /\ Fail
  /\ UNCHANGED <<connected, state, filter, job, history>>

\* The process dies, or the handler's context ends.
Crash(p) ==
  /\ job[p] # Idle
  /\ Done(p) /\ Fail
  /\ UNCHANGED <<mongo, jira, history>>

-----------------------------------------------------------------------------
Registering(p) ==
  \/ \E s \in Subs : Subscribe(p, s)
  \/ Connect(p) \/ ReadActive(p) \/ ReadExisting(p) \/ ReadUser(p)
  \/ RegisterOk(p) \/ RegisterFails(p) \/ CreateRow(p) \/ Rollback(p)
Removing(p) ==
  \/ \E c \in Chats : Unwatch(p, c)
  \/ Disconnect(p) \/ ReadRegs(p) \/ DeleteHooks(p) \/ DeleteRows(p)
  \/ DeleteSubs(p) \/ ClearCredentials(p)
Repairing(p) ==
  \/ Resync(p) \/ ListHooks(p) \/ ReadLocal(p) \/ Adopt(p) \/ Drop(p)
  \/ Refresh(p) \/ ReadOwner(p) \/ RefreshHooks(p) \/ UpdateExpiry(p)

\* What p's step makes of solo.
Solo(p) ==
  IF failures' # failures THEN "no"
  ELSE IF job[p] = Idle /\ job'[p].op = "disconnect" /\ \A q \in Procs \ {p} : job[q] = Idle
  THEN "run"
  ELSE IF solo = "run" /\ job[p].op = "disconnect"
  THEN IF job'[p] = Idle THEN "done" ELSE "run"
  ELSE "no"

Alone == \A p, q \in Procs :
  job'[p].op \in Deleting \union {"resync"} /\ q # p => job'[q] = Idle

Next ==
  \/ \E p \in Procs : /\ Registering(p) \/ Removing(p) \/ Repairing(p) \/ Crash(p)
                      /\ solo' = Solo(p) /\ calm' = (calm /\ Alone)
                      /\ ops' = IF job[p] = Idle THEN ops + 1 ELSE ops
  \/ \E h \in Hooks : Age(h) /\ UNCHANGED <<solo, calm, ops>>
  \/ \E h \in Hooks : Lapse(h) /\ solo' = "no" /\ UNCHANGED <<calm, ops>>

Spec == Init /\ [][Next]_vars

-----------------------------------------------------------------------------
(* Properties                                                              *)

\* While no call fails, a live hook has a row, or a handler is about to write
\* one, or its row went for a named reason: it was created after the delete
\* method read the rows, the user was not connected, a resync listed Jira
\* before the hook was there, or the refresher gave its rows up.
HookIsTracked ==
  failures = 0 =>
    \A h \in hooks \ excused :
      \/ h \in HooksOf(rows)
      \/ \E p \in Procs : At(p, {"subscribe", "connect"}, "create") /\ job[p].hook = h

\* However subscribing, connecting and refreshing overlap, no call failing and
\* removals and resyncs keeping to themselves, once the handlers are done every
\* subscription of a connected user has a live hook: "the OAuth callback will
\* retry registration later" (webhooks.go:102-104) misses none.
SubscribedIsRegistered ==
  failures = 0 /\ calm /\ connected /\ (\A p \in Procs : job[p] = Idle) =>
    \A s \in Active : \E r \in RowsOf(s) : r.hook \in hooks

\* A /disconnect that runs alone and without failure leaves nothing behind,
\* whatever earlier failures and overlaps left: it is there to let a stuck user
\* "converge on a clean state" (handler_connect.go:46-49).
DisconnectConverges ==
  solo = "done" => ~connected /\ Active = {} /\ rows = {}

\* ResyncForUser adopts a hook only for a subscription that has none: "multiple
\* rows pointing at the same sub would confuse DeleteForSubscription
\* downstream" (webhooks.go:283-285).
AdoptsForFreeSubs == ~doubled
=============================================================================
