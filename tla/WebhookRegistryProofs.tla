------------------------- MODULE WebhookRegistryProofs -------------------------
(***************************************************************************)
(* Proofs about WebhookRegistry for any subscriptions, chats, filters,     *)
(* handlers and bounds: its states are well typed, a live hook is tracked, *)
(* a connected user's subscriptions are registered, and a /disconnect that *)
(* runs alone leaves nothing behind.                                       *)
(***************************************************************************)
EXTENDS WebhookRegistry, FiniteSetTheorems, TLAPS

USE SubsAssumption, BoundsAssumption

(* ---------------------------------------------------------------------- *)
(* The inductive invariant                                                 *)

\* Hooks that Jira has given out.
Given == {h \in Hooks : filter[h] # NoSub}

\* The steps of each operation.
StepsOf(op) ==
  {a \in Steps :
     \/ op = "none" /\ a = "idle"
     \/ op \in {"subscribe", "connect"} /\ a \in {"user", "register", "create", "rollback"}
     \/ op = "connect" /\ a \in {"active", "existing"}
     \/ op \in Deleting /\ a \in {"regs", "jira", "rows"}
     \/ op \in {"unwatch", "disconnect"} /\ a = "subs"
     \/ op \in AllHooks /\ a = "creds"
     \/ op = "resync" /\ a \in {"list", "local", "adopt"}
     \/ op = "refresh" /\ a \in {"owner", "refresh", "update"}
     \/ op \in {"resync", "refresh"} /\ a = "drop"}

\* A handler at a step of its operation, with hooks that were given out, and
\* between registering a hook and writing its row, that hook.
Sound(j) ==
  /\ j.at \in StepsOf(j.op) /\ (j.op = "none" => j = Idle)
  /\ j.at \in {"register", "create", "rollback"} => j.sub \in Subs
  /\ j.at \in {"create", "rollback"} => j.hook \in Given /\ filter[j.hook] = j.sub
  /\ HooksOf(j.regs) \subseteq Given /\ j.list \subseteq Given

Jobs == \A p \in Procs : Sound(job[p])
Known == hooks \subseteq Given /\ HooksOf(rows) \subseteq Given
Core == TypeOK /\ Jobs /\ Known

\* A delete method that is about to delete rows has dealt with the hooks of
\* those it read.
DealtWith(j) == j.op \in Deleting /\ j.at = "rows" => HooksOf(j.regs) \intersect hooks \subseteq excused
Tracked == HookIsTracked /\ \A p \in Procs : DealtWith(job[p])

\* While calm, removals and resyncs have the system for themselves.
Quiet ==
  calm => \A p, q \in Procs : job[p].op \in Deleting \union {"resync"} /\ q # p => job[q] = Idle

\* Rows of one hook are of one subscription, and a hook on its way to its row
\* has none yet.
OneSub(R, S) == \A q \in R, r \in S : q.hook = r.hook => q.sub = r.sub
Single ==
  /\ OneSub(rows, rows)
  /\ \A p \in Procs : job[p].at = "create" =>
       /\ job[p].hook \in hooks \ HooksOf(rows)
       /\ \A q \in Procs \ {p} : job[q].at = "create" => job[q].hook # job[p].hook

\* Rows that a delete method is about to delete.
Falls(j, r) == j.op \in Deleting /\ j.at = "rows" /\ (j.op = "unwatch" => r.sub = j.sub)
Live == \A r \in rows : r.hook \in hooks \/ \E p \in Procs : Falls(job[p], r)

\* What handlers have in hand while nothing fails and removals keep to
\* themselves.
Calm(j) ==
  /\ j.at # "rollback"
  /\ j.op = "unwatch" /\ j.at \in {"regs", "jira", "rows"} =>
       /\ \A s \in j.subs : ChatOf[s] = j.chat
       /\ j.at # "regs" => j.sub \in Subs /\ ChatOf[j.sub] = j.chat
  /\ j.op \in Deleting /\ j.at = "jira" =>
       /\ OneSub(rows, j.regs)
       /\ j.op = "unwatch" => \A r \in j.regs : r.sub = j.sub
  /\ j.op \in AllHooks /\ j.at \in {"subs", "creds"} => rows = {}
  /\ j.op = "resync" =>
       /\ j.at = "local" => j.list = hooks
       /\ j.at = "adopt" => j.list \subseteq hooks \ HooksOf(rows)
       /\ j.at \in {"adopt", "drop"} => HooksOf(j.regs) \intersect hooks = {}
  /\ j.op = "refresh" => j.at # "drop" /\ HooksOf(j.regs) \subseteq hooks
  /\ j.op \in {"resync", "refresh"} => connected
  /\ j.at \in {"register", "create"} => connected

\* A subscription has a live hook, or a handler is at work on it, or its chat's
\* or its user's removal is.
Good(s) == \E r \in RowsOf(s) : r.hook \in hooks
Cares(j, s) ==
  \/ j.op = "connect" /\ j.at = "active"
  \/ j.op \in {"subscribe", "connect"} /\ j.at # "active" /\ s \in j.subs
  \/ j.at \in {"register", "create"} /\ j.sub = s
Removes(j, s) == j.op \in AllHooks \/ (j.op = "unwatch" /\ ChatOf[s] = j.chat)
Cared ==
  connected => \A s \in Active : Good(s) \/ \E p \in Procs : Cares(job[p], s) \/ Removes(job[p], s)

Orderly ==
  /\ Single /\ Live /\ Cared
  /\ \A p \in Procs : Calm(job[p])
  /\ ~connected => rows = {}
Settled == failures = 0 /\ calm => Orderly

\* The /disconnect that runs alone.
Runs(p) ==
  /\ job[p].op = "disconnect" /\ \A q \in Procs \ {p} : job[q] = Idle
  /\ job[p].at \in {"subs", "creds"} => rows = {}
  /\ job[p].at = "creds" => Active = {}
Lonely ==
  /\ solo = "run" => \E p \in Procs : Runs(p)
  /\ DisconnectConverges

IInv == Core /\ Tracked /\ Quiet /\ Settled /\ Lonely
(* ---------------------------------------------------------------------- *)
(* Steps of one handler                                                    *)

\* The step of handler p makes j of it.
StepTo(p, j) ==
  /\ job' = [job EXCEPT ![p] = j]
  /\ job[p] = Idle => ops < MaxOps
  /\ solo' = Solo(p) /\ calm' = (calm /\ Alone)
  /\ ops' = IF job[p] = Idle THEN ops + 1 ELSE ops

\* Everything but the handlers and the history of their overlaps.
Data ==
  /\ connected \in BOOLEAN
  /\ state \in [Subs -> {"new", "active", "gone"}]
  /\ rows \subseteq Rows /\ HooksOf(rows) \subseteq Given
  /\ hooks \subseteq Given /\ old \subseteq hooks
  /\ filter \in [Hooks -> Subs \union {NoSub}]
  /\ excused \subseteq Hooks
  /\ doubled \in BOOLEAN
  /\ failures \in 0 .. MaxFailures

\* A hook once given out keeps its filter.
Grows == \A h \in Given : h \in Given' /\ filter'[h] = filter[h]

\* Failures are only counted up.
Counts == failures' = failures \/ failures' = failures + 1

LEMMA IdleType == Idle \in Job /\ Sound(Idle)
<1>1. NoChat \in Chats \union {NoChat} /\ NoSub \in Subs \union {NoSub}
  OBVIOUS
<1>2. Idle \in Job
  BY <1>1 DEF Idle, Job, Ops, Steps
<1>3. Idle.op = "none" /\ Idle.at = "idle" /\ Idle.regs = {} /\ Idle.list = {}
  BY DEF Idle
<1> QED
  BY <1>2, <1>3 DEF Sound, StepsOf, Steps, HooksOf

LEMMA CoreData == ASSUME Core PROVE Data
BY DEF Core, TypeOK, Known, Data

LEMMA CoreJob ==
  ASSUME Core, NEW p \in Procs
  PROVE  job[p] \in Job /\ Sound(job[p]) /\ (job[p].op = "none" => job[p] = Idle)
BY DEF Core, TypeOK, Jobs, Sound

LEMMA StepPuts ==
  ASSUME Core, NEW p \in Procs, NEW j, StepTo(p, j)
  PROVE  job'[p] = j /\ \A q \in Procs \ {p} : job'[q] = job[q]
BY DEF Core, TypeOK, StepTo

LEMMA SoundStays ==
  ASSUME Grows, NEW j \in Job, Sound(j)
  PROVE  Sound(j)'
BY DEF Sound, Grows

LEMMA SameFilter ==
  ASSUME UNCHANGED filter
  PROVE  Given' = Given /\ Grows
BY DEF Given, Grows

LEMMA CoreKeeps ==
  ASSUME Core, NEW p \in Procs, NEW j \in Job, StepTo(p, j), Data', Grows, Sound(j)'
  PROVE  Core'
<1>1. job \in [Procs -> Job]
  BY DEF Core, TypeOK
<1>2. job' \in [Procs -> Job]
  BY <1>1 DEF StepTo
<1>3. Jobs'
  BY CoreJob, StepPuts, SoundStays DEF Jobs
<1>4. Known'
  BY DEF Data, Known
<1>5. calm' \in BOOLEAN /\ solo' \in {"run", "done", "no"} /\ ops' \in 0 .. MaxOps
  <2>1. calm' \in BOOLEAN
    BY DEF Core, TypeOK, StepTo
  <2>2. solo' \in {"run", "done", "no"}
    BY DEF StepTo, Solo
  <2>3. ops' \in 0 .. MaxOps
    BY DEF Core, TypeOK, StepTo
  <2> QED
    BY <2>1, <2>2, <2>3
<1>6. ASSUME NEW q \in Procs
      PROVE  /\ job[q]'.at \in {"create", "rollback"} => filter'[job[q]'.hook] = job[q]'.sub
             /\ job[q]'.at \in {"register", "create"} => job[q]'.sub # NoSub
  BY <1>3 DEF Jobs, Sound
<1>7. TypeOK'
  BY <1>2, <1>5, <1>6, Zenon DEF TypeOK, Data, Given
<1> QED
  BY <1>3, <1>4, <1>7 DEF Core

LEMMA QuietKeeps ==
  ASSUME NEW p \in Procs, NEW j, StepTo(p, j)
  PROVE  Quiet'
BY DEF StepTo, Alone, Quiet

\* Others are idle beside a removal or a resync that keeps to itself.
LEMMA OthersIdle ==
  ASSUME Core, Quiet, calm, NEW p \in Procs, NEW q \in Procs, p # q
  PROVE  /\ job[p].op \in Deleting \union {"resync"} => job[q] = Idle
         /\ job[p] # Idle => job[q].op \notin Deleting \union {"resync"}
BY DEF Quiet

LEMMA IdleNothing ==
  /\ Idle.at # "create" /\ Idle.at # "rows" /\ Idle.op \notin Deleting /\ Idle.at # "rollback"
  /\ Calm(Idle)
  /\ \A s \in Subs : ~Cares(Idle, s) /\ ~Removes(Idle, s)
  /\ \A r \in Rows : ~Falls(Idle, r)
<1>1. /\ Idle.op = "none" /\ Idle.at = "idle"
  BY DEF Idle
<1> QED
  BY <1>1 DEF Deleting, AllHooks, Calm, Cares, Removes, Falls

LEMMA Failing ==
  ASSUME Core, Fail
  PROVE  failures' # 0 /\ failures' # failures /\ failures' \in 0 .. MaxFailures /\ Counts
BY DEF Core, TypeOK, Fail, Counts

LEMMA Refusing ==
  ASSUME Core, Refused
  PROVE  /\ failures' = 0 => ~connected /\ failures = 0
         /\ failures' = failures => ~connected
         /\ failures' \in 0 .. MaxFailures /\ Counts
BY Failing DEF Core, TypeOK, Refused, Counts
\* What a step that makes j of handler p has to do with the hooks: those it
\* frees of their rows it excuses, and one it registers is new.
Tracks(p, j) ==
  /\ excused \subseteq excused'
  /\ \A h \in hooks' \ hooks : h \notin Given
  /\ DealtWith(j)'
  /\ failures' = 0 =>
       \A h \in hooks' \ excused' :
         \/ h \in HooksOf(rows')
         \/ j.op \in {"subscribe", "connect"} /\ j.at = "create" /\ j.hook = h
         \/ h \in hooks /\ h \notin HooksOf(rows) /\ ~(job[p].at = "create" /\ job[p].hook = h)

LEMMA TrackedKeeps ==
  ASSUME Core, Tracked, NEW p \in Procs, NEW j, StepTo(p, j), Counts, Tracks(p, j)
  PROVE  Tracked'
<1>1. job'[p] = j /\ \A q \in Procs \ {p} : job'[q] = job[q]
  BY StepPuts
<1>2. ASSUME NEW q \in Procs PROVE DealtWith(job[q])'
  <2>1. CASE q = p
    BY <1>1, <2>1 DEF Tracks
  <2>2. CASE q # p
    <3>1. DealtWith(job[q]) /\ HooksOf(job[q].regs) \subseteq Given
      BY CoreJob DEF Tracked, Sound
    <3> QED
      BY <1>1, <2>2, <3>1 DEF Tracks, DealtWith
  <2> QED
    BY <2>1, <2>2
<1>3. HookIsTracked'
  <2> SUFFICES ASSUME failures' = 0, NEW h \in hooks' \ excused', h \notin HooksOf(rows')
               PROVE  \E q \in Procs : /\ job'[q].op \in {"subscribe", "connect"} /\ job'[q].at = "create"
                                       /\ job'[q].hook = h
    BY DEF HookIsTracked, At
  <2>1. CASE j.op \in {"subscribe", "connect"} /\ j.at = "create" /\ j.hook = h
    BY <1>1, <2>1
  <2>2. CASE h \in hooks /\ h \notin HooksOf(rows) /\ ~(job[p].at = "create" /\ job[p].hook = h)
    <3>1. failures = 0
      BY DEF Core, TypeOK, Counts
    <3>2. h \in hooks \ excused
      BY <2>2 DEF Tracks
    <3>3. PICK q \in Procs : /\ job[q].op \in {"subscribe", "connect"} /\ job[q].at = "create"
                             /\ job[q].hook = h
      BY <2>2, <3>1, <3>2 DEF Tracked, HookIsTracked, At
    <3> QED
      BY <1>1, <2>2, <3>3
  <2> QED
    BY <2>1, <2>2 DEF Tracks
<1> QED
  BY <1>2, <1>3 DEF Tracked

\* What a step of the /disconnect that runs alone may make of it.
Cleans(p, j) ==
  /\ job[p] = Idle /\ j.op = "disconnect" => j.at = "regs"
  /\ failures' = failures /\ job[p].op = "disconnect" /\ Runs(p) =>
       IF j = Idle THEN ~connected' /\ Active' = {} /\ rows' = {}
       ELSE /\ j.op = "disconnect"
            /\ j.at \in {"subs", "creds"} => rows' = {}
            /\ j.at = "creds" => Active' = {}

LEMMA LonelyKeeps ==
  ASSUME Core, Lonely, NEW p \in Procs, NEW j, StepTo(p, j), Cleans(p, j)
  PROVE  Lonely'
<1>1. job'[p] = j /\ \A q \in Procs \ {p} : job'[q] = job[q]
  BY StepPuts
<1>2. Idle.op = "none"
  BY DEF Idle
<1>3. CASE solo' = "no"
  BY <1>3 DEF Lonely, DisconnectConverges
<1>4. CASE job[p] = Idle /\ j.op = "disconnect" /\ \A q \in Procs \ {p} : job[q] = Idle
  <2>1. Runs(p)'
    BY <1>1, <1>4 DEF Cleans, Runs
  <2>2. solo' # "done"
    BY <1>1, <1>4, <1>2 DEF StepTo, Solo
  <2> QED
    BY <2>1, <2>2 DEF Lonely, DisconnectConverges
<1>5. CASE failures' = failures /\ solo = "run" /\ job[p].op = "disconnect"
           /\ ~(job[p] = Idle /\ j.op = "disconnect" /\ \A q \in Procs \ {p} : job[q] = Idle)
  <2>1. Runs(p)
    BY <1>2, <1>5 DEF Lonely, Runs
  <2>2. solo' = IF j = Idle THEN "done" ELSE "run"
    BY <1>1, <1>5 DEF StepTo, Solo
  <2>3. CASE j = Idle
    BY <1>5, <2>1, <2>2, <2>3 DEF Lonely, Cleans, DisconnectConverges
  <2>4. CASE j # Idle
    <3>1. Runs(p)'
      BY <1>1, <1>5, <2>1, <2>4 DEF Cleans, Runs
    <3> QED
      BY <2>2, <2>4, <3>1 DEF Lonely, DisconnectConverges
  <2> QED
    BY <2>3, <2>4
<1> QED
  BY <1>1, <1>3, <1>4, <1>5 DEF StepTo, Solo

\* What a step that changes no row, hook or subscription may make of a
\* handler while nothing fails and removals keep to themselves.
Settles(p, j) ==
  failures' = 0 /\ failures = 0 /\ calm /\ calm' =>
    /\ Calm(j) /\ job[p].at # "rows"
    /\ connected => \A s \in Active : Cares(job[p], s) \/ Removes(job[p], s) =>
                                        Good(s) \/ Cares(j, s) \/ Removes(j, s)

LEMMA SettledKeeps ==
  ASSUME Core, Quiet, Settled, NEW p \in Procs, NEW j, StepTo(p, j), Counts, Settles(p, j),
         j.at # "create", UNCHANGED <<mongo, hooks, filter>>
  PROVE  Settled'
<1>1. job'[p] = j /\ \A q \in Procs \ {p} : job'[q] = job[q]
  BY StepPuts
<1> SUFFICES ASSUME failures' = 0, calm'
             PROVE  /\ Single' /\ Live' /\ Cared'
                    /\ \A q \in Procs : Calm(job[q])'
                    /\ ~connected' => rows' = {}
  BY DEF Settled, Orderly
<1>2. failures = 0 /\ calm
  BY DEF Core, TypeOK, Counts, StepTo
<1>3. /\ Single /\ Live /\ Cared
      /\ \A q \in Procs : Calm(job[q])
      /\ ~connected => rows = {}
  BY <1>2 DEF Settled, Orderly
<1>4. connected' = connected /\ rows' = rows /\ hooks' = hooks /\ state' = state /\ filter' = filter
  BY DEF mongo
<1>5. Single'
  BY <1>1, <1>3, <1>4 DEF Single
<1>6. Live'
  <2> SUFFICES ASSUME NEW r \in rows, r.hook \notin hooks
               PROVE  \E q \in Procs : Falls(job'[q], r)
    BY <1>4 DEF Live, Falls
  <2>1. PICK q \in Procs : Falls(job[q], r)
    BY <1>3 DEF Live
  <2>2. q # p
    BY <1>2, <2>1 DEF Falls, Settles
  <2> QED
    BY <1>1, <2>1, <2>2
<1>7. Active' = Active /\ \A s \in Subs : Good(s)' <=> Good(s)
  BY <1>4 DEF Active, Good, RowsOf
<1>8. Cared'
  <2> SUFFICES ASSUME connected, NEW s \in Active, ~Good(s)
               PROVE  \E q \in Procs : Cares(job'[q], s) \/ Removes(job'[q], s)
    BY <1>4, <1>7 DEF Cared, Active, Cares, Removes
  <2>1. PICK q \in Procs : Cares(job[q], s) \/ Removes(job[q], s)
    BY <1>3 DEF Cared
  <2>2. CASE q = p
    BY <1>1, <1>2, <2>1, <2>2 DEF Settles
  <2>3. CASE q # p
    BY <1>1, <2>1, <2>3
  <2> QED
    BY <2>2, <2>3
<1>9. ASSUME NEW q \in Procs PROVE Calm(job[q])'
  <2>1. Calm(job'[q])
    BY <1>1, <1>2, <1>3 DEF Settles
  <2> QED
    BY <1>4, <2>1 DEF Calm
<1> QED
  BY <1>3, <1>4, <1>5, <1>6, <1>8, <1>9

\* A step that only moves a handler on, and the hooks' expiry.
LEMMA HandlerOnly ==
  ASSUME IInv, NEW p \in Procs, NEW j \in Job, StepTo(p, j), Sound(j),
         UNCHANGED <<mongo, hooks, filter, history>>, old' \subseteq old,
         Counts, failures' \in 0 .. MaxFailures,
         j.at # "rows", j.at # "create", failures' = 0 => job[p].at # "create",
         Settles(p, j), Cleans(p, j)
  PROVE  IInv'
<1>1. /\ connected' = connected /\ rows' = rows /\ hooks' = hooks /\ state' = state
      /\ filter' = filter /\ excused' = excused /\ doubled' = doubled
  BY DEF mongo, history
<1>2. Given' = Given /\ Grows
  BY <1>1, SameFilter
<1>3. Data'
  BY <1>1, <1>2, CoreData DEF Data, IInv
<1>4. Core'
  BY <1>2, <1>3, CoreKeeps, SoundStays DEF IInv
<1>5. Tracks(p, j)
  BY <1>1 DEF Tracks, DealtWith
<1>6. Tracked'
  BY <1>5, TrackedKeeps DEF IInv
<1>7. Quiet'
  BY QuietKeeps
<1>8. Settled'
  BY SettledKeeps DEF IInv
<1>9. Lonely'
  BY LonelyKeeps DEF IInv
<1> QED
  BY <1>4, <1>6, <1>7, <1>8, <1>9 DEF IInv
(* ---------------------------------------------------------------------- *)
(* Steps that read, and failed steps                                       *)

\* The history of overlaps that goes with a step of p.
Turn(p) ==
  /\ solo' = Solo(p) /\ calm' = (calm /\ Alone)
  /\ ops' = IF job[p] = Idle THEN ops + 1 ELSE ops

LEMMA Starting ==
  ASSUME NEW p \in Procs, NEW j, Start(p, j), Turn(p)
  PROVE  StepTo(p, j) /\ job[p] = Idle
BY DEF Start, Turn, StepTo

LEMMA Going ==
  ASSUME NEW p \in Procs, NEW j, Go(p, j), job[p].at # "idle", Turn(p)
  PROVE  StepTo(p, j) /\ job[p] # Idle
BY DEF Go, Turn, StepTo, Idle

LEMMA NothingFailed ==
  ASSUME Core, UNCHANGED failures
  PROVE  Counts /\ failures' \in 0 .. MaxFailures
BY DEF Core, TypeOK, Counts

\* A handler that is not a /disconnect cannot spoil the one that runs alone.
LEMMA CleansOther ==
  ASSUME NEW p \in Procs, NEW j, job[p].op # "disconnect", j.op = "disconnect" => j.at = "regs" \/ job[p] # Idle
  PROVE  Cleans(p, j)
BY DEF Cleans

LEMMA FailureKeeps ==
  ASSUME IInv, NEW p \in Procs, NEW j \in Job, StepTo(p, j), Sound(j),
         UNCHANGED <<mongo, jira, history>>, Fail,
         j.at # "rows", j.at # "create", job[p] = Idle => j.op # "disconnect"
  PROVE  IInv'
<1>1. failures' # 0 /\ failures' # failures /\ failures' \in 0 .. MaxFailures /\ Counts
  BY Failing DEF IInv
<1>2. Settles(p, j) /\ Cleans(p, j)
  BY <1>1 DEF Settles, Cleans
<1> QED
  BY <1>1, <1>2, HandlerOnly DEF IInv, Core, TypeOK, jira

LEMMA CrashKeeps ==
  ASSUME IInv, NEW p \in Procs, Crash(p), Turn(p)
  PROVE  IInv'
<1>1. StepTo(p, Idle)
  BY DEF Crash, Done, Go, Turn, StepTo
<1> QED
  BY <1>1, IdleType, IdleNothing, FailureKeeps DEF Crash

LEMMA ReadActiveKeeps ==
  ASSUME IInv, NEW p \in Procs, ReadActive(p), Turn(p)
  PROVE  IInv'
<1>1. job[p] \in Job /\ Sound(job[p]) /\ job[p].op = "connect" /\ job[p].at = "active"
  BY CoreJob DEF IInv, ReadActive, At
<1>2. CASE Done(p) /\ Fail
  BY <1>1, <1>2, Going, IdleType, IdleNothing, FailureKeeps DEF ReadActive, Done
<1>3. ASSUME UNCHANGED failures, NEW j, j = [job[p] EXCEPT !.at = "existing", !.subs = Active], Go(p, j)
      PROVE  IInv'
  <2>1. /\ j \in Job /\ j.op = "connect" /\ j.at = "existing" /\ j.subs = Active
        /\ j.regs = job[p].regs /\ j.list = job[p].list
    BY <1>1, <1>3 DEF Job, Steps, Active
  <2>2. Sound(j)
    BY <1>1, <2>1 DEF Sound, StepsOf, Steps
  <2>3. Settles(p, j)
    BY <1>1, <2>1 DEF Settles, Calm, Cares, Deleting, AllHooks
  <2>4. Cleans(p, j)
    BY <1>1, <2>1, CleansOther
  <2>5. StepTo(p, j)
    BY <1>1, <1>3, Going
  <2> QED
    BY <1>1, <1>3, <2>1, <2>2, <2>3, <2>4, <2>5, HandlerOnly, NothingFailed
    DEF ReadActive, IInv, Core, TypeOK, jira
<1> QED
  BY <1>2, <1>3 DEF ReadActive

LEMMA ReadExistingKeeps ==
  ASSUME IInv, NEW p \in Procs, ReadExisting(p), Turn(p)
  PROVE  IInv'
<1>1. job[p] \in Job /\ Sound(job[p]) /\ job[p].op = "connect" /\ job[p].at = "existing"
  BY CoreJob DEF IInv, ReadExisting, At
<1>2. ASSUME NEW S, S \subseteq job[p].subs, NEW j, j = [job[p] EXCEPT !.at = "user", !.subs = S]
      PROVE  /\ j \in Job /\ j.op = "connect" /\ j.at = "user" /\ j.subs = S
             /\ Sound(j)
  <2>1. S \subseteq Subs
    BY <1>1, <1>2 DEF Job
  <2>2. /\ j \in Job /\ j.op = "connect" /\ j.at = "user" /\ j.subs = S
        /\ j.regs = job[p].regs /\ j.list = job[p].list
    BY <1>1, <1>2, <2>1 DEF Job, Steps
  <2> QED
    BY <1>1, <2>2 DEF Sound, StepsOf, Steps
<1>3. ASSUME Fail, NEW j, j = [job[p] EXCEPT !.at = "user"], Go(p, j)
      PROVE  IInv'
  <2>1. /\ j \in Job /\ j.op = "connect" /\ j.at = "user"
        /\ j.regs = job[p].regs /\ j.list = job[p].list
    BY <1>1, <1>3 DEF Job, Steps
  <2>2. Sound(j)
    BY <1>1, <2>1 DEF Sound, StepsOf, Steps
  <2>3. StepTo(p, j) /\ job[p] # Idle
    BY <1>1, <1>3, Going
  <2> QED
    BY <1>3, <2>1, <2>2, <2>3, FailureKeeps DEF ReadExisting
<1>4. ASSUME UNCHANGED failures, NEW S, S = {s \in job[p].subs : RowsOf(s) = {}},
             NEW j, j = [job[p] EXCEPT !.at = "user", !.subs = S], Go(p, j)
      PROVE  IInv'
  <2>1. j \in Job /\ j.op = "connect" /\ j.at = "user" /\ j.subs = S /\ Sound(j)
    BY <1>2, <1>4
  <2>2. StepTo(p, j) /\ job[p] # Idle
    BY <1>1, <1>4, Going
  <2>3. Settles(p, j)
    <3> SUFFICES ASSUME failures = 0, calm
                 PROVE  /\ Calm(j)
                        /\ \A s \in Active : Cares(job[p], s) \/ Removes(job[p], s) => Good(s) \/ Cares(j, s)
      BY <1>1 DEF Settles
    <3>1. Calm(j)
      BY <2>1 DEF Calm, Deleting, AllHooks
    <3>2. ASSUME NEW s \in Active, NEW r \in RowsOf(s) PROVE Good(s)
      <4>1. r.hook \in hooks \/ \E q \in Procs : Falls(job[q], r)
        BY <3>2 DEF IInv, Settled, Orderly, Live, RowsOf
      <4>2. \A q \in Procs : ~Falls(job[q], r)
        BY <1>1, <2>2, OthersIdle DEF IInv, Falls, Deleting
      <4> QED
        BY <4>1, <4>2 DEF Good
    <3>3. ASSUME NEW s \in Active, Cares(job[p], s) \/ Removes(job[p], s) PROVE Good(s) \/ Cares(j, s)
      <4>1. s \in job[p].subs
        BY <1>1, <3>3 DEF Cares, Removes, AllHooks
      <4>2. CASE RowsOf(s) = {}
        BY <1>4, <2>1, <4>1, <4>2 DEF Cares
      <4>3. CASE RowsOf(s) # {}
        BY <3>2, <4>3
      <4> QED
        BY <4>2, <4>3
    <3> QED
      BY <3>1, <3>3
  <2>4. Cleans(p, j)
    BY <1>1, <2>1, CleansOther
  <2> QED
    BY <1>1, <1>4, <2>1, <2>2, <2>3, <2>4, HandlerOnly, NothingFailed
    DEF ReadExisting, IInv, Core, TypeOK, jira
<1> QED
  BY <1>3, <1>4 DEF ReadExisting
\* Where a registering handler goes next: its rows and hooks stay as they were.
LEMMA UserStep ==
  ASSUME NEW i \in Job, Sound(i), i.op \in {"subscribe", "connect"},
         NEW S, S \subseteq i.subs,
         NEW j, j.at = "user",
         j = [i EXCEPT !.subs = S] \/ j = [i EXCEPT !.at = "user", !.sub = NoSub, !.hook = 0]
  PROVE  j \in Job /\ Sound(j) /\ Calm(j) /\ j.op = i.op /\ j.at = "user"
<1>1. S \subseteq Subs
  BY DEF Job
<1>2. /\ j \in Job /\ j.op = i.op /\ j.regs = i.regs /\ j.list = i.list
  <2>1. CASE j = [i EXCEPT !.subs = S]
    BY <1>1, <2>1 DEF Job
  <2>2. CASE j = [i EXCEPT !.at = "user", !.sub = NoSub, !.hook = 0]
    BY <2>2 DEF Job, Steps
  <2> QED
    BY <2>1, <2>2
<1>3. Sound(j)
  BY <1>2 DEF Sound, StepsOf, Steps
<1>4. Calm(j)
  BY <1>2 DEF Calm, Deleting, AllHooks
<1> QED
  BY <1>2, <1>3, <1>4

LEMMA ReadUserKeeps ==
  ASSUME IInv, NEW p \in Procs, ReadUser(p), Turn(p)
  PROVE  IInv'
<1>1. job[p] \in Job /\ Sound(job[p]) /\ job[p].op \in {"subscribe", "connect"} /\ job[p].at = "user"
  BY CoreJob DEF IInv, ReadUser, At
<1>2. CASE job[p].subs = {} /\ Done(p) /\ UNCHANGED failures
  <2>1. Settles(p, Idle)
    BY <1>1, <1>2, IdleNothing DEF Settles, Cares, Removes, AllHooks
  <2>2. Cleans(p, Idle)
    BY <1>1, CleansOther DEF Idle
  <2>3. StepTo(p, Idle)
    BY <1>1, <1>2, Going DEF Done
  <2> QED
    BY <1>1, <1>2, <2>1, <2>2, <2>3, IdleType, IdleNothing, HandlerOnly, NothingFailed
    DEF ReadUser, IInv, Core, TypeOK, jira
<1>3. ASSUME connected, UNCHANGED failures, NEW s \in job[p].subs,
             NEW S, S = job[p].subs \ {s},
             NEW j, j = [job[p] EXCEPT !.at = "register", !.sub = s, !.subs = S], Go(p, j)
      PROVE  IInv'
  <2>1. S \subseteq Subs /\ s \in Subs
    BY <1>1, <1>3 DEF Job
  <2>2. /\ j \in Job /\ j.op = job[p].op /\ j.at = "register" /\ j.sub = s /\ j.subs = S
        /\ j.regs = job[p].regs /\ j.list = job[p].list
    BY <1>1, <1>3, <2>1 DEF Job, Steps
  <2>3. Sound(j)
    BY <1>1, <2>1, <2>2 DEF Sound, StepsOf, Steps
  <2>4. Settles(p, j)
    BY <1>1, <1>3, <2>2 DEF Settles, Calm, Cares, Removes, Deleting, AllHooks
  <2>5. Cleans(p, j)
    BY <1>1, <2>2, CleansOther
  <2>6. StepTo(p, j)
    BY <1>1, <1>3, Going
  <2> QED
    BY <1>1, <1>3, <2>2, <2>3, <2>4, <2>5, <2>6, HandlerOnly, NothingFailed
    DEF ReadUser, IInv, Core, TypeOK, jira
<1>4. ASSUME Refused, NEW s \in job[p].subs, NEW S, S = job[p].subs \ {s},
             NEW j, j = [job[p] EXCEPT !.subs = S], Go(p, j)
      PROVE  IInv'
  <2>1. j.at = "user" /\ S \subseteq job[p].subs /\ j = [job[p] EXCEPT !.subs = S]
    BY <1>1, <1>4 DEF Job
  <2>2. j \in Job /\ Sound(j) /\ Calm(j) /\ j.op = job[p].op
    <3>1. PICK i : i = job[p]
      OBVIOUS
    <3>2. /\ i \in Job /\ Sound(i) /\ i.op \in {"subscribe", "connect"}
          /\ S \subseteq i.subs /\ j = [i EXCEPT !.subs = S] /\ j.at = "user"
      BY <1>1, <2>1, <3>1
    <3>3. j \in Job /\ Sound(j) /\ Calm(j) /\ j.op = i.op
      BY <3>2, UserStep
    <3> QED
      BY <3>1, <3>3
  <2>3. Settles(p, j)
    BY <1>1, <1>4, <2>2, Refusing DEF Settles, IInv
  <2>4. Cleans(p, j)
    BY <1>1, <2>2, CleansOther
  <2>5. StepTo(p, j)
    BY <1>1, <1>4, Going
  <2> QED
    BY <1>1, <1>4, <2>1, <2>2, <2>3, <2>4, <2>5, HandlerOnly, Refusing
    DEF ReadUser, IInv, Core, TypeOK, jira
<1> QED
  BY <1>2, <1>3, <1>4 DEF ReadUser

LEMMA RegisterFailsKeeps ==
  ASSUME IInv, NEW p \in Procs, RegisterFails(p), Turn(p)
  PROVE  IInv'
<1>1. job[p] \in Job /\ Sound(job[p]) /\ job[p].op \in {"subscribe", "connect"} /\ job[p].at = "register"
  BY CoreJob DEF IInv, RegisterFails, At
<1>2. PICK j : j = NextSub(p) /\ Go(p, j)
  BY DEF RegisterFails
<1>3. j.at = "user"
  BY <1>1, <1>2 DEF Job, NextSub
<1>4. j \in Job /\ Sound(j) /\ Calm(j) /\ j.op = job[p].op
  BY <1>1, <1>2, <1>3, UserStep DEF NextSub
<1>5. Settles(p, j)
  <2> SUFFICES ASSUME failures' = 0, failures = 0, calm PROVE FALSE
    BY DEF Settles
  <2>1. Calm(job[p])
    BY DEF IInv, Settled, Orderly
  <2> QED
    BY <1>1, <2>1, Refusing DEF Calm, RegisterFails, IInv
<1>6. Cleans(p, j)
  BY <1>1, <1>4, CleansOther
<1>7. StepTo(p, j)
  BY <1>1, <1>2, Going
<1> QED
  BY <1>1, <1>3, <1>4, <1>5, <1>6, <1>7, HandlerOnly, Refusing
  DEF RegisterFails, IInv, Core, TypeOK, jira

(* ---------------------------------------------------------------------- *)
(* Removals: the steps that read                                           *)

LEMMA UnwatchKeeps ==
  ASSUME IInv, NEW p \in Procs, NEW c \in Chats, Unwatch(p, c), Turn(p)
  PROVE  IInv'
<1>1. ASSUME NEW S, S = {s \in Active : ChatOf[s] = c}, UNCHANGED failures,
             NEW j, j = [Idle EXCEPT !.op = "unwatch", !.chat = c, !.at = "regs", !.subs = S], Start(p, j)
      PROVE  IInv'
  <2>1. S \subseteq Subs
    BY <1>1 DEF Active
  <2>2. /\ j \in Job /\ j.op = "unwatch" /\ j.at = "regs" /\ j.chat = c /\ j.subs = S
        /\ j.regs = {} /\ j.list = {}
    BY <1>1, <2>1, IdleType DEF Job, Idle, Steps, Ops
  <2>3. Sound(j)
    BY <2>2 DEF Sound, StepsOf, Steps, Deleting, HooksOf
  <2>4. StepTo(p, j) /\ job[p] = Idle
    BY <1>1, Starting
  <2>5. Settles(p, j)
    BY <1>1, <2>2, <2>4, IdleNothing DEF Settles, Calm, Deleting, AllHooks, Active
  <2>6. Cleans(p, j)
    BY <2>2, <2>4, CleansOther DEF Idle
  <2> QED
    BY <1>1, <2>2, <2>3, <2>4, <2>5, <2>6, IdleNothing, HandlerOnly, NothingFailed
    DEF Unwatch, IInv, Core, TypeOK, jira
<1>2. ASSUME NEW j, j = [Idle EXCEPT !.op = "unwatch", !.chat = c, !.at = "subs"], Start(p, j), Fail
      PROVE  IInv'
  <2>1. /\ j \in Job /\ j.op = "unwatch" /\ j.at = "subs" /\ j.regs = {} /\ j.list = {}
    BY <1>2, IdleType DEF Job, Idle, Steps, Ops
  <2>2. Sound(j)
    BY <2>1 DEF Sound, StepsOf, Steps, Deleting, HooksOf
  <2> QED
    BY <1>2, <2>1, <2>2, Starting, FailureKeeps DEF Unwatch
<1> QED
  BY <1>1, <1>2 DEF Unwatch

LEMMA DisconnectKeeps ==
  ASSUME IInv, NEW p \in Procs, Disconnect(p), Turn(p)
  PROVE  IInv'
<1>1. PICK op \in {"disconnect", "kick"} : Start(p, [Idle EXCEPT !.op = op, !.at = "regs"])
  BY DEF Disconnect
<1>2. PICK j : j = [Idle EXCEPT !.op = op, !.at = "regs"] /\ Start(p, j)
  BY <1>1
<1>3. /\ j \in Job /\ j.op = op /\ j.at = "regs" /\ j.regs = {} /\ j.list = {}
  BY <1>2, IdleType DEF Job, Idle, Steps, Ops
<1>4. Sound(j)
  BY <1>3 DEF Sound, StepsOf, Steps, Deleting, HooksOf
<1>5. StepTo(p, j) /\ job[p] = Idle
  BY <1>2, Starting
<1>6. Settles(p, j)
  BY <1>3, <1>5, IdleNothing DEF Settles, Calm, Deleting, AllHooks, Active
<1>7. Cleans(p, j)
  BY <1>3, <1>5, CleansOther DEF Idle
<1> QED
  BY <1>3, <1>4, <1>5, <1>6, <1>7, IdleNothing, HandlerOnly, NothingFailed
  DEF Disconnect, IInv, Core, TypeOK, jira

\* Where a delete method returns to: its handler has no rows in hand.
LEMMA AfterHooksType ==
  ASSUME NEW i \in Job, Sound(i), i.op \in Deleting, NEW j, j = AfterHooks(i)
  PROVE  /\ j \in Job /\ Sound(j) /\ j.op = i.op /\ j.chat = i.chat /\ j.subs = i.subs
         /\ \/ i.op = "unwatch" /\ j.at = "regs"
            \/ i.op = "disconnect" /\ j.at = "subs"
            \/ i.op = "kick" /\ j.at = "creds"
<1>1. \/ i.op = "unwatch" /\ j = [i EXCEPT !.at = "regs", !.sub = NoSub, !.regs = {}]
      \/ i.op = "disconnect" /\ j = [i EXCEPT !.at = "subs", !.regs = {}]
      \/ i.op = "kick" /\ j = [i EXCEPT !.at = "creds", !.regs = {}]
  BY DEF AfterHooks, Deleting
<1>2. /\ j \in Job /\ j.op = i.op /\ j.chat = i.chat /\ j.subs = i.subs /\ j.regs = {} /\ j.list = i.list
      /\ \/ i.op = "unwatch" /\ j.at = "regs"
         \/ i.op = "disconnect" /\ j.at = "subs"
         \/ i.op = "kick" /\ j.at = "creds"
  <2>1. CASE i.op = "unwatch" /\ j = [i EXCEPT !.at = "regs", !.sub = NoSub, !.regs = {}]
    BY <2>1 DEF Job, Steps
  <2>2. CASE i.op = "disconnect" /\ j = [i EXCEPT !.at = "subs", !.regs = {}]
    BY <2>2 DEF Job, Steps
  <2>3. CASE i.op = "kick" /\ j = [i EXCEPT !.at = "creds", !.regs = {}]
    BY <2>3 DEF Job, Steps
  <2> QED
    BY <1>1, <2>1, <2>2, <2>3
<1>3. Sound(j)
  BY <1>2 DEF Sound, StepsOf, Steps, Deleting, AllHooks, HooksOf
<1> QED
  BY <1>2, <1>3 DEF Deleting
LEMMA ReadRegsKeeps ==
  ASSUME IInv, NEW p \in Procs, ReadRegs(p), Turn(p)
  PROVE  IInv'
<1>1. job[p] \in Job /\ Sound(job[p]) /\ job[p].op \in Deleting /\ job[p].at = "regs"
  BY CoreJob DEF IInv, ReadRegs, At
<1>2. \A s \in Subs : ~Cares(job[p], s)
  BY <1>1 DEF Cares, Deleting
<1>3. ASSUME job[p].op = "unwatch", job[p].subs = {}, UNCHANGED failures,
             NEW j, j = [job[p] EXCEPT !.at = "subs"], Go(p, j)
      PROVE  IInv'
  <2>1. /\ j \in Job /\ j.op = "unwatch" /\ j.at = "subs" /\ j.chat = job[p].chat
        /\ j.regs = job[p].regs /\ j.list = job[p].list
    BY <1>1, <1>3 DEF Job, Steps
  <2>2. Sound(j)
    BY <1>1, <2>1 DEF Sound, StepsOf, Steps, Deleting
  <2> Calm(j)
    BY <2>1 DEF Calm, Deleting, AllHooks
  <2>3. Settles(p, j)
    BY <1>1, <1>2, <1>3, <2>1 DEF Settles, Removes, AllHooks, Active
  <2>4. Cleans(p, j)
    BY <1>3, <2>1, CleansOther
  <2>5. StepTo(p, j)
    BY <1>1, <1>3, Going
  <2> QED
    BY <1>1, <1>3, <2>1, <2>2, <2>3, <2>4, <2>5, HandlerOnly, NothingFailed
    DEF ReadRegs, IInv, Core, TypeOK, jira
<1>4. ASSUME NEW s \in (IF job[p].op = "unwatch" THEN job[p].subs ELSE {NoSub}),
             NEW found, found = (IF job[p].op = "unwatch" THEN RowsOf(s) ELSE rows),
             NEW j, j = [job[p] EXCEPT !.sub = s, !.subs = @ \ {s}, !.regs = found, !.at = "jira"],
             \/ Go(p, IF found = {} THEN AfterHooks(j) ELSE j) /\ UNCHANGED failures
             \/ Go(p, AfterHooks(j)) /\ Fail
      PROVE  IInv'
  <2>1. /\ j \in Job /\ Sound(j)
        /\ j.op = job[p].op /\ j.chat = job[p].chat /\ j.at = "jira" /\ j.sub = s
        /\ j.subs = job[p].subs \ {s} /\ j.regs = found
    <3>1. found \subseteq rows /\ found \subseteq Rows /\ HooksOf(found) \subseteq Given
      BY <1>4, CoreData DEF IInv, RowsOf, Data, HooksOf
    <3>2. s \in Subs \union {NoSub} /\ job[p].subs \ {s} \subseteq Subs
      BY <1>1, <1>4 DEF Job
    <3>3. j = [job[p] EXCEPT !.sub = s, !.subs = job[p].subs \ {s}, !.regs = found, !.at = "jira"]
      BY <1>1, <1>4 DEF Job
    <3>4. /\ j \in Job /\ j.op = job[p].op /\ j.chat = job[p].chat /\ j.at = "jira" /\ j.sub = s
          /\ j.subs = job[p].subs \ {s} /\ j.regs = found /\ j.list = job[p].list
      BY <1>1, <3>1, <3>2, <3>3 DEF Job, Steps
    <3> QED
      BY <1>1, <3>1, <3>4 DEF Sound, StepsOf, Steps, Deleting
  <2>2. PICK k : k = AfterHooks(j)
    OBVIOUS
  <2>3. /\ k \in Job /\ Sound(k) /\ k.op = j.op /\ k.chat = j.chat /\ k.subs = j.subs
        /\ \/ j.op = "unwatch" /\ k.at = "regs"
           \/ j.op = "disconnect" /\ k.at = "subs"
           \/ j.op = "kick" /\ k.at = "creds"
    BY <1>1, <2>1, <2>2, AfterHooksType
  <2>4. Idle.op = "none"
    BY DEF Idle
  <2>5. CASE Go(p, k) /\ Fail
    BY <1>1, <2>3, <2>5, Going, FailureKeeps DEF ReadRegs
  <2>6. CASE found = {} /\ Go(p, k) /\ UNCHANGED failures
    <3>1. Settles(p, k)
      <4> SUFFICES ASSUME failures = 0, calm PROVE Calm(k)
        BY <1>1, <1>2, <2>1, <2>3 DEF Settles, Removes, Active
      <4>1. Calm(job[p])
        BY DEF IInv, Settled, Orderly
      <4> QED
        BY <1>1, <1>4, <2>1, <2>3, <2>6, <4>1 DEF Calm, Deleting, AllHooks
    <3>2. Cleans(p, k)
      BY <1>1, <1>4, <2>1, <2>3, <2>4, <2>6 DEF Cleans, mongo, ReadRegs
    <3>3. StepTo(p, k)
      BY <1>1, <2>6, Going
    <3> QED
      BY <1>1, <2>3, <2>6, <3>1, <3>2, <3>3, HandlerOnly, NothingFailed
      DEF ReadRegs, IInv, Core, TypeOK, jira
  <2>7. CASE found # {} /\ Go(p, j) /\ UNCHANGED failures
    <3>1. Settles(p, j)
      <4> SUFFICES ASSUME failures = 0, calm PROVE Calm(j)
        BY <1>1, <1>2, <2>1 DEF Settles, Removes, Active
      <4>1. Calm(job[p]) /\ OneSub(rows, rows)
        BY DEF IInv, Settled, Orderly, Single
      <4>2. OneSub(rows, j.regs) /\ (j.op = "unwatch" => \A r \in j.regs : r.sub = j.sub)
        BY <1>4, <2>1, <4>1 DEF OneSub, RowsOf
      <4>3. j.op = "unwatch" => j.sub \in Subs /\ ChatOf[j.sub] = j.chat /\ \A t \in j.subs : ChatOf[t] = j.chat
        BY <1>1, <1>4, <2>1, <4>1 DEF Calm, Job
      <4> QED
        BY <1>1, <2>1, <4>2, <4>3 DEF Calm, Deleting, AllHooks
    <3>2. Cleans(p, j)
      BY <1>1, <2>1, <2>4 DEF Cleans
    <3>3. StepTo(p, j)
      BY <1>1, <2>7, Going
    <3> QED
      BY <1>1, <2>1, <2>7, <3>1, <3>2, <3>3, HandlerOnly, NothingFailed
      DEF ReadRegs, IInv, Core, TypeOK, jira
  <2> QED
    BY <1>4, <2>2, <2>5, <2>6, <2>7
<1>5. CASE /\ job[p].op = "unwatch" /\ job[p].subs = {}
           /\ Go(p, [job[p] EXCEPT !.at = "subs"]) /\ UNCHANGED failures
  BY <1>3, <1>5
<1>6. CASE \E s \in IF job[p].op = "unwatch" THEN job[p].subs ELSE {NoSub} :
              LET found == IF job[p].op = "unwatch" THEN RowsOf(s) ELSE rows
                  j == [job[p] EXCEPT !.sub = s, !.subs = @ \ {s}, !.regs = found, !.at = "jira"]
              IN \/ Go(p, IF found = {} THEN AfterHooks(j) ELSE j) /\ UNCHANGED failures
                 \/ Go(p, AfterHooks(j)) /\ Fail
  BY <1>4, <1>6
<1> QED
  BY <1>5, <1>6 DEF ReadRegs
(* ---------------------------------------------------------------------- *)
(* Repairs: the steps that read                                            *)

LEMMA ResyncKeeps ==
  ASSUME IInv, NEW p \in Procs, Resync(p), Turn(p)
  PROVE  IInv'
<1>1. PICK j : j = [Idle EXCEPT !.op = "resync", !.at = "list", !.subs = Active] /\ Start(p, j)
  BY DEF Resync
<1>2. /\ j \in Job /\ j.op = "resync" /\ j.at = "list" /\ j.regs = {} /\ j.list = {}
  BY <1>1, IdleType DEF Job, Idle, Steps, Ops, Active
<1>3. Sound(j)
  BY <1>2 DEF Sound, StepsOf, Steps, HooksOf
<1>4. StepTo(p, j) /\ job[p] = Idle
  BY <1>1, Starting
<1>5. Settles(p, j)
  BY <1>2, <1>4, IdleNothing DEF Settles, Calm, Deleting, AllHooks, Active, Resync
<1>6. Cleans(p, j)
  BY <1>2, <1>4, CleansOther DEF Idle
<1> QED
  BY <1>2, <1>3, <1>4, <1>5, <1>6, IdleNothing, HandlerOnly, NothingFailed
  DEF Resync, IInv, Core, TypeOK, jira

\* No subscription waits for a resync or a refresh.
LEMMA RepairNothing ==
  ASSUME NEW i, i.op \in {"resync", "refresh"}, i.at \notin {"register", "create"}
  PROVE  \A s \in Subs : ~Cares(i, s) /\ ~Removes(i, s)
BY DEF Cares, Removes, AllHooks

LEMMA ListHooksKeeps ==
  ASSUME IInv, NEW p \in Procs, ListHooks(p), Turn(p)
  PROVE  IInv'
<1>1. job[p] \in Job /\ Sound(job[p]) /\ job[p].op = "resync" /\ job[p].at = "list"
  BY CoreJob DEF IInv, ListHooks, At
<1>2. hooks \subseteq Given /\ hooks \subseteq Hooks
  BY CoreData DEF IInv, Data, Given
<1>3. ASSUME UNCHANGED failures, NEW j, j = [job[p] EXCEPT !.at = "local", !.list = hooks], Go(p, j)
      PROVE  IInv'
  <2>1. /\ j \in Job /\ j.op = "resync" /\ j.at = "local" /\ j.list = hooks /\ j.regs = job[p].regs
    BY <1>1, <1>2, <1>3 DEF Job, Steps
  <2>2. Sound(j)
    BY <1>1, <1>2, <2>1 DEF Sound, StepsOf, Steps
  <2>3. Settles(p, j)
    <3> SUFFICES ASSUME failures = 0, calm PROVE Calm(j)
      BY <1>1, RepairNothing DEF Settles, Active
    <3>1. connected
      BY <1>1 DEF IInv, Settled, Orderly, Calm
    <3> QED
      BY <2>1, <3>1 DEF Calm, Deleting, AllHooks
  <2>4. Cleans(p, j)
    BY <1>1, <2>1, CleansOther
  <2>5. StepTo(p, j)
    BY <1>1, <1>3, Going
  <2> QED
    BY <1>1, <1>3, <2>1, <2>2, <2>3, <2>4, <2>5, HandlerOnly, NothingFailed
    DEF ListHooks, IInv, Core, TypeOK, jira
<1>4. CASE Done(p) /\ Refused
  <2>1. Settles(p, Idle)
    BY <1>1, IdleNothing, RepairNothing DEF Settles, Active
  <2>2. Cleans(p, Idle)
    BY <1>1, CleansOther DEF Idle
  <2>3. StepTo(p, Idle)
    BY <1>1, <1>4, Going DEF Done
  <2> QED
    BY <1>1, <1>4, <2>1, <2>2, <2>3, IdleType, IdleNothing, HandlerOnly, Refusing
    DEF ListHooks, IInv, Core, TypeOK, jira
<1> QED
  BY <1>3, <1>4 DEF ListHooks

LEMMA ReadLocalKeeps ==
  ASSUME IInv, NEW p \in Procs, ReadLocal(p), Turn(p)
  PROVE  IInv'
<1>1. job[p] \in Job /\ Sound(job[p]) /\ job[p].op = "resync" /\ job[p].at = "local"
  BY CoreJob DEF IInv, ReadLocal, At
<1>2. rows \subseteq Rows /\ HooksOf(rows) \subseteq Given
  BY CoreData DEF IInv, Data
<1>3. CASE Done(p) /\ Fail
  BY <1>1, <1>3, Going, IdleType, IdleNothing, FailureKeeps DEF ReadLocal, Done
<1>4. ASSUME UNCHANGED failures, NEW D, D \subseteq job[p].subs,
             NEW L, L = job[p].list \ HooksOf(rows),
             NEW R, R = {r \in rows : r.hook \notin job[p].list},
             NEW j, j = [job[p] EXCEPT !.at = "adopt", !.subs = D, !.list = L, !.regs = R], Go(p, j)
      PROVE  IInv'
  <2>1. D \subseteq Subs /\ L \subseteq Hooks /\ R \subseteq Rows /\ L \subseteq Given /\ HooksOf(R) \subseteq Given
    BY <1>1, <1>2, <1>4 DEF Job, Sound, HooksOf
  <2>2. /\ j \in Job /\ j.op = "resync" /\ j.at = "adopt" /\ j.list = L /\ j.regs = R
    BY <1>1, <1>4, <2>1 DEF Job, Steps
  <2>3. Sound(j)
    BY <2>1, <2>2 DEF Sound, StepsOf, Steps
  <2>4. Settles(p, j)
    <3> SUFFICES ASSUME failures = 0, calm PROVE Calm(j)
      BY <1>1, RepairNothing DEF Settles, Active
    <3>1. connected /\ job[p].list = hooks
      BY <1>1 DEF IInv, Settled, Orderly, Calm
    <3>2. HooksOf(R) \intersect hooks = {}
      BY <1>4, <3>1 DEF HooksOf
    <3>3. L \subseteq hooks \ HooksOf(rows)
      BY <1>4, <3>1
    <3> QED
      BY <2>2, <3>1, <3>2, <3>3 DEF Calm, Deleting, AllHooks
  <2>5. Cleans(p, j)
    BY <1>1, <2>2, CleansOther
  <2>6. StepTo(p, j)
    BY <1>1, <1>4, Going
  <2> QED
    BY <1>1, <1>4, <2>2, <2>3, <2>4, <2>5, <2>6, HandlerOnly, NothingFailed
    DEF ReadLocal, IInv, Core, TypeOK, jira
<1>5. \A D \in Representatives(job[p].subs) : D \subseteq job[p].subs
  BY DEF Representatives
<1> QED
  BY <1>3, <1>4, <1>5 DEF ReadLocal

LEMMA RefreshKeeps ==
  ASSUME IInv, NEW p \in Procs, Refresh(p), Turn(p)
  PROVE  IInv'
<1>1. PICK R : R = {r \in rows : r.due}
  OBVIOUS
<1>2. PICK j : j = [Idle EXCEPT !.op = "refresh", !.at = "owner", !.regs = R] /\ Start(p, j)
  BY <1>1 DEF Refresh
<1>3. R \subseteq rows /\ R \subseteq Rows /\ HooksOf(R) \subseteq Given
  BY <1>1, CoreData DEF IInv, Data, HooksOf
<1>4. /\ j \in Job /\ j.op = "refresh" /\ j.at = "owner" /\ j.regs = R /\ j.list = {}
  BY <1>2, <1>3, IdleType DEF Job, Idle, Steps, Ops
<1>5. Sound(j)
  BY <1>3, <1>4 DEF Sound, StepsOf, Steps
<1>6. StepTo(p, j) /\ job[p] = Idle
  BY <1>2, Starting
<1>7. Settles(p, j)
  <2> SUFFICES ASSUME failures = 0, calm, calm' PROVE Calm(j)
    BY <1>6, IdleNothing DEF Settles, Active
  <2>1. connected /\ Live
    BY DEF IInv, Settled, Orderly, Refresh
  <2>2. \A q \in Procs, r \in rows : ~Falls(job[q], r)
    <3>1. job'[p] = j /\ \A q \in Procs \ {p} : job'[q] = job[q]
      BY <1>6, StepPuts DEF IInv
    <3>2. \A q \in Procs \ {p} : job[q].op \notin Deleting
      BY <1>4, <1>6, <3>1, QuietKeeps DEF Quiet, Idle
    <3> QED
      BY <1>6, <3>2, IdleNothing DEF Falls
  <2>3. HooksOf(R) \subseteq hooks
    BY <1>3, <2>1, <2>2 DEF Live, HooksOf
  <2> QED
    BY <1>4, <2>1, <2>3 DEF Calm, Deleting, AllHooks
<1>8. Cleans(p, j)
  BY <1>4, <1>6, CleansOther DEF Idle
<1> QED
  BY <1>4, <1>5, <1>6, <1>7, <1>8, IdleNothing, HandlerOnly, NothingFailed
  DEF Refresh, IInv, Core, TypeOK, jira
LEMMA ReadOwnerKeeps ==
  ASSUME IInv, NEW p \in Procs, ReadOwner(p), Turn(p)
  PROVE  IInv'
<1>1. job[p] \in Job /\ Sound(job[p]) /\ job[p].op = "refresh" /\ job[p].at = "owner"
  BY CoreJob DEF IInv, ReadOwner, At
<1>2. ASSUME NEW a \in {"refresh", "drop"}, NEW j, j = [job[p] EXCEPT !.at = a], Go(p, j),
             \/ a = "refresh" /\ UNCHANGED failures
             \/ a = "drop" /\ Refused
      PROVE  IInv'
  <2>1. /\ j \in Job /\ j.op = "refresh" /\ j.at = a /\ j.regs = job[p].regs /\ j.list = job[p].list
    BY <1>1, <1>2 DEF Job, Steps
  <2>2. Sound(j)
    BY <1>1, <2>1 DEF Sound, StepsOf, Steps
  <2>3. Settles(p, j)
    <3> SUFFICES ASSUME failures' = 0, failures = 0, calm PROVE Calm(j)
      BY <1>1, RepairNothing DEF Settles, Active
    <3>1. connected /\ HooksOf(job[p].regs) \subseteq hooks
      BY <1>1 DEF IInv, Settled, Orderly, Calm
    <3>2. a = "refresh"
      BY <1>2, <3>1, Refusing DEF IInv
    <3> QED
      BY <2>1, <3>1, <3>2 DEF Calm, Deleting, AllHooks
  <2>4. Cleans(p, j)
    BY <1>1, <2>1, CleansOther
  <2>5. StepTo(p, j)
    BY <1>1, <1>2, Going
  <2>6. Counts /\ failures' \in 0 .. MaxFailures
    BY <1>2, NothingFailed, Refusing DEF IInv
  <2> QED
    BY <1>1, <2>1, <2>2, <2>3, <2>4, <2>5, <2>6, HandlerOnly
    DEF ReadOwner, IInv, Core, TypeOK, jira
<1> QED
  BY <1>2 DEF ReadOwner

LEMMA RefreshHooksKeeps ==
  ASSUME IInv, NEW p \in Procs, RefreshHooks(p), Turn(p)
  PROVE  IInv'
<1>1. job[p] \in Job /\ Sound(job[p]) /\ job[p].op = "refresh" /\ job[p].at = "refresh"
  BY CoreJob DEF IInv, RefreshHooks, At
<1>2. UNCHANGED <<mongo, hooks, filter, history>> /\ old' \subseteq old
  BY DEF RefreshHooks
<1>3. ASSUME NEW a \in {"update", "drop"}, NEW j, j = [job[p] EXCEPT !.at = a], Go(p, j), UNCHANGED failures,
             a = "drop" => ~(HooksOf(job[p].regs) \subseteq hooks)
      PROVE  IInv'
  <2>1. /\ j \in Job /\ j.op = "refresh" /\ j.at = a /\ j.regs = job[p].regs /\ j.list = job[p].list
    BY <1>1, <1>3 DEF Job, Steps
  <2>2. Sound(j)
    BY <1>1, <2>1 DEF Sound, StepsOf, Steps
  <2>3. Settles(p, j)
    <3> SUFFICES ASSUME failures = 0, calm PROVE Calm(j)
      BY <1>1, RepairNothing DEF Settles, Active
    <3>1. connected /\ HooksOf(job[p].regs) \subseteq hooks
      BY <1>1 DEF IInv, Settled, Orderly, Calm
    <3>2. a = "update"
      BY <1>3, <3>1
    <3> QED
      BY <2>1, <3>1, <3>2 DEF Calm, Deleting, AllHooks
  <2>4. Cleans(p, j)
    BY <1>1, <2>1, CleansOther
  <2>5. StepTo(p, j)
    BY <1>1, <1>3, Going
  <2> QED
    BY <1>1, <1>2, <1>3, <2>1, <2>2, <2>3, <2>4, <2>5, NothingFailed, HandlerOnly DEF IInv
<1>4. CASE Done(p) /\ Refused
  <2>1. Settles(p, Idle)
    BY <1>1, IdleNothing, RepairNothing DEF Settles, Active
  <2>2. Cleans(p, Idle)
    BY <1>1, CleansOther DEF Idle
  <2>3. StepTo(p, Idle)
    BY <1>1, <1>4, Going DEF Done
  <2> QED
    BY <1>1, <1>2, <1>4, <2>1, <2>2, <2>3, IdleType, IdleNothing, Refusing, HandlerOnly DEF IInv
<1> QED
  BY <1>3, <1>4 DEF RefreshHooks

(* ---------------------------------------------------------------------- *)
(* Steps that write                                                        *)

\* What is left of Settled when a step of p makes j of it: the conjuncts, once
\* nothing failed and removals keep to themselves.
LEMMA SettledIf ==
  ASSUME Core, Quiet, Settled, NEW p \in Procs, NEW j, StepTo(p, j), Counts,
         failures' = 0 /\ failures = 0 /\ calm /\ calm' => Orderly'
  PROVE  Settled'
<1>1. failures' = 0 => failures = 0
  BY DEF Core, TypeOK, Counts
<1>2. calm' => calm
  BY DEF StepTo
<1> QED
  BY <1>1, <1>2 DEF Settled, Orderly
LEMMA AllKeep ==
  ASSUME IInv, NEW p \in Procs, NEW j \in Job, StepTo(p, j), Data', Grows, Sound(j)',
         Counts, Tracks(p, j), Cleans(p, j),
         failures' = 0 /\ failures = 0 /\ calm /\ calm' => Orderly'
  PROVE  IInv'
<1>1. Core'
  BY CoreKeeps DEF IInv
<1>2. Tracked'
  BY TrackedKeeps DEF IInv
<1>3. Quiet'
  BY QuietKeeps
<1>4. Settled'
  BY SettledIf DEF IInv
<1>5. Lonely'
  BY LonelyKeeps DEF IInv
<1> QED
  BY <1>1, <1>2, <1>3, <1>4, <1>5 DEF IInv

\* Rows and hooks that stay keep the facts about them.
LEMMA SameRows ==
  ASSUME UNCHANGED <<rows, hooks>>
  PROVE  /\ \A s \in Subs : Good(s)' <=> Good(s)
         /\ OneSub(rows, rows)' <=> OneSub(rows, rows)
         /\ HooksOf(rows)' = HooksOf(rows)
BY DEF Good, RowsOf, OneSub, HooksOf

LEMMA SubscribeKeeps ==
  ASSUME IInv, NEW p \in Procs, NEW s \in Subs, Subscribe(p, s), Turn(p)
  PROVE  IInv'
<1>1. PICK j : j = [Idle EXCEPT !.op = "subscribe", !.at = "user", !.subs = {s}] /\ Start(p, j)
  BY DEF Subscribe
<1>2. /\ j \in Job /\ j.op = "subscribe" /\ j.at = "user" /\ j.subs = {s} /\ j.regs = {} /\ j.list = {}
  BY <1>1, IdleType DEF Job, Idle, Steps, Ops
<1>3. /\ connected' = connected /\ rows' = rows /\ hooks' = hooks /\ old' = old /\ filter' = filter
      /\ excused' = excused /\ doubled' = doubled /\ failures' = failures
      /\ state' = [state EXCEPT ![s] = "active"]
  BY DEF Subscribe, jira, history
<1>4. Given' = Given /\ Grows
  BY <1>3, SameFilter
<1>5. Data'
  <2>1. state' \in [Subs -> {"new", "active", "gone"}]
    BY <1>3, CoreData DEF IInv, Data
  <2> QED
    BY <1>3, <1>4, <2>1, CoreData DEF IInv, Data
<1>6. Sound(j)'
  BY <1>2 DEF Sound, StepsOf, Steps, HooksOf
<1>7. StepTo(p, j) /\ job[p] = Idle
  BY <1>1, Starting
<1>8. job'[p] = j /\ \A q \in Procs \ {p} : job'[q] = job[q]
  BY <1>7, StepPuts DEF IInv
<1>9. Counts
  BY <1>3 DEF Counts
<1>10. Tracks(p, j)
  BY <1>2, <1>3, <1>7, IdleNothing DEF Tracks, DealtWith
<1>11. Cleans(p, j)
  BY <1>2, <1>7, CleansOther DEF Idle
<1>12. ASSUME failures = 0, calm PROVE Orderly'
  <2>1. Orderly
    BY <1>12 DEF IInv, Settled
  <2>2. Single'
    BY <1>2, <1>3, <1>8, <2>1 DEF Orderly, Single
  <2>3. Live'
    <3> SUFFICES ASSUME NEW r \in rows, r.hook \notin hooks
                 PROVE  \E q \in Procs : Falls(job'[q], r)
      BY <1>3 DEF Live, Falls
    <3>1. PICK q \in Procs : Falls(job[q], r)
      BY <2>1 DEF Orderly, Live
    <3>2. q # p
      BY <1>7, <3>1, IdleNothing DEF Falls
    <3> QED
      BY <1>8, <3>1, <3>2
  <2>4. Cared'
    <3> SUFFICES ASSUME connected, NEW t \in Active', ~Good(t)
                 PROVE  \E q \in Procs : Cares(job'[q], t) \/ Removes(job'[q], t)
      BY <1>3, SameRows DEF Cared, Active, Cares, Removes
    <3>1. t \in Subs /\ (t = s \/ t \in Active)
      BY <1>3, CoreData DEF Active, IInv, Data
    <3>2. CASE t = s
      BY <1>2, <1>8, <3>2 DEF Cares
    <3>3. CASE t # s
      <4>1. PICK q \in Procs : Cares(job[q], t) \/ Removes(job[q], t)
        BY <2>1, <3>1, <3>3 DEF Orderly, Cared
      <4>2. q # p
        BY <1>7, <3>1, <4>1, IdleNothing
      <4> QED
        BY <1>8, <4>1, <4>2
    <3> QED
      BY <3>2, <3>3
  <2>5. ASSUME NEW q \in Procs PROVE Calm(job[q])'
    <3>1. Calm(j)
      BY <1>2 DEF Calm, Deleting, AllHooks
    <3>2. Calm(job'[q])
      BY <1>8, <2>1, <3>1 DEF Orderly
    <3> QED
      BY <1>3, <3>2 DEF Calm
  <2>6. ~connected' => rows' = {}
    BY <1>3, <2>1 DEF Orderly
  <2> QED
    BY <2>2, <2>3, <2>4, <2>5, <2>6 DEF Orderly
<1> QED
  BY <1>2, <1>4, <1>5, <1>6, <1>7, <1>9, <1>10, <1>11, <1>12, AllKeep
\* The conjuncts of Orderly after a step, each from what disturbs it.
LEMMA LiveKeeps ==
  ASSUME Core, Live, NEW p \in Procs, NEW j, StepTo(p, j), job[p].at # "rows",
         \A r \in rows' : r.hook \in hooks' \/ (r \in rows /\ r.hook \notin hooks)
  PROVE  Live'
<1> SUFFICES ASSUME NEW r \in rows', r.hook \notin hooks'
             PROVE  \E q \in Procs : Falls(job'[q], r)
  BY DEF Live, Falls
<1>1. PICK q \in Procs : Falls(job[q], r)
  BY DEF Live
<1>2. q # p
  BY <1>1 DEF Falls
<1> QED
  BY <1>1, <1>2, StepPuts

LEMMA CaredKeeps ==
  ASSUME Core, Cared, NEW p \in Procs, NEW j, StepTo(p, j), connected' => connected, Active' \subseteq Active,
         connected' => \A s \in Active' :
           Good(s) \/ Cares(job[p], s) \/ Removes(job[p], s) => Good(s)' \/ Cares(j, s) \/ Removes(j, s)
  PROVE  Cared'
<1> SUFFICES ASSUME connected', NEW s \in Active', ~Good(s)'
             PROVE  \E q \in Procs : Cares(job'[q], s) \/ Removes(job'[q], s)
  BY DEF Cared, Cares, Removes
<1>1. job'[p] = j /\ \A q \in Procs \ {p} : job'[q] = job[q]
  BY StepPuts
<1>2. CASE Cares(j, s) \/ Removes(j, s)
  BY <1>1, <1>2
<1>3. CASE ~Cares(j, s) /\ ~Removes(j, s)
  <2>1. ~Good(s) /\ ~Cares(job[p], s) /\ ~Removes(job[p], s)
    BY <1>3
  <2>2. PICK q \in Procs : Cares(job[q], s) \/ Removes(job[q], s)
    BY <2>1 DEF Cared
  <2>3. q # p
    BY <2>1, <2>2
  <2> QED
    BY <1>1, <2>2, <2>3
<1> QED
  BY <1>2, <1>3

LEMMA CalmBeside ==
  ASSUME Core, Quiet, calm, Orderly, NEW p \in Procs, NEW j, StepTo(p, j), job[p] # Idle,
         hooks \subseteq hooks', connected => connected', Calm(j)'
  PROVE  \A q \in Procs : Calm(job[q])'
<1>1. job'[p] = j /\ \A q \in Procs \ {p} : job'[q] = job[q]
  BY StepPuts
<1>2. ASSUME NEW q \in Procs \ {p} PROVE Calm(job[q])'
  <2>1. Calm(job[q]) /\ job[q].op \notin Deleting \union {"resync"}
    BY OthersIdle DEF Orderly
  <2>2. job'[q] = job[q]
    BY <1>1
  <2> QED
    BY <2>1, <2>2 DEF Calm, Deleting, AllHooks
<1>3. Calm(job[p])'
  BY <1>1
<1> QED
  BY <1>2, <1>3

LEMMA CalmAlone ==
  ASSUME Core, Quiet, calm, NEW p \in Procs, NEW j, StepTo(p, j), job[p].op \in Deleting \union {"resync"}, Calm(j)'
  PROVE  \A q \in Procs : Calm(job[q])' /\ (q # p => job[q] = Idle /\ job'[q] = Idle)
<1>1. job'[p] = j /\ \A q \in Procs \ {p} : job'[q] = Idle /\ job[q] = Idle
  BY StepPuts, OthersIdle
<1>2. Idle.op = "none" /\ Idle.at = "idle"
  BY DEF Idle
<1>3. Calm(Idle)'
  BY <1>2 DEF Calm, Deleting, AllHooks
<1> QED
  BY <1>1, <1>3

LEMMA ConnectKeeps ==
  ASSUME IInv, NEW p \in Procs, Connect(p), Turn(p)
  PROVE  IInv'
<1>1. PICK j : j = [Idle EXCEPT !.op = "connect", !.at = "active"] /\ Start(p, j)
  BY DEF Connect
<1>2. /\ j \in Job /\ j.op = "connect" /\ j.at = "active" /\ j.regs = {} /\ j.list = {}
  BY <1>1, IdleType DEF Job, Idle, Steps, Ops
<1>3. /\ connected' = TRUE /\ rows' = rows /\ hooks' = hooks /\ old' = old /\ filter' = filter
      /\ excused' = excused /\ doubled' = doubled /\ failures' = failures /\ state' = state
  BY DEF Connect, jira, history
<1>4. Given' = Given /\ Grows
  BY <1>3, SameFilter
<1>5. Data'
  BY <1>3, <1>4, CoreData DEF IInv, Data
<1>6. Sound(j)'
  BY <1>2 DEF Sound, StepsOf, Steps, HooksOf
<1>7. StepTo(p, j) /\ job[p] = Idle
  BY <1>1, Starting
<1>8. job'[p] = j /\ \A q \in Procs \ {p} : job'[q] = job[q]
  BY <1>7, StepPuts DEF IInv
<1>9. Counts
  BY <1>3 DEF Counts
<1>10. Tracks(p, j)
  BY <1>2, <1>3, <1>7, IdleNothing DEF Tracks, DealtWith
<1>11. Cleans(p, j)
  BY <1>2, <1>7, CleansOther DEF Idle
<1>12. ASSUME failures = 0, calm PROVE Orderly'
  <2>1. Orderly
    BY <1>12 DEF IInv, Settled
  <2>2. Single'
    BY <1>2, <1>3, <1>8, <2>1 DEF Orderly, Single
  <2>3. Live'
    BY <1>3, <1>7, <2>1, IdleNothing, LiveKeeps DEF Orderly, IInv
  <2>4. Cared'
    BY <1>2, <1>8 DEF Cared, Cares
  <2>5. ASSUME NEW q \in Procs PROVE Calm(job[q])'
    <3>1. Calm(j)
      BY <1>2 DEF Calm, Deleting, AllHooks
    <3>2. Calm(job'[q])
      BY <1>8, <2>1, <3>1 DEF Orderly
    <3> QED
      BY <1>3, <3>2 DEF Calm
  <2> QED
    BY <1>3, <2>2, <2>3, <2>4, <2>5 DEF Orderly
<1> QED
  BY <1>2, <1>4, <1>5, <1>6, <1>7, <1>9, <1>10, <1>11, <1>12, AllKeep
LEMMA InOrdering ==
  ASSUME NEW S, NEW A \in SUBSET S, NEW B \in SUBSET S, A \subseteq B, A # B
  PROVE  <<A, B>> \in StrictSubsetOrdering(S)
BY DEF StrictSubsetOrdering

\* A set of numbers has a least one: inclusion is well founded on the
\* intervals that end in its members.
LEMMA Least ==
  ASSUME NEW S \in SUBSET Nat, S # {}
  PROVE  \E n \in S : \A m \in S : n <= m
<1> DEFINE T == {0 .. n : n \in S}
<1>1. \A n \in S : IsFiniteSet(0 .. n)
  BY FS_Interval
<1>2. T \subseteq FiniteSubsetsOf(Nat)
  BY <1>1 DEF FiniteSubsetsOf
<1>3. T # {}
  <2>1. PICK n \in S : TRUE
    OBVIOUS
  <2>2. 0 .. n \in T
    OBVIOUS
  <2> QED
    BY <2>2
<1> HIDE DEF T
<1>4. PICK x \in T : \A y \in T : <<y, x>> \notin StrictSubsetOrdering(Nat)
  BY <1>2, <1>3, FS_StrictSubsetOrderingWellFounded, WFMin
<1> USE DEF T
<1>5. PICK n \in S : x = 0 .. n
  BY <1>4
<1>6. \A m \in S : n <= m
  <2> SUFFICES ASSUME NEW m \in S, m < n PROVE FALSE
    BY <1>5
  <2>1. 0 .. m \in T
    OBVIOUS
  <2>2. 0 .. m \subseteq 0 .. n /\ 0 .. m # 0 .. n
    <3>1. n \in 0 .. n /\ n \notin 0 .. m
      OBVIOUS
    <3> QED
      BY <3>1
  <2>3. <<0 .. m, 0 .. n>> \in StrictSubsetOrdering(Nat)
    <3>1. 0 .. m \in SUBSET Nat /\ 0 .. n \in SUBSET Nat
      OBVIOUS
    <3> QED
      BY <2>2, <3>1, InOrdering
  <2> QED
    BY <1>4, <1>5, <2>1, <2>3
<1> QED
  BY <1>6

\* The next hook that Jira gives out is one it has not given out before.
LEMMA NewHookIsNew ==
  ASSUME \E h \in Hooks : filter[h] = NoSub
  PROVE  NewHook \in Hooks /\ NewHook \notin Given
<1> DEFINE S == {h \in Hooks : filter[h] = NoSub}
<1>1. S \in SUBSET Nat /\ S # {}
  BY DEF Hooks
<1>2. PICK n \in S : \A m \in S : n <= m
  BY <1>1, Least
<1>3. n \in Hooks /\ filter[n] = NoSub
  OBVIOUS
<1>4. \A g \in Hooks : g < n => filter[g] # NoSub
  BY <1>2 DEF Hooks
<1>5. NewHook \in Hooks /\ filter[NewHook] = NoSub
  BY <1>3, <1>4 DEF NewHook
<1> QED
  BY <1>5 DEF Given

\* Registering a hook, whatever becomes of the answer.
LEMMA HookMade ==
  ASSUME IInv, NEW p \in Procs, RegisterOk(p)
  PROVE  \E h \in Hooks : /\ h = NewHook /\ h \notin Given
                          /\ hooks' = hooks \union {h} /\ filter' = [filter EXCEPT ![h] = job[p].sub]
                          /\ Given' = Given \union {h} /\ Grows /\ filter'[h] = job[p].sub
                          /\ job[p] \in Job /\ Sound(job[p]) /\ job[p].sub \in Subs
                          /\ job[p].op \in {"subscribe", "connect"} /\ job[p].at = "register"
<1>1. job[p] \in Job /\ Sound(job[p]) /\ job[p].op \in {"subscribe", "connect"} /\ job[p].at = "register"
  BY CoreJob DEF IInv, RegisterOk, At
<1>2. job[p].sub \in Subs
  BY <1>1 DEF Sound
<1>3. PICK h \in Hooks : h = NewHook /\ h \notin Given
  BY NewHookIsNew DEF RegisterOk
<1>4. hooks' = hooks \union {h} /\ filter' = [filter EXCEPT ![h] = job[p].sub]
  BY <1>3 DEF RegisterOk
<1>5. filter \in [Hooks -> Subs \union {NoSub}]
  BY CoreData DEF IInv, Data
<1>6. filter'[h] = job[p].sub /\ \A g \in Hooks \ {h} : filter'[g] = filter[g]
  BY <1>4, <1>5
<1>7. Given' = Given \union {h}
  BY <1>2, <1>6 DEF Given
<1>8. Grows
  BY <1>3, <1>6, <1>7 DEF Grows, Given
<1> QED
  BY <1>1, <1>2, <1>3, <1>4, <1>6, <1>7, <1>8

LEMMA RegisterOkKeeps ==
  ASSUME IInv, NEW p \in Procs, RegisterOk(p), Turn(p)
  PROVE  IInv'
<1>1. PICK h \in Hooks : /\ h = NewHook /\ h \notin Given
                         /\ hooks' = hooks \union {h} /\ filter' = [filter EXCEPT ![h] = job[p].sub]
                         /\ Given' = Given \union {h} /\ Grows /\ filter'[h] = job[p].sub
                         /\ job[p] \in Job /\ Sound(job[p]) /\ job[p].sub \in Subs
                         /\ job[p].op \in {"subscribe", "connect"} /\ job[p].at = "register"
  BY HookMade
<1>2. /\ connected' = connected /\ rows' = rows /\ state' = state /\ old' = old
      /\ excused' = excused /\ doubled' = doubled
  BY DEF RegisterOk, mongo, history
<1>3. /\ filter' \in [Hooks -> Subs \union {NoSub}]
      /\ failures' \in 0 .. MaxFailures => Data'
  <2>1. filter' \in [Hooks -> Subs \union {NoSub}]
    BY <1>1, CoreData DEF IInv, Data
  <2> QED
    BY <1>1, <1>2, <2>1, CoreData DEF IInv, Data, HooksOf
<1>4. ASSUME NEW j, j = NextSub(p), Go(p, j), Fail PROVE IInv'
  <2>1. j.at = "user"
    BY <1>1, <1>4 DEF Job, NextSub
  <2>2. j \in Job /\ Sound(j) /\ Calm(j) /\ j.op = job[p].op
    BY <1>1, <1>4, <2>1, UserStep DEF NextSub
  <2>3. failures' # 0 /\ failures' \in 0 .. MaxFailures /\ Counts
    BY <1>4, Failing DEF IInv
  <2>4. Sound(j)'
    BY <1>1, <2>2, SoundStays
  <2>5. Tracks(p, j)
    BY <1>1, <1>2, <2>1, <2>3 DEF Tracks, DealtWith
  <2>6. Cleans(p, j)
    BY <1>1, <2>2, CleansOther
  <2>7. StepTo(p, j)
    BY <1>1, <1>4, Going
  <2> QED
    BY <1>1, <1>3, <2>2, <2>3, <2>4, <2>5, <2>6, <2>7, AllKeep
<1>5. ASSUME NEW j, j = [job[p] EXCEPT !.at = "create", !.hook = h], Go(p, j), UNCHANGED failures
      PROVE  IInv'
  <2>1. /\ j \in Job /\ j.op = job[p].op /\ j.at = "create" /\ j.hook = h /\ j.sub = job[p].sub
        /\ j.subs = job[p].subs /\ j.regs = job[p].regs /\ j.list = job[p].list
    BY <1>1, <1>5 DEF Job, Steps
  <2>2. Sound(j)'
    BY <1>1, <2>1 DEF Sound, StepsOf, Steps
  <2>3. StepTo(p, j) /\ job[p] # Idle
    BY <1>1, <1>5, Going
  <2>4. job'[p] = j /\ \A q \in Procs \ {p} : job'[q] = job[q]
    BY <2>3, StepPuts DEF IInv
  <2>5. Counts /\ failures' \in 0 .. MaxFailures
    BY <1>5, NothingFailed DEF IInv
  <2>6. Tracks(p, j)
    BY <1>1, <1>2, <2>1 DEF Tracks, DealtWith
  <2>7. Cleans(p, j)
    BY <1>1, <2>1, CleansOther
  <2>8. ASSUME failures = 0, calm PROVE Orderly'
    <3>1. Orderly
      BY <2>8 DEF IInv, Settled
    <3>2. Single'
      <4>1. h \notin HooksOf(rows)
        BY <1>1, CoreData DEF IInv, Data
      <4>2. ASSUME NEW q \in Procs \ {p}, job[q].at = "create" PROVE job[q].hook # h
        BY <1>1, <4>2, CoreJob DEF IInv, Sound
      <4>3. Single
        BY <3>1 DEF Orderly
      <4>4. OneSub(rows, rows)' /\ HooksOf(rows)' = HooksOf(rows)
        BY <1>2, <4>3 DEF OneSub, HooksOf, Single
      <4>5. ASSUME NEW q \in Procs, job'[q].at = "create"
            PROVE  /\ job'[q].hook \in hooks' \ HooksOf(rows)
                   /\ \A o \in Procs \ {q} : job'[o].at = "create" => job'[o].hook # job'[q].hook
        BY <1>1, <2>1, <2>4, <4>1, <4>2, <4>3, <4>5 DEF Single
      <4> QED
        BY <4>4, <4>5 DEF Single
    <3>3. Live'
      BY <1>1, <1>2, <2>3, <3>1, LiveKeeps DEF Orderly, IInv
    <3>4. Active' = Active /\ \A s \in Subs : Good(s) => Good(s)'
      BY <1>1, <1>2 DEF Active, Good, RowsOf
    <3>5. Cared'
      <4>1. \A s \in Subs : Cares(job[p], s) => Cares(j, s)
        BY <1>1, <2>1 DEF Cares
      <4>2. \A s \in Subs : ~Removes(job[p], s)
        BY <1>1 DEF Removes, AllHooks
      <4> QED
        BY <1>2, <2>3, <3>1, <3>4, <4>1, <4>2, CaredKeeps DEF Orderly, IInv, Active
    <3>6. Calm(j)'
      <4>1. connected
        BY <1>1, <3>1 DEF Orderly, Calm
      <4> QED
        BY <1>1, <1>2, <2>1, <4>1 DEF Calm, Deleting, AllHooks
    <3>7. \A q \in Procs : Calm(job[q])'
      BY <1>1, <1>2, <2>3, <2>8, <3>1, <3>6, CalmBeside DEF IInv
    <3> QED
      BY <1>2, <3>1, <3>2, <3>3, <3>5, <3>7 DEF Orderly
  <2> QED
    BY <1>1, <1>3, <2>1, <2>2, <2>3, <2>5, <2>6, <2>7, <2>8, AllKeep
<1> QED
  BY <1>1, <1>4, <1>5 DEF RegisterOk
LEMMA CreateRowKeeps ==
  ASSUME IInv, NEW p \in Procs, CreateRow(p), Turn(p)
  PROVE  IInv'
<1>1. /\ job[p] \in Job /\ Sound(job[p]) /\ job[p].op \in {"subscribe", "connect"} /\ job[p].at = "create"
      /\ job[p].sub \in Subs /\ job[p].hook \in Given /\ job[p].hook \in Hooks
  BY CoreJob DEF IInv, CreateRow, At, Sound, Given
<1>2. /\ connected' = connected /\ state' = state /\ hooks' = hooks /\ old' = old /\ filter' = filter
      /\ excused' = excused /\ doubled' = doubled
  BY DEF CreateRow, jira, history
<1>3. Given' = Given /\ Grows
  BY <1>2, SameFilter
<1>4. ASSUME Fail, UNCHANGED rows, NEW j, j = [job[p] EXCEPT !.at = "rollback"], Go(p, j)
      PROVE  IInv'
  <2>1. /\ j \in Job /\ j.op = job[p].op /\ j.at = "rollback" /\ j.hook = job[p].hook /\ j.sub = job[p].sub
        /\ j.regs = job[p].regs /\ j.list = job[p].list
    BY <1>1, <1>4 DEF Job, Steps
  <2>2. Sound(j)
    BY <1>1, <2>1 DEF Sound, StepsOf, Steps
  <2>3. StepTo(p, j) /\ job[p] # Idle
    BY <1>1, <1>4, Going
  <2> QED
    BY <1>2, <1>4, <2>1, <2>2, <2>3, FailureKeeps DEF mongo, jira, history
<1>5. ASSUME UNCHANGED failures, NEW row, row = [sub |-> job[p].sub, hook |-> job[p].hook, due |-> FALSE],
             rows' = rows \union {row}, NEW j, j = NextSub(p), Go(p, j)
      PROVE  IInv'
  <2>1. j.at = "user" /\ j.subs = job[p].subs
    BY <1>1, <1>5 DEF Job, NextSub
  <2>2. j \in Job /\ Sound(j) /\ j.op = job[p].op
    BY <1>1, <1>5, <2>1, UserStep DEF NextSub
  <2>3. row \in Rows /\ row.sub = job[p].sub /\ row.hook = job[p].hook
    BY <1>1, <1>5 DEF Rows
  <2>4. HooksOf(rows') = HooksOf(rows) \union {job[p].hook}
    BY <1>5, <2>3 DEF HooksOf
  <2>5. Counts /\ failures' \in 0 .. MaxFailures
    BY <1>5, NothingFailed DEF IInv
  <2>6. Data'
    BY <1>1, <1>2, <1>3, <1>5, <2>3, <2>4, <2>5, CoreData DEF IInv, Data, HooksOf
  <2>7. Sound(j)'
    BY <1>3, <2>2, SoundStays
  <2>8. Tracks(p, j)
    BY <1>2, <2>1, <2>4 DEF Tracks, DealtWith
  <2>9. Cleans(p, j)
    BY <1>1, <2>2, CleansOther
  <2>10. StepTo(p, j) /\ job[p] # Idle
    BY <1>1, <1>5, Going
  <2>11. job'[p] = j /\ \A q \in Procs \ {p} : job'[q] = job[q]
    BY <2>10, StepPuts DEF IInv
  <2>12. ASSUME failures = 0, calm PROVE Orderly'
    <3>1. Orderly
      BY <2>12 DEF IInv, Settled
    <3>2. job[p].hook \in hooks \ HooksOf(rows)
      BY <1>1, <3>1 DEF Orderly, Single
    <3>3. Single'
      <4>1. OneSub(rows, rows)'
        BY <1>5, <2>3, <3>1, <3>2 DEF OneSub, HooksOf, Orderly, Single
      <4>2. ASSUME NEW q \in Procs, job'[q].at = "create"
            PROVE  /\ job'[q].hook \in hooks' \ HooksOf(rows')
                   /\ \A o \in Procs \ {q} : job'[o].at = "create" => job'[o].hook # job'[q].hook
        BY <1>1, <1>2, <2>1, <2>4, <2>11, <3>1, <4>2 DEF Orderly, Single
      <4> QED
        BY <4>1, <4>2 DEF Single, HooksOf
    <3>4. Live'
      BY <1>1, <1>2, <1>5, <2>3, <2>10, <3>1, <3>2, LiveKeeps DEF Orderly, IInv
    <3>5. Cared'
      <4>1. Active' = Active /\ \A s \in Subs : Good(s) => Good(s)'
        BY <1>2, <1>5 DEF Active, Good, RowsOf
      <4>2. \A s \in Subs : s = job[p].sub => Good(s)'
        BY <1>2, <1>5, <2>3, <3>2 DEF Good, RowsOf
      <4>3. \A s \in Subs : Cares(job[p], s) => s = job[p].sub \/ Cares(j, s)
        BY <1>1, <2>1, <2>2 DEF Cares
      <4>4. \A s \in Subs : ~Removes(job[p], s)
        BY <1>1 DEF Removes, AllHooks
      <4> QED
        BY <1>1, <1>2, <2>10, <3>1, <4>1, <4>2, <4>3, <4>4, CaredKeeps DEF Orderly, IInv, Active
    <3>6. Calm(j)'
      BY <1>1, <2>1, <2>2 DEF Calm, Deleting, AllHooks
    <3>7. \A q \in Procs : Calm(job[q])'
      BY <1>2, <2>10, <2>12, <3>1, <3>6, CalmBeside DEF IInv
    <3>8. connected'
      BY <1>1, <1>2, <3>1 DEF Orderly, Calm
    <3> QED
      BY <3>3, <3>4, <3>5, <3>7, <3>8 DEF Orderly
  <2> QED
    BY <1>3, <2>2, <2>5, <2>6, <2>7, <2>8, <2>9, <2>10, <2>12, AllKeep
<1> QED
  BY <1>4, <1>5 DEF CreateRow

LEMMA RollbackKeeps ==
  ASSUME IInv, NEW p \in Procs, Rollback(p), Turn(p)
  PROVE  IInv'
<1>1. job[p] \in Job /\ Sound(job[p]) /\ job[p].op \in {"subscribe", "connect"} /\ job[p].at = "rollback"
  BY CoreJob DEF IInv, Rollback, At
<1>2. /\ connected' = connected /\ state' = state /\ rows' = rows /\ filter' = filter
      /\ excused' = excused /\ doubled' = doubled
  BY DEF Rollback, mongo, history
<1>3. hooks' \subseteq hooks /\ old' \subseteq hooks' /\ Counts /\ failures' \in 0 .. MaxFailures
  BY CoreData, NothingFailed, Refusing DEF Rollback, IInv, Data
<1>4. Given' = Given /\ Grows
  BY <1>2, SameFilter
<1>5. Data'
  BY <1>2, <1>3, <1>4, CoreData DEF IInv, Data, HooksOf
<1>6. PICK j : j = NextSub(p) /\ Go(p, j)
  BY DEF Rollback
<1>7. j.at = "user"
  BY <1>1, <1>6 DEF Job, NextSub
<1>8. j \in Job /\ Sound(j) /\ j.op = job[p].op
  BY <1>1, <1>6, <1>7, UserStep DEF NextSub
<1>9. Sound(j)'
  BY <1>4, <1>8, SoundStays
<1>10. Tracks(p, j)
  BY <1>1, <1>2, <1>3, <1>7 DEF Tracks, DealtWith
<1>11. Cleans(p, j)
  BY <1>1, <1>8, CleansOther
<1>12. StepTo(p, j)
  BY <1>1, <1>6, Going
<1>13. ~(failures = 0 /\ calm)
  BY <1>1 DEF IInv, Settled, Orderly, Calm
<1> QED
  BY <1>3, <1>4, <1>5, <1>8, <1>9, <1>10, <1>11, <1>12, <1>13, AllKeep

LEMMA DeleteHooksKeeps ==
  ASSUME IInv, NEW p \in Procs, DeleteHooks(p), Turn(p)
  PROVE  IInv'
<1>1. job[p] \in Job /\ Sound(job[p]) /\ job[p].op \in Deleting /\ job[p].at = "jira"
  BY CoreJob DEF IInv, DeleteHooks, At
<1>2. /\ connected' = connected /\ state' = state /\ rows' = rows /\ filter' = filter
      /\ doubled' = doubled
  BY DEF DeleteHooks, mongo
<1>3. \/ /\ connected /\ failures' = failures /\ excused' = excused
         /\ hooks' = hooks \ HooksOf(job[p].regs) /\ old' = old \ HooksOf(job[p].regs)
      \/ /\ Refused /\ hooks' = hooks /\ old' = old
         /\ excused' = excused \union HooksOf(job[p].regs)
  BY DEF DeleteHooks
<1>4. Given' = Given /\ Grows
  BY <1>2, SameFilter
<1>5. Counts /\ failures' \in 0 .. MaxFailures
  BY <1>3, NothingFailed, Refusing DEF IInv
<1>6. Data'
  <2>1. HooksOf(job[p].regs) \subseteq Hooks
    BY <1>1 DEF Sound, Given
  <2>2. HooksOf(rows') = HooksOf(rows)
    BY <1>2
  <2> QED
    BY <1>2, <1>3, <1>4, <1>5, <2>1, <2>2, CoreData DEF IInv, Data, HooksOf
<1>7. PICK j : j = [job[p] EXCEPT !.at = "rows"] /\ Go(p, j)
  BY DEF DeleteHooks
<1>8. /\ j \in Job /\ j.op = job[p].op /\ j.at = "rows" /\ j.sub = job[p].sub /\ j.chat = job[p].chat
      /\ j.subs = job[p].subs /\ j.regs = job[p].regs /\ j.list = job[p].list
  BY <1>1, <1>7 DEF Job, Steps
<1>9. Sound(j)'
  <2>1. Sound(j)
    BY <1>1, <1>8 DEF Sound, StepsOf, Steps, Deleting
  <2> QED
    BY <1>4, <1>8, <2>1, SoundStays
<1>10. Tracks(p, j)
  BY <1>1, <1>2, <1>3, <1>8 DEF Tracks, DealtWith
<1>11. Cleans(p, j)
  BY <1>1, <1>8 DEF Cleans, Deleting, Idle
<1>12. StepTo(p, j)
  BY <1>1, <1>7, Going
<1>13. ASSUME failures' = 0, failures = 0, calm PROVE Orderly'
  <2>1. Orderly
    BY <1>13 DEF IInv, Settled
  <2>2. Calm(j)'
    BY <1>1, <1>2, <1>8, <2>1 DEF Orderly, Calm, Deleting, AllHooks
  <2>3. \A q \in Procs : Calm(job[q])' /\ (q # p => job[q] = Idle /\ job'[q] = Idle)
    BY <1>1, <1>12, <1>13, <2>2, CalmAlone DEF IInv
  <2>4. job'[p] = j
    BY <1>12, StepPuts DEF IInv
  <2>5. \A q \in Procs : job'[q].at # "create"
    BY <1>8, <2>3, <2>4, IdleNothing
  <2>6. Single'
    BY <1>2, <2>1, <2>5 DEF Orderly, Single, OneSub
  <2>7. \A q \in Procs, r \in rows : ~Falls(job[q], r)
    BY <1>1, <2>3, IdleNothing DEF Falls
  <2>8. ASSUME NEW r \in rows, r.hook \notin hooks' PROVE Falls(j, r) /\ Removes(j, r.sub)
    <3>1. r.hook \in HooksOf(job[p].regs)
      BY <1>3, <2>1, <2>7, <2>8 DEF Orderly, Live
    <3>2. j.op = "unwatch" => r.sub = j.sub /\ ChatOf[j.sub] = j.chat
      <4>1. PICK q \in job[p].regs : q.hook = r.hook
        BY <3>1 DEF HooksOf
      <4>2. Calm(job[p])
        BY <2>1 DEF Orderly
      <4>3. q.sub = r.sub
        BY <1>1, <2>8, <4>1, <4>2 DEF Calm, OneSub
      <4> QED
        BY <1>1, <1>8, <4>1, <4>2, <4>3 DEF Calm, Deleting
    <3> QED
      BY <1>1, <1>8, <3>2 DEF Falls, Removes, AllHooks, Deleting
  <2>9. Live'
    BY <1>2, <2>4, <2>8 DEF Live, Falls
  <2>10. Cared'
    <3>1. Active' = Active
      BY <1>2 DEF Active
    <3>2. \A s \in Subs : Good(s) => Good(s)' \/ Removes(j, s)
      BY <1>2, <2>8 DEF Good, RowsOf
    <3>3. \A s \in Subs : ~Cares(job[p], s)
      BY <1>1 DEF Cares, Deleting
    <3>4. \A s \in Subs : Removes(job[p], s) => Removes(j, s)
      BY <1>8 DEF Removes
    <3> QED
      BY <1>2, <1>12, <2>1, <3>1, <3>2, <3>3, <3>4, CaredKeeps DEF Orderly, IInv, Active
  <2> QED
    BY <1>2, <2>1, <2>3, <2>6, <2>9, <2>10 DEF Orderly
<1> QED
  BY <1>4, <1>5, <1>6, <1>8, <1>9, <1>10, <1>11, <1>12, <1>13, AllKeep
LEMMA DeleteRowsKeeps ==
  ASSUME IInv, NEW p \in Procs, DeleteRows(p), Turn(p)
  PROVE  IInv'
<1>1. job[p] \in Job /\ Sound(job[p]) /\ job[p].op \in Deleting /\ job[p].at = "rows"
  BY CoreJob DEF IInv, DeleteRows, At
<1>2. /\ connected' = connected /\ state' = state /\ hooks' = hooks /\ old' = old /\ filter' = filter
      /\ doubled' = doubled
  BY DEF DeleteRows, jira
<1>3. PICK j : j = AfterHooks(job[p]) /\ Go(p, j)
  BY DEF DeleteRows
<1>4. /\ j \in Job /\ Sound(j) /\ j.op = job[p].op /\ j.chat = job[p].chat /\ j.subs = job[p].subs
      /\ \/ job[p].op = "unwatch" /\ j.at = "regs"
         \/ job[p].op = "disconnect" /\ j.at = "subs"
         \/ job[p].op = "kick" /\ j.at = "creds"
  BY <1>1, <1>3, AfterHooksType
<1>5. StepTo(p, j) /\ job[p] # Idle
  BY <1>1, <1>3, Going
<1>6. CASE UNCHANGED <<rows, excused>> /\ Fail
  BY <1>2, <1>4, <1>5, <1>6, FailureKeeps DEF mongo, jira, history
<1>7. ASSUME NEW there, there = (IF job[p].op = "unwatch" THEN RowsOf(job[p].sub) ELSE rows),
             rows' = rows \ there,
             excused' = excused \union (HooksOf(there) \ HooksOf(job[p].regs)),
             UNCHANGED failures
      PROVE  IInv'
  <2>1. Given' = Given /\ Grows
    BY <1>2, SameFilter
  <2>2. there \subseteq rows
    BY <1>7 DEF RowsOf
  <2>3. Counts /\ failures' \in 0 .. MaxFailures
    BY <1>7, NothingFailed DEF IInv
  <2>4. Data'
    <3>1. HooksOf(there) \subseteq Hooks /\ HooksOf(rows') \subseteq HooksOf(rows)
      BY <1>7, <2>2, CoreData DEF IInv, Data, HooksOf, Given
    <3>2. rows' \subseteq Rows /\ HooksOf(rows)' \subseteq Given'
      BY <1>7, <2>1, <3>1, CoreData DEF IInv, Data, HooksOf
    <3> QED
      BY <1>2, <1>7, <2>1, <2>3, <3>1, <3>2, CoreData DEF IInv, Data
  <2>5. Sound(j)'
    BY <1>4, <2>1, SoundStays
  <2>6. Tracks(p, j)
    <3>1. HooksOf(job[p].regs) \intersect hooks \subseteq excused
      BY <1>1 DEF IInv, Tracked, DealtWith
    <3>2. HooksOf(rows) = HooksOf(rows') \union HooksOf(there)
      BY <1>7, <2>2 DEF HooksOf
    <3> QED
      BY <1>1, <1>2, <1>4, <1>7, <3>1, <3>2 DEF Tracks, DealtWith
  <2>7. Cleans(p, j)
    BY <1>1, <1>4, <1>7 DEF Cleans, Deleting, Idle
  <2>8. ASSUME failures = 0, calm PROVE Orderly'
    <3>1. Orderly
      BY <2>8 DEF IInv, Settled
    <3>2. Calm(j)'
      BY <1>1, <1>4, <1>7, <3>1 DEF Orderly, Calm, Deleting, AllHooks
    <3>3. \A q \in Procs : Calm(job[q])' /\ (q # p => job[q] = Idle /\ job'[q] = Idle)
      BY <1>1, <1>5, <2>8, <3>2, CalmAlone DEF IInv
    <3>4. job'[p] = j
      BY <1>5, StepPuts DEF IInv
    <3>5. \A q \in Procs : job'[q].at # "create"
      BY <1>4, <3>3, <3>4, IdleNothing
    <3>6. Single'
      BY <1>7, <3>1, <3>5 DEF Orderly, Single, OneSub
    <3>7. ASSUME NEW r \in rows' PROVE r.hook \in hooks
      <4>1. r \in rows /\ r \notin there
        BY <1>7, <3>7
      <4>2. \A q \in Procs : ~Falls(job[q], r)
        BY <1>1, <1>7, <3>3, <4>1, IdleNothing DEF Falls, RowsOf
      <4> QED
        BY <3>1, <4>1, <4>2 DEF Orderly, Live
    <3>8. Live'
      BY <1>2, <3>7 DEF Live
    <3>9. Cared'
      <4>1. Active' = Active /\ Active \subseteq Subs
        BY <1>2 DEF Active
      <4>2. \A s \in Subs : Good(s) => Good(s)' \/ Removes(j, s)
        <5> SUFFICES ASSUME NEW s \in Subs, NEW r \in rows, r.sub = s, r.hook \in hooks
                     PROVE  (\E q \in rows' : q.sub = s /\ q.hook \in hooks) \/ Removes(j, s)
          BY <1>2 DEF Good, RowsOf
        <5>1. CASE r \in there
          <6>1. job[p].op = "unwatch" => s = job[p].sub /\ ChatOf[job[p].sub] = job[p].chat
            BY <1>1, <1>7, <3>1, <5>1 DEF RowsOf, Orderly, Calm
          <6> QED
            BY <1>1, <1>4, <6>1 DEF Removes, AllHooks, Deleting
        <5>2. CASE r \notin there
          BY <1>7, <5>2
        <5> QED
          BY <5>1, <5>2
      <4>3. \A s \in Subs : ~Cares(job[p], s)
        BY <1>1 DEF Cares, Deleting
      <4>4. \A s \in Subs : Removes(job[p], s) => Removes(j, s)
        BY <1>4 DEF Removes
      <4> QED
        BY <1>2, <1>5, <3>1, <4>1, <4>2, <4>3, <4>4, CaredKeeps DEF Orderly, IInv
    <3>10. ~connected' => rows' = {}
      BY <1>2, <1>7, <3>1 DEF Orderly
    <3> QED
      BY <3>3, <3>6, <3>8, <3>9, <3>10 DEF Orderly
  <2> QED
    BY <1>4, <1>5, <2>1, <2>3, <2>4, <2>5, <2>6, <2>7, <2>8, AllKeep
<1> QED
  BY <1>6, <1>7 DEF DeleteRows

LEMMA DeleteSubsKeeps ==
  ASSUME IInv, NEW p \in Procs, DeleteSubs(p), Turn(p)
  PROVE  IInv'
<1>1. /\ job[p] \in Job /\ Sound(job[p]) /\ job[p].op \in Deleting /\ job[p].at = "subs"
      /\ job[p].op \in {"unwatch", "disconnect"}
  BY CoreJob DEF IInv, DeleteSubs, At, Sound, StepsOf
<1>2. /\ connected' = connected /\ rows' = rows /\ hooks' = hooks /\ old' = old /\ filter' = filter
      /\ excused' = excused /\ doubled' = doubled
  BY DEF DeleteSubs, jira, history
<1>3. PICK j : /\ Go(p, j)
               /\ j = IF job[p].op = "disconnect" THEN [job[p] EXCEPT !.at = "creds"] ELSE Idle
  BY DEF DeleteSubs, Done
<1>4. /\ j \in Job /\ Sound(j)
      /\ job[p].op = "disconnect" => j.op = "disconnect" /\ j.at = "creds"
      /\ job[p].op # "disconnect" => j = Idle
  <2>1. CASE job[p].op = "disconnect"
    <3>1. j = [job[p] EXCEPT !.at = "creds"]
      BY <1>3, <2>1
    <3>2. /\ j \in Job /\ j.op = "disconnect" /\ j.at = "creds" /\ j.regs = job[p].regs /\ j.list = job[p].list
      BY <1>1, <2>1, <3>1 DEF Job, Steps
    <3> QED
      BY <1>1, <2>1, <3>2 DEF Sound, StepsOf, Steps, Deleting, AllHooks
  <2>2. CASE job[p].op # "disconnect"
    BY <1>3, <2>2, IdleType
  <2> QED
    BY <2>1, <2>2
<1>5. Idle.op = "none" /\ Idle.at = "idle"
  BY DEF Idle
<1>6. StepTo(p, j) /\ job[p] # Idle
  BY <1>1, <1>3, Going
<1>7. CASE UNCHANGED state /\ Fail
  BY <1>2, <1>4, <1>5, <1>6, <1>7, FailureKeeps DEF mongo, jira, history
<1>8. ASSUME state' = [s \in Subs |->
               IF s \in Active /\ (job[p].op = "disconnect" \/ ChatOf[s] = job[p].chat)
               THEN "gone" ELSE state[s]],
             UNCHANGED failures
      PROVE  IInv'
  <2>1. Given' = Given /\ Grows
    BY <1>2, SameFilter
  <2>2. Counts /\ failures' \in 0 .. MaxFailures
    BY <1>8, NothingFailed DEF IInv
  <2>3. Data'
    <3>1. state' \in [Subs -> {"new", "active", "gone"}]
      BY <1>8, CoreData DEF IInv, Data
    <3> QED
      BY <1>2, <2>1, <2>2, <3>1, CoreData DEF IInv, Data, HooksOf
  <2>4. Sound(j)'
    BY <1>4, <2>1, SoundStays
  <2>5. Tracks(p, j)
    BY <1>1, <1>2, <1>4, <1>5 DEF Tracks, DealtWith
  <2>6. Active' = {s \in Active : job[p].op # "disconnect" /\ ChatOf[s] # job[p].chat}
    BY <1>8 DEF Active
  <2>7. Cleans(p, j)
    BY <1>1, <1>2, <1>4, <1>5, <1>6, <2>6 DEF Cleans, Runs
  <2>8. ASSUME failures = 0, calm PROVE Orderly'
    <3>1. Orderly
      BY <2>8 DEF IInv, Settled
    <3>2. Calm(j)'
      BY <1>1, <1>2, <1>4, <1>5, <3>1 DEF Orderly, Calm, Deleting, AllHooks
    <3>3. \A q \in Procs : Calm(job[q])' /\ (q # p => job[q] = Idle /\ job'[q] = Idle)
      BY <1>1, <1>6, <2>8, <3>2, CalmAlone DEF IInv
    <3>4. job'[p] = j
      BY <1>6, StepPuts DEF IInv
    <3>5. \A q \in Procs : job'[q].at # "create"
      BY <1>4, <1>5, <3>3, <3>4
    <3>6. Single'
      BY <1>2, <3>1, <3>5 DEF Orderly, Single, OneSub
    <3>7. Live'
      BY <1>1, <1>2, <1>6, <3>1, LiveKeeps DEF Orderly, IInv
    <3>8. Cared'
      <4>1. \A s \in Subs : Good(s)' <=> Good(s)
        BY <1>2, SameRows
      <4>2. \A s \in Active' : ~Cares(job[p], s) /\ ~Removes(job[p], s)
        BY <1>1, <2>6 DEF Cares, Removes, Deleting, AllHooks
      <4>3. Active' \subseteq Active /\ Active \subseteq Subs
        BY <2>6 DEF Active
      <4> QED
        BY <1>2, <1>6, <3>1, <4>1, <4>2, <4>3, CaredKeeps DEF Orderly, IInv
    <3> QED
      BY <1>2, <3>1, <3>3, <3>6, <3>7, <3>8 DEF Orderly
  <2> QED
    BY <1>4, <1>6, <2>1, <2>2, <2>3, <2>4, <2>5, <2>7, <2>8, AllKeep
<1> QED
  BY <1>7, <1>8 DEF DeleteSubs

LEMMA ClearCredentialsKeeps ==
  ASSUME IInv, NEW p \in Procs, ClearCredentials(p), Turn(p)
  PROVE  IInv'
<1>1. /\ job[p] \in Job /\ Sound(job[p]) /\ job[p].op \in AllHooks /\ job[p].at = "creds"
  BY CoreJob DEF IInv, ClearCredentials, At
<1>2. /\ state' = state /\ rows' = rows /\ hooks' = hooks /\ old' = old /\ filter' = filter
      /\ excused' = excused /\ doubled' = doubled
  BY DEF ClearCredentials, jira, history
<1>3. StepTo(p, Idle) /\ job[p] # Idle
  BY <1>1, Going DEF ClearCredentials, Done
<1>4. CASE UNCHANGED connected /\ Fail
  BY <1>2, <1>3, <1>4, IdleType, IdleNothing, FailureKeeps DEF mongo, jira, history
<1>5. ASSUME connected' = FALSE, UNCHANGED failures PROVE IInv'
  <2>1. Given' = Given /\ Grows
    BY <1>2, SameFilter
  <2>2. Counts /\ failures' \in 0 .. MaxFailures
    BY <1>5, NothingFailed DEF IInv
  <2>3. Data'
    BY <1>2, <1>5, <2>1, <2>2, CoreData DEF IInv, Data, HooksOf
  <2>4. Idle \in Job /\ Sound(Idle)'
    BY <2>1, IdleType, SoundStays
  <2>5. Tracks(p, Idle)
    BY <1>1, <1>2, IdleNothing DEF Tracks, DealtWith
  <2>6. Cleans(p, Idle)
    BY <1>1, <1>2, <1>3, <1>5 DEF Cleans, Runs, Active
  <2>7. ASSUME failures = 0, calm PROVE Orderly'
    <3>1. Orderly /\ rows = {}
      BY <1>1, <2>7 DEF IInv, Settled, Orderly, Calm
    <3>2. Idle.op = "none" /\ Idle.at = "idle"
      BY DEF Idle
    <3>3. Calm(Idle)'
      BY <3>2 DEF Calm, Deleting, AllHooks
    <3>4. \A q \in Procs : Calm(job[q])' /\ (q # p => job[q] = Idle /\ job'[q] = Idle)
      BY <1>1, <1>3, <2>7, <3>3, CalmAlone DEF IInv, AllHooks, Deleting
    <3>5. \A q \in Procs : job'[q] = Idle
      BY <1>3, <3>4, StepPuts DEF IInv
    <3>6. Single' /\ Live' /\ Cared'
      BY <1>2, <1>5, <3>1, <3>2, <3>5 DEF Single, Live, Cared, OneSub
    <3> QED
      BY <1>2, <3>1, <3>4, <3>6 DEF Orderly
  <2> QED
    BY <1>3, <2>1, <2>2, <2>3, <2>4, <2>5, <2>6, <2>7, AllKeep
<1> QED
  BY <1>4, <1>5 DEF ClearCredentials
LEMMA AdoptKeeps ==
  ASSUME IInv, NEW p \in Procs, Adopt(p), Turn(p)
  PROVE  IInv'
<1>1. job[p] \in Job /\ Sound(job[p]) /\ job[p].op = "resync" /\ job[p].at = "adopt"
  BY CoreJob DEF IInv, Adopt, At
<1>2. /\ connected' = connected /\ state' = state /\ hooks' = hooks /\ old' = old /\ filter' = filter
      /\ excused' = excused
  BY DEF Adopt, jira
<1>3. Given' = Given /\ Grows
  BY <1>2, SameFilter
<1>4. \A s \in Subs : ~Cares(job[p], s) /\ ~Removes(job[p], s)
  BY <1>1, RepairNothing
<1>5. ASSUME UNCHANGED <<rows, doubled, failures>>,
             NEW j, j = [job[p] EXCEPT !.at = "drop", !.list = {}, !.subs = {}], Go(p, j)
      PROVE  IInv'
  <2>1. /\ j \in Job /\ j.op = "resync" /\ j.at = "drop" /\ j.list = {} /\ j.regs = job[p].regs
    BY <1>1, <1>5 DEF Job, Steps
  <2>2. Sound(j)
    BY <1>1, <2>1 DEF Sound, StepsOf, Steps
  <2>3. Settles(p, j)
    <3> SUFFICES ASSUME failures = 0, calm PROVE Calm(j)
      BY <1>1, <1>4 DEF Settles, Active
    <3>1. Calm(job[p])
      BY DEF IInv, Settled, Orderly
    <3> QED
      BY <1>1, <2>1, <3>1 DEF Calm, Deleting, AllHooks
  <2>4. Cleans(p, j)
    BY <1>1, <2>1, CleansOther
  <2>5. StepTo(p, j)
    BY <1>1, <1>5, Going
  <2>6. Counts /\ failures' \in 0 .. MaxFailures
    BY <1>5, NothingFailed DEF IInv
  <2>7. UNCHANGED <<mongo, hooks, filter, history>> /\ old' \subseteq old
    BY <1>2, <1>5 DEF mongo, history
  <2> QED
    BY <1>1, <2>1, <2>2, <2>3, <2>4, <2>5, <2>6, <2>7, HandlerOnly
<1>6. ASSUME NEW h \in job[p].list, NEW s \in job[p].subs, UNCHANGED <<rows, doubled>>, Fail,
             NEW L, L = job[p].list \ {h}, NEW j, j = [job[p] EXCEPT !.list = L], Go(p, j)
      PROVE  IInv'
  <2>1. L \subseteq Hooks /\ L \subseteq Given
    BY <1>1, <1>6 DEF Job, Sound
  <2>2. /\ j \in Job /\ j.op = "resync" /\ j.at = "adopt" /\ j.list = L /\ j.regs = job[p].regs
    BY <1>1, <1>6, <2>1 DEF Job, Steps
  <2>3. Sound(j)
    BY <1>1, <2>1, <2>2 DEF Sound, StepsOf, Steps
  <2>4. StepTo(p, j) /\ job[p] # Idle
    BY <1>1, <1>6, Going
  <2> QED
    BY <1>2, <1>6, <2>2, <2>3, <2>4, FailureKeeps DEF mongo, jira, history
<1>7. ASSUME NEW h \in job[p].list, NEW s \in job[p].subs, UNCHANGED failures, doubled' \in BOOLEAN,
             NEW row, row = [sub |-> s, hook |-> h, due |-> h \in old],
             rows' = rows \union {row},
             NEW L, L = job[p].list \ {h}, NEW S, S = job[p].subs \ {s},
             NEW j, j = [job[p] EXCEPT !.list = L, !.subs = S], Go(p, j)
      PROVE  IInv'
  <2>1. L \subseteq Hooks /\ L \subseteq Given /\ S \subseteq Subs /\ s \in Subs /\ h \in Hooks /\ h \in Given
    BY <1>1, <1>7 DEF Job, Sound
  <2>2. /\ j \in Job /\ j.op = "resync" /\ j.at = "adopt" /\ j.list = L /\ j.regs = job[p].regs
    BY <1>1, <1>7, <2>1 DEF Job, Steps
  <2>3. Sound(j)'
    <3>1. Sound(j)
      BY <1>1, <2>1, <2>2 DEF Sound, StepsOf, Steps
    <3> QED
      BY <1>3, <2>2, <3>1, SoundStays
  <2>4. row \in Rows /\ row.sub = s /\ row.hook = h
    BY <1>7, <2>1 DEF Rows
  <2>5. HooksOf(rows') = HooksOf(rows) \union {h}
    BY <1>7, <2>4 DEF HooksOf
  <2>6. Counts /\ failures' \in 0 .. MaxFailures
    BY <1>7, NothingFailed DEF IInv
  <2>7. Data'
    BY <1>2, <1>3, <1>7, <2>1, <2>4, <2>5, <2>6, CoreData DEF IInv, Data, HooksOf
  <2>8. Tracks(p, j)
    BY <1>1, <1>2, <2>2, <2>5 DEF Tracks, DealtWith
  <2>9. Cleans(p, j)
    BY <1>1, <2>2, CleansOther
  <2>10. StepTo(p, j)
    BY <1>1, <1>7, Going
  <2>11. ASSUME failures = 0, calm PROVE Orderly'
    <3>1. Orderly
      BY <2>11 DEF IInv, Settled
    <3>2. /\ connected /\ job[p].list \subseteq hooks \ HooksOf(rows)
          /\ HooksOf(job[p].regs) \intersect hooks = {}
      BY <1>1, <3>1 DEF Orderly, Calm
    <3>3. L \subseteq hooks \ HooksOf(rows')
      BY <1>7, <2>5, <3>2
    <3>4. Calm(j)'
      BY <1>2, <2>2, <2>5, <3>2, <3>3 DEF Calm, Deleting, AllHooks, HooksOf
    <3>5. \A q \in Procs : Calm(job[q])' /\ (q # p => job[q] = Idle /\ job'[q] = Idle)
      BY <1>1, <2>10, <2>11, <3>4, CalmAlone DEF IInv
    <3>6. job'[p] = j
      BY <2>10, StepPuts DEF IInv
    <3>7. \A q \in Procs : job'[q].at # "create"
      BY <2>2, <3>5, <3>6, IdleNothing
    <3>8. OneSub(rows, rows)'
      BY <1>7, <2>4, <3>1, <3>2 DEF OneSub, HooksOf, Orderly, Single
    <3>9. Single'
      BY <3>7, <3>8 DEF Single
    <3>10. Live'
      BY <1>1, <1>2, <1>7, <2>4, <2>10, <3>1, <3>2, LiveKeeps DEF Orderly, IInv
    <3>11. Cared'
      <4>1. Active' = Active /\ Active \subseteq Subs
        BY <1>2 DEF Active
      <4>2. \A t \in Subs : Good(t) => Good(t)'
        BY <1>2, <1>7 DEF Good, RowsOf
      <4> QED
        BY <1>2, <1>4, <2>10, <3>1, <4>1, <4>2, CaredKeeps DEF Orderly, IInv
    <3> QED
      BY <1>2, <3>2, <3>5, <3>9, <3>10, <3>11 DEF Orderly
  <2> QED
    BY <1>3, <2>2, <2>3, <2>6, <2>7, <2>8, <2>9, <2>10, <2>11, AllKeep
<1>8. PICK fits : fits = {x \in job[p].list \X job[p].subs : JqlOf[filter[x[1]]] = JqlOf[x[2]]}
  OBVIOUS
<1>9. CASE fits = {} /\ Go(p, [job[p] EXCEPT !.at = "drop", !.list = {}, !.subs = {}])
           /\ UNCHANGED <<rows, doubled, failures>>
  BY <1>5, <1>9
<1>10. ASSUME NEW x \in fits,
              \/ /\ rows' = rows \union {[sub |-> x[2], hook |-> x[1], due |-> x[1] \in old]}
                 /\ doubled' = (doubled \/ RowsOf(x[2]) # {})
                 /\ Go(p, [job[p] EXCEPT !.list = @ \ {x[1]}, !.subs = @ \ {x[2]}])
                 /\ UNCHANGED failures
              \/ /\ UNCHANGED <<rows, doubled>>
                 /\ Go(p, [job[p] EXCEPT !.list = @ \ {x[1]}])
                 /\ Fail
       PROVE  IInv'
  <2>1. PICK h \in job[p].list, s \in job[p].subs : h = x[1] /\ s = x[2]
    BY <1>8
  <2>2. doubled \in BOOLEAN
    BY CoreData DEF IInv, Data
  <2>3. PICK L : L = job[p].list \ {h}
    OBVIOUS
  <2>4. PICK S : S = job[p].subs \ {s}
    OBVIOUS
  <2>5. PICK row : row = [sub |-> s, hook |-> h, due |-> h \in old]
    OBVIOUS
  <2>6. CASE UNCHANGED <<rows, doubled>> /\ Go(p, [job[p] EXCEPT !.list = @ \ {x[1]}]) /\ Fail
    <3>1. PICK j : j = [job[p] EXCEPT !.list = L] /\ Go(p, j)
      BY <1>1, <2>1, <2>3, <2>6 DEF Job
    <3> QED
      BY <1>6, <2>3, <2>6, <3>1
  <2>7. CASE /\ rows' = rows \union {[sub |-> x[2], hook |-> x[1], due |-> x[1] \in old]}
             /\ doubled' = (doubled \/ RowsOf(x[2]) # {})
             /\ Go(p, [job[p] EXCEPT !.list = @ \ {x[1]}, !.subs = @ \ {x[2]}])
             /\ UNCHANGED failures
    <3>1. PICK j : j = [job[p] EXCEPT !.list = L, !.subs = S] /\ Go(p, j)
      BY <1>1, <2>1, <2>3, <2>4, <2>7 DEF Job
    <3>2. rows' = rows \union {row} /\ doubled' \in BOOLEAN
      BY <2>1, <2>2, <2>5, <2>7
    <3> QED
      BY <1>7, <2>3, <2>4, <2>5, <2>7, <3>1, <3>2
  <2> QED
    BY <1>10, <2>6, <2>7
<1> QED
  BY <1>8, <1>9, <1>10 DEF Adopt

LEMMA DropKeeps ==
  ASSUME IInv, NEW p \in Procs, Drop(p), Turn(p)
  PROVE  IInv'
<1>1. job[p] \in Job /\ Sound(job[p]) /\ job[p].op \in {"resync", "refresh"} /\ job[p].at = "drop"
  BY CoreJob DEF IInv, Drop, At
<1>2. /\ connected' = connected /\ state' = state /\ hooks' = hooks /\ old' = old /\ filter' = filter
      /\ doubled' = doubled
  BY DEF Drop, jira
<1>3. Given' = Given /\ Grows
  BY <1>2, SameFilter
<1>4. \A s \in Subs : ~Cares(job[p], s) /\ ~Removes(job[p], s)
  BY <1>1, RepairNothing
<1>5. CASE Done(p) /\ UNCHANGED <<rows, excused, failures>>
  <2>1. Settles(p, Idle)
    BY <1>1, <1>4, IdleNothing DEF Settles, Active
  <2>2. Cleans(p, Idle)
    BY <1>1, CleansOther DEF Idle
  <2>3. StepTo(p, Idle)
    BY <1>1, <1>5, Going DEF Done
  <2>4. UNCHANGED <<mongo, hooks, filter, history>> /\ old' \subseteq old
    BY <1>2, <1>5 DEF mongo, history
  <2> QED
    BY <1>1, <1>5, <2>1, <2>2, <2>3, <2>4, IdleType, IdleNothing, NothingFailed, HandlerOnly DEF IInv
<1>6. ASSUME NEW r \in job[p].regs, NEW R, R = job[p].regs \ {r},
             NEW j, j = [job[p] EXCEPT !.regs = R], Go(p, j),
             \/ /\ rows' = {q \in rows : ~Same(q, r)} /\ excused' = excused \union {r.hook}
                /\ UNCHANGED failures
             \/ UNCHANGED <<rows, excused>> /\ Fail
      PROVE  IInv'
  <2>1. R \subseteq Rows /\ HooksOf(R) \subseteq Given /\ r \in Rows /\ HooksOf(R) \subseteq HooksOf(job[p].regs)
    BY <1>1, <1>6 DEF Job, Sound, HooksOf
  <2>2. /\ j \in Job /\ j.op = job[p].op /\ j.at = "drop" /\ j.list = job[p].list /\ j.regs = R
    BY <1>1, <1>6, <2>1 DEF Job, Steps
  <2>3. Sound(j)
    BY <1>1, <2>1, <2>2 DEF Sound, StepsOf, Steps
  <2>4. StepTo(p, j) /\ job[p] # Idle
    BY <1>1, <1>6, Going
  <2>5. CASE UNCHANGED <<rows, excused>> /\ Fail
    BY <1>1, <1>2, <2>2, <2>3, <2>4, <2>5, FailureKeeps DEF mongo, jira, history
  <2>6. CASE /\ rows' = {q \in rows : ~Same(q, r)} /\ excused' = excused \union {r.hook}
             /\ UNCHANGED failures
    <3>1. Counts /\ failures' \in 0 .. MaxFailures
      BY <2>6, NothingFailed DEF IInv
    <3>2. HooksOf(rows) \subseteq HooksOf(rows') \union {r.hook} /\ HooksOf(rows') \subseteq HooksOf(rows)
      BY <2>6 DEF HooksOf, Same
    <3>3. Data'
      <4>1. r.hook \in Hooks
        BY <2>1 DEF Rows
      <4>2. rows' \subseteq Rows /\ HooksOf(rows)' \subseteq Given'
        BY <1>3, <2>6, <3>2, CoreData DEF IInv, Data, HooksOf
      <4> QED
        BY <1>2, <1>3, <2>6, <3>1, <4>1, <4>2, CoreData DEF IInv, Data
    <3>4. Sound(j)'
      BY <1>3, <2>2, <2>3, SoundStays
    <3>5. Tracks(p, j)
      BY <1>1, <1>2, <2>2, <2>6, <3>2 DEF Tracks, DealtWith, Deleting
    <3>6. Cleans(p, j)
      BY <1>1, <2>2, CleansOther
    <3>7. ASSUME failures = 0, calm PROVE Orderly'
      <4>1. Orderly
        BY <3>7 DEF IInv, Settled
      <4>2. /\ job[p].op = "resync" /\ connected /\ HooksOf(job[p].regs) \intersect hooks = {}
        BY <1>1, <4>1 DEF Orderly, Calm
      <4>3. r.hook \notin hooks
        BY <1>6, <4>2 DEF HooksOf
      <4>4. Calm(j)'
        BY <1>2, <2>1, <2>2, <4>2 DEF Calm, Deleting, AllHooks
      <4>5. \A q \in Procs : Calm(job[q])' /\ (q # p => job[q] = Idle /\ job'[q] = Idle)
        BY <2>4, <3>7, <4>2, <4>4, CalmAlone DEF IInv
      <4>6. job'[p] = j
        BY <2>4, StepPuts DEF IInv
      <4>7. \A q \in Procs : job'[q].at # "create"
        BY <2>2, <4>5, <4>6, IdleNothing
      <4>8. Single'
        BY <2>6, <4>1, <4>7 DEF Single, OneSub, Orderly
      <4>9. Live'
        BY <1>1, <1>2, <2>4, <2>6, <4>1, LiveKeeps DEF Orderly, IInv
      <4>10. Cared'
        <5>1. Active' = Active /\ Active \subseteq Subs
          BY <1>2 DEF Active
        <5>2. \A t \in Subs : Good(t) => Good(t)'
          BY <1>2, <2>6, <4>3 DEF Good, RowsOf, Same
        <5> QED
          BY <1>2, <1>4, <2>4, <4>1, <5>1, <5>2, CaredKeeps DEF Orderly, IInv
      <4> QED
        BY <1>2, <4>2, <4>5, <4>8, <4>9, <4>10 DEF Orderly
    <3> QED
      BY <1>3, <2>2, <2>4, <3>1, <3>3, <3>4, <3>5, <3>6, <3>7, AllKeep
  <2> QED
    BY <1>6, <2>5, <2>6
<1>7. ASSUME NEW r \in job[p].regs,
             Go(p, [job[p] EXCEPT !.regs = @ \ {r}]),
             \/ /\ rows' = {q \in rows : ~Same(q, r)} /\ excused' = excused \union {r.hook}
                /\ UNCHANGED failures
             \/ UNCHANGED <<rows, excused>> /\ Fail
      PROVE  IInv'
  <2>1. PICK R : R = job[p].regs \ {r}
    OBVIOUS
  <2>2. PICK j : j = [job[p] EXCEPT !.regs = R] /\ Go(p, j)
    BY <1>1, <1>7, <2>1 DEF Job
  <2> QED
    BY <1>6, <1>7, <2>1, <2>2
<1> QED
  BY <1>5, <1>7 DEF Drop
\* Rows whose due mark alone changed.
Redated ==
  /\ rows' \subseteq Rows
  /\ \A r \in rows : \E q \in rows' : Same(q, r)
  /\ \A q \in rows' : \E r \in rows : Same(q, r)

LEMMA RedatedRows ==
  ASSUME NEW f \in [Rows -> BOOLEAN], rows \subseteq Rows,
         rows' = {[r EXCEPT !.due = f[r]] : r \in rows}
  PROVE  Redated
<1>1. ASSUME NEW r \in rows, NEW q, q = [r EXCEPT !.due = f[r]] PROVE q \in Rows /\ Same(q, r)
  <2>1. r \in Rows /\ f[r] \in BOOLEAN
    OBVIOUS
  <2>2. q \in Rows /\ q.sub = r.sub /\ q.hook = r.hook
    BY <1>1, <2>1 DEF Rows
  <2> QED
    BY <2>2 DEF Same
<1>2. \A r \in rows : [r EXCEPT !.due = f[r]] \in rows'
  OBVIOUS
<1>3. \A q \in rows' : \E r \in rows : q = [r EXCEPT !.due = f[r]]
  OBVIOUS
<1> QED
  BY <1>1, <1>2, <1>3 DEF Redated

\* What does not depend on the marks.
LEMMA RedatedFacts ==
  ASSUME Redated, UNCHANGED hooks
  PROVE  /\ HooksOf(rows)' = HooksOf(rows)
         /\ rows = {} <=> rows' = {}
         /\ \A s \in Subs : Good(s)' <=> Good(s)
         /\ OneSub(rows, rows)' <=> OneSub(rows, rows)
         /\ \A R : OneSub(rows, R) => OneSub(rows', R)
<1>1. HooksOf(rows') = HooksOf(rows)
  BY DEF Redated, HooksOf, Same
<1>2. rows = {} <=> rows' = {}
  BY DEF Redated
<1>3. \A s \in Subs : Good(s)' <=> Good(s)
  BY DEF Redated, Good, RowsOf, Same
<1>4. OneSub(rows', rows') <=> OneSub(rows, rows)
  BY DEF Redated, OneSub, Same
<1>5. \A R : OneSub(rows, R) => OneSub(rows', R)
  BY DEF Redated, OneSub, Same
<1> QED
  BY <1>1, <1>2, <1>3, <1>4, <1>5 DEF HooksOf, OneSub

LEMMA UpdateExpiryKeeps ==
  ASSUME IInv, NEW p \in Procs, UpdateExpiry(p), Turn(p)
  PROVE  IInv'
<1>1. job[p] \in Job /\ Sound(job[p]) /\ job[p].op = "refresh" /\ job[p].at = "update"
  BY CoreJob DEF IInv, UpdateExpiry, At
<1>2. /\ connected' = connected /\ state' = state /\ hooks' = hooks /\ old' = old /\ filter' = filter
      /\ doubled' = doubled /\ excused' = excused
  BY DEF UpdateExpiry, jira, history
<1>3. Given' = Given /\ Grows
  BY <1>2, SameFilter
<1>4. \A s \in Subs : ~Cares(job[p], s) /\ ~Removes(job[p], s)
  BY <1>1, RepairNothing
<1>5. CASE Done(p) /\ UNCHANGED <<rows, failures>>
  <2>1. Settles(p, Idle)
    BY <1>1, <1>4, IdleNothing DEF Settles, Active
  <2>2. Cleans(p, Idle)
    BY <1>1, CleansOther DEF Idle
  <2>3. StepTo(p, Idle)
    BY <1>1, <1>5, Going DEF Done
  <2>4. UNCHANGED <<mongo, hooks, filter, history>> /\ old' \subseteq old
    BY <1>2, <1>5 DEF mongo, history
  <2> QED
    BY <1>1, <1>5, <2>1, <2>2, <2>3, <2>4, IdleType, IdleNothing, NothingFailed, HandlerOnly DEF IInv
<1>6. ASSUME NEW r \in job[p].regs, NEW R, R = job[p].regs \ {r},
             NEW j, j = [job[p] EXCEPT !.regs = R], Go(p, j),
             \/ /\ rows' = {IF Same(q, r) THEN [q EXCEPT !.due = FALSE] ELSE q : q \in rows}
                /\ UNCHANGED failures
             \/ UNCHANGED rows /\ Fail
      PROVE  IInv'
  <2>1. R \subseteq Rows /\ HooksOf(R) \subseteq Given /\ r \in Rows /\ HooksOf(R) \subseteq HooksOf(job[p].regs)
    BY <1>1, <1>6 DEF Job, Sound, HooksOf
  <2>2. /\ j \in Job /\ j.op = "refresh" /\ j.at = "update" /\ j.list = job[p].list /\ j.regs = R
    BY <1>1, <1>6, <2>1 DEF Job, Steps
  <2>3. Sound(j)
    BY <1>1, <2>1, <2>2 DEF Sound, StepsOf, Steps
  <2>4. StepTo(p, j) /\ job[p] # Idle
    BY <1>1, <1>6, Going
  <2>5. CASE UNCHANGED rows /\ Fail
    BY <1>1, <1>2, <2>2, <2>3, <2>4, <2>5, FailureKeeps DEF mongo, jira, history
  <2>6. CASE /\ rows' = {IF Same(q, r) THEN [q EXCEPT !.due = FALSE] ELSE q : q \in rows}
             /\ UNCHANGED failures
    <3>1. Counts /\ failures' \in 0 .. MaxFailures
      BY <2>6, NothingFailed DEF IInv
    <3>2. Redated
      <4>1. rows \subseteq Rows
        BY CoreData DEF IInv, Data
      <4> DEFINE f == [q \in Rows |-> IF Same(q, r) THEN FALSE ELSE q.due]
      <4>2. \A q \in Rows : q.due \in BOOLEAN
        BY DEF Rows
      <4>3. f \in [Rows -> BOOLEAN]
        BY <4>2
      <4>4. \A q \in Rows : q = [q EXCEPT !.due = q.due]
        BY DEF Rows
      <4> DEFINE g(q) == IF Same(q, r) THEN [q EXCEPT !.due = FALSE] ELSE q
                 e(q) == [q EXCEPT !.due = f[q]]
      <4>5. \A q \in rows : g(q) = e(q)
        BY <4>1, <4>4
      <4>6. rows' = {g(q) : q \in rows}
        BY <2>6
      <4> HIDE DEF f, g
      <4>7. rows' = {e(q) : q \in rows}
        <5> HIDE DEF e
        <5> QED
          BY <4>5, <4>6
      <4> QED
        BY <4>1, <4>3, <4>7, RedatedRows
    <3>3. Data'
      BY <1>2, <1>3, <3>1, <3>2, RedatedFacts, CoreData DEF IInv, Data, Redated
    <3>4. Sound(j)'
      BY <1>3, <2>2, <2>3, SoundStays
    <3>5. Tracks(p, j)
      BY <1>1, <1>2, <2>2, <3>2, RedatedFacts DEF Tracks, DealtWith, HooksOf
    <3>6. Cleans(p, j)
      BY <1>1, <2>2, CleansOther
    <3>7. ASSUME failures = 0, calm PROVE Orderly'
      <4>1. Orderly
        BY <3>7 DEF IInv, Settled
      <4>2. connected /\ HooksOf(job[p].regs) \subseteq hooks
        BY <1>1, <4>1 DEF Orderly, Calm
      <4>3. Calm(j)'
        BY <1>2, <2>1, <2>2, <4>2 DEF Calm, Deleting, AllHooks
      <4>4. \A q \in Procs : Calm(job[q])'
        BY <1>2, <2>4, <3>7, <4>1, <4>3, CalmBeside DEF IInv
      <4>5. job'[p] = j /\ \A q \in Procs \ {p} : job'[q] = job[q]
        BY <2>4, StepPuts DEF IInv
      <4>6. Single'
        BY <1>2, <2>2, <3>2, <4>1, <4>5, RedatedFacts DEF Single, Orderly
      <4>7. Live'
        <5>1. \A q \in rows' : q.hook \in hooks
          <6>1. \A q \in Procs, o \in rows : ~Falls(job[q], o)
            BY <1>1, <2>4, <3>7, OthersIdle DEF Falls, Deleting, IInv
          <6>2. HooksOf(rows) \subseteq hooks
            BY <4>1, <6>1 DEF Orderly, Live, HooksOf
          <6> QED
            BY <1>2, <3>2, <6>2, RedatedFacts DEF HooksOf
        <5> QED
          BY <1>2, <5>1 DEF Live
      <4>8. Cared'
        <5>1. Active' = Active /\ Active \subseteq Subs
          BY <1>2 DEF Active
        <5> QED
          BY <1>2, <1>4, <2>4, <3>2, <4>1, <5>1, RedatedFacts, CaredKeeps DEF Orderly, IInv
      <4> QED
        BY <1>2, <4>2, <4>4, <4>6, <4>7, <4>8 DEF Orderly
    <3> QED
      BY <1>3, <2>2, <2>4, <3>1, <3>3, <3>4, <3>5, <3>6, <3>7, AllKeep
  <2> QED
    BY <1>6, <2>5, <2>6
<1>7. ASSUME NEW r \in job[p].regs,
             Go(p, [job[p] EXCEPT !.regs = @ \ {r}]),
             \/ /\ rows' = {IF Same(q, r) THEN [q EXCEPT !.due = FALSE] ELSE q : q \in rows}
                /\ UNCHANGED failures
             \/ UNCHANGED rows /\ Fail
      PROVE  IInv'
  <2>1. PICK R : R = job[p].regs \ {r}
    OBVIOUS
  <2>2. PICK j : j = [job[p] EXCEPT !.regs = R] /\ Go(p, j)
    BY <1>1, <1>7, <2>1 DEF Job
  <2> QED
    BY <1>6, <1>7, <2>1, <2>2
<1> QED
  BY <1>5, <1>7 DEF UpdateExpiry
(* ---------------------------------------------------------------------- *)
(* Expiry                                                                  *)

LEMMA AgeKeeps ==
  ASSUME IInv, NEW h \in Hooks, Age(h), UNCHANGED <<solo, calm, ops>>
  PROVE  IInv'
<1>1. /\ connected' = connected /\ state' = state /\ hooks' = hooks /\ filter' = filter /\ job' = job
      /\ excused' = excused /\ doubled' = doubled /\ failures' = failures
      /\ solo' = solo /\ calm' = calm /\ ops' = ops
  BY DEF Age, history
<1>2. Given' = Given /\ Grows
  BY <1>1, SameFilter
<1>3. Redated
  <2>1. rows \subseteq Rows
    BY CoreData DEF IInv, Data
  <2> DEFINE f == [r \in Rows |-> IF r.hook = h THEN TRUE ELSE r.due]
             g(r) == IF r.hook = h THEN [r EXCEPT !.due = TRUE] ELSE r
             e(r) == [r EXCEPT !.due = f[r]]
  <2>2. \A r \in Rows : r.due \in BOOLEAN /\ r = [r EXCEPT !.due = r.due]
    BY DEF Rows
  <2>3. f \in [Rows -> BOOLEAN]
    BY <2>2
  <2>4. \A r \in rows : g(r) = e(r)
    BY <2>1, <2>2
  <2>5. rows' = {g(r) : r \in rows}
    BY DEF Age
  <2> HIDE DEF f, g
  <2>6. rows' = {e(r) : r \in rows}
    <3> HIDE DEF e
    <3> QED
      BY <2>4, <2>5
  <2> QED
    BY <2>1, <2>3, <2>6, RedatedRows
<1>4. /\ HooksOf(rows)' = HooksOf(rows)
      /\ rows = {} <=> rows' = {}
      /\ \A s \in Subs : Good(s)' <=> Good(s)
      /\ OneSub(rows, rows)' <=> OneSub(rows, rows)
      /\ \A R : OneSub(rows, R) => OneSub(rows', R)
  BY <1>1, <1>3, RedatedFacts
<1>5. Core'
  <2>1. Jobs'
    BY <1>1, <1>2, CoreJob, SoundStays DEF IInv, Jobs
  <2>2. old' \subseteq hooks'
    BY <1>1, CoreData DEF IInv, Data, Age
  <2>3. TypeOK'
    BY <1>1, <1>3, <2>2 DEF IInv, Core, TypeOK, Redated
  <2>4. Known'
    BY <1>1, <1>2, <1>4 DEF IInv, Core, Known
  <2> QED
    BY <2>1, <2>3, <2>4 DEF Core
<1>6. Tracked'
  BY <1>1, <1>4 DEF IInv, Tracked, HookIsTracked, At, DealtWith, HooksOf
<1>7. Quiet'
  BY <1>1 DEF IInv, Quiet
<1>8. Settled'
  <2> SUFFICES ASSUME failures = 0, calm PROVE Orderly'
    BY <1>1 DEF Settled
  <2>1. Orderly
    BY DEF IInv, Settled
  <2>2. Single'
    BY <1>1, <1>4, <2>1 DEF Orderly, Single
  <2>3. Live'
    <3> SUFFICES ASSUME NEW q \in rows', q.hook \notin hooks
                 PROVE  \E p \in Procs : Falls(job[p], q)
      BY <1>1 DEF Live, Falls
    <3>1. PICK r \in rows : q.sub = r.sub /\ q.hook = r.hook
      BY <1>3 DEF Redated, Same
    <3>2. PICK p \in Procs : Falls(job[p], r)
      BY <2>1, <3>1 DEF Orderly, Live
    <3> QED
      BY <3>1, <3>2 DEF Falls
  <2>4. Cared'
    <3>1. Active' = Active /\ Active \subseteq Subs
      BY <1>1 DEF Active
    <3> QED
      BY <1>1, <1>4, <2>1, <3>1 DEF Orderly, Cared, Cares, Removes
  <2>5. ASSUME NEW p \in Procs PROVE Calm(job[p])'
    <3>1. Calm(job[p])
      BY <2>1 DEF Orderly
    <3>2. PICK j : j = job[p] /\ j = job'[p]
      BY <1>1
    <3>3. Calm(j) /\ j = job[p]
      BY <3>1, <3>2
    <3>4. Calm(j)'
      <4>1. /\ HooksOf(rows') = HooksOf(rows) /\ \A r \in rows' : \E q \in rows : Same(r, q)
        BY <1>3, <1>4 DEF HooksOf, Redated
      <4> QED
        BY <1>1, <1>4, <3>3, <4>1 DEF Calm, HooksOf
    <3> QED
      BY <3>2, <3>4
  <2> QED
    BY <1>1, <1>4, <2>1, <2>2, <2>3, <2>4, <2>5 DEF Orderly
<1>9. Lonely'
  BY <1>1, <1>4 DEF IInv, Lonely, Runs, DisconnectConverges, Active
<1> QED
  BY <1>5, <1>6, <1>7, <1>8, <1>9 DEF IInv

LEMMA LapseKeeps ==
  ASSUME IInv, NEW h \in Hooks, Lapse(h), solo' = "no", UNCHANGED <<calm, ops>>
  PROVE  IInv'
<1>1. /\ connected' = connected /\ state' = state /\ filter' = filter /\ job' = job
      /\ excused' = excused /\ doubled' = doubled /\ calm' = calm /\ ops' = ops
      /\ hooks' \subseteq hooks /\ rows' \subseteq rows /\ old' \subseteq hooks'
  BY CoreData DEF Lapse, history, IInv, Data
<1>2. failures' # 0 /\ failures' \in 0 .. MaxFailures
  BY Failing DEF Lapse, IInv
<1>3. Given' = Given /\ Grows
  BY <1>1, SameFilter
<1>4. HooksOf(rows') \subseteq HooksOf(rows)
  BY <1>1 DEF HooksOf
<1>5. Core'
  <2>1. Jobs'
    BY <1>1, <1>3, CoreJob, SoundStays DEF IInv, Jobs
  <2>2. TypeOK'
    BY <1>1, <1>2 DEF IInv, Core, TypeOK
  <2>3. Known'
    BY <1>1, <1>3, <1>4 DEF IInv, Core, Known, HooksOf
  <2> QED
    BY <2>1, <2>2, <2>3 DEF Core
<1>6. Tracked'
  BY <1>1, <1>2 DEF IInv, Tracked, HookIsTracked, DealtWith, HooksOf
<1>7. Quiet'
  BY <1>1 DEF IInv, Quiet
<1>8. Settled'
  BY <1>2 DEF Settled
<1>9. Lonely'
  BY DEF Lonely, DisconnectConverges
<1> QED
  BY <1>5, <1>6, <1>7, <1>8, <1>9 DEF IInv

(* ---------------------------------------------------------------------- *)
(* The invariant holds                                                     *)

LEMMA InvInit == Init => IInv
<1> SUFFICES ASSUME Init PROVE IInv
  OBVIOUS
<1>1. \A p \in Procs : job[p] = Idle
  BY DEF Init
<1>2. Idle.op = "none" /\ Idle.at = "idle"
  BY DEF Idle
<1>3. Core
  <2>1. Jobs
    BY <1>1, IdleType DEF Jobs
  <2>2. TypeOK
    <3>1. state \in [Subs -> {"new", "active", "gone"}] /\ filter \in [Hooks -> Subs \union {NoSub}]
      BY DEF Init
    <3>2. job \in [Procs -> Job]
      BY IdleType DEF Init
    <3>3. 0 \in 0 .. MaxOps /\ 0 \in 0 .. MaxFailures
      OBVIOUS
    <3> QED
      BY <1>1, <1>2, <3>1, <3>2, <3>3 DEF Init, TypeOK
  <2>3. Known
    BY DEF Init, Known, HooksOf
  <2> QED
    BY <2>1, <2>2, <2>3 DEF Core
<1>4. Tracked
  BY <1>1, IdleNothing DEF Init, Tracked, HookIsTracked, DealtWith
<1>5. Quiet
  BY <1>1 DEF Quiet
<1>6. Orderly
  BY <1>1, IdleNothing DEF Init, Orderly, Single, Live, Cared, OneSub
<1>7. Lonely
  BY DEF Init, Lonely, DisconnectConverges
<1> QED
  BY <1>3, <1>4, <1>5, <1>6, <1>7 DEF IInv, Settled

LEMMA StepKeeps ==
  ASSUME IInv, NEW p \in Procs, Registering(p) \/ Removing(p) \/ Repairing(p) \/ Crash(p), Turn(p)
  PROVE  IInv'
<1>1. CASE Registering(p)
  BY <1>1, SubscribeKeeps, ConnectKeeps, ReadActiveKeeps, ReadExistingKeeps, ReadUserKeeps,
     RegisterOkKeeps, RegisterFailsKeeps, CreateRowKeeps, RollbackKeeps DEF Registering
<1>2. CASE Removing(p)
  BY <1>2, UnwatchKeeps, DisconnectKeeps, ReadRegsKeeps, DeleteHooksKeeps, DeleteRowsKeeps,
     DeleteSubsKeeps, ClearCredentialsKeeps DEF Removing
<1>3. CASE Repairing(p)
  BY <1>3, ResyncKeeps, ListHooksKeeps, ReadLocalKeeps, AdoptKeeps, DropKeeps,
     RefreshKeeps, ReadOwnerKeeps, RefreshHooksKeeps, UpdateExpiryKeeps DEF Repairing
<1>4. CASE Crash(p)
  BY <1>4, CrashKeeps
<1> QED
  BY <1>1, <1>2, <1>3, <1>4

LEMMA InvNext == IInv /\ [Next]_vars => IInv'
<1> SUFFICES ASSUME IInv, [Next]_vars PROVE IInv'
  OBVIOUS
<1>1. ASSUME NEW p \in Procs, Registering(p) \/ Removing(p) \/ Repairing(p) \/ Crash(p),
             solo' = Solo(p), calm' = (calm /\ Alone),
             ops' = IF job[p] = Idle THEN ops + 1 ELSE ops
      PROVE  IInv'
  BY <1>1, StepKeeps DEF Turn
<1>2. CASE UNCHANGED vars
  BY <1>2 DEF vars, IInv, Core, TypeOK, Jobs, Sound, Known, Given, Tracked, HookIsTracked, At, DealtWith, Quiet,
     Settled, Orderly, Single, Live, Cared, Calm, Falls, Active, Good, RowsOf, HooksOf, OneSub, Cares, Removes,
     Lonely, Runs, DisconnectConverges
<1> QED
  BY <1>1, <1>2, AgeKeeps, LapseKeeps DEF Next

LEMMA Invariance == Spec => []IInv
BY InvInit, InvNext, PTL DEF Spec

(* ---------------------------------------------------------------------- *)
(* Theorems                                                                *)

\* Type correctness, and with it: a handler that writes the row of a hook, or
\* takes the hook back, has the subscription the hook was registered for.
THEOREM RegistryTypes == Spec => []TypeOK
<1>1. IInv => TypeOK
  BY DEF IInv, Core
<1> QED
  BY <1>1, Invariance, PTL

\* While no call fails, a live hook has a row, or a handler is about to write
\* one, or its row went for one of the reasons HookIsTracked names, for any
\* handlers in any overlap.
THEOREM HooksAreTracked == Spec => []HookIsTracked
<1>1. IInv => HookIsTracked
  BY DEF IInv, Tracked
<1> QED
  BY <1>1, Invariance, PTL

\* Once the handlers are done, every active subscription of a connected user
\* has a live hook, however many subscribed, connected and refreshed at once,
\* no call failing and removals and resyncs keeping to themselves.
THEOREM SubscribedWhenCalm == Spec => []SubscribedIsRegistered
<1>1. IInv => SubscribedIsRegistered
  <2> SUFFICES ASSUME IInv, failures = 0, calm, connected, \A p \in Procs : job[p] = Idle, NEW s \in Active
               PROVE  Good(s)
    BY DEF SubscribedIsRegistered, Good
  <2>1. Cared
    BY DEF IInv, Settled, Orderly
  <2> QED
    BY <2>1, IdleNothing DEF Cared, Active
<1> QED
  BY <1>1, Invariance, PTL

\* A /disconnect that runs alone and without failure leaves the user without
\* token, subscriptions and rows, whatever earlier failures, crashes and
\* overlaps left.
THEOREM AloneDisconnectConverges == Spec => []DisconnectConverges
<1>1. IInv => DisconnectConverges
  BY DEF IInv, Lonely
<1> QED
  BY <1>1, Invariance, PTL
=============================================================================
