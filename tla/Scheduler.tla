------------------------------- MODULE Scheduler -------------------------------
(***************************************************************************)
(* Scheduled reports: the rows that the Telegram handlers keep, and the    *)
(* cron process scheduler-svc that loads them when it starts and runs one  *)
(* goroutine per fire.  Handlers run side by side; reads, searches, writes *)
(* and publishes fail; the process is stopped or dies and starts again.    *)
(*                                                                         *)
(* Nothing tells a running process about changed rows (no program of the   *)
(* fleet installs onScheduleChange or calls Scheduler.Reload): jobs are    *)
(* the rows as they were loaded.                                           *)
(***************************************************************************)
EXTENDS Naturals, FiniteSets

CONSTANTS
  Users, Chats,
  Times,        \* preset times of the daily
  NoTime,
  Handlers,     \* update handlers at work at the same time
  Idle,         \* a handler without an update
  Slots,        \* fires at the same time
  NoFire,
  MaxRows,      \* bound: rows stored at the same time
  MaxCmds,      \* bound: updates that change something
  MaxFires,     \* bound: fires
  MaxTroubles,  \* bound: failures, crashes and stops
  MaxDisc       \* bound: /disconnect

Pairs == Chats \X Users
Ids == 1 .. 2 * MaxRows
Rows == [id : Ids, pair : Pairs, kind : {"jql", "daily"}, at : Times \union {NoTime}]
Searches == 3   \* done, doing and plan of a daily

ASSUME BoundsAssumption ==
  {MaxRows, MaxCmds, MaxFires, MaxTroubles, MaxDisc} \subseteq Nat /\ IsFiniteSet(Slots)

VARIABLES
  rows,       \* scheduled_reports
  connected,  \* the user has an access token
  handler,
  \* scheduler-svc
  phase, mu, jobs, fire,
  \* history: the time a user was last told, pairs whose commands overlapped
  \* or of which a write or delete failed, fires, their answers, those lost
  \* with a reason
  told, unsure, fired, answered, lost,
  cmds, troubles, discs

rowVars == <<rows, told, unsure, cmds>>
userVars == <<connected, discs>>
fireVars == <<fire, fired, answered, lost>>
vars == <<rows, connected, handler, phase, mu, jobs, fire, told, unsure,
          fired, answered, lost, cmds, troubles, discs>>

Jobs == [id : Ids, pair : Pairs, kind : {"jql", "daily"}]
Updates == [op : {"save", "insert"}, pair : Pairs, at : Times] \union [op : {"creds"}, user : Users]
Fires == [row : Jobs, pc : {"take", "read", "search", "say"}, left : 0 .. Searches, ok : BOOLEAN]

ASSUME NullAssumption == NoTime \notin Times /\ Idle \notin Updates /\ NoFire \notin Fires

\* The last conjunct: a fire ends in a message, through each return of
\* executeReport, or is lost with its publish or the process.
TypeOK ==
  /\ rows \subseteq Rows /\ jobs \subseteq Jobs
  /\ connected \in [Users -> BOOLEAN]
  /\ handler \in [Handlers -> Updates \union {Idle}]
  /\ phase \in {"down", "loading", "running", "stopping"} /\ mu \in {"free", "start", "stop"}
  /\ mu = "start" <=> phase = "loading"
  /\ phase = "down" => jobs = {} /\ \A s \in Slots : fire[s] = NoFire
  /\ fire \in [Slots -> Fires \union {NoFire}]
  /\ told \in [Pairs -> Times \union {NoTime}] /\ unsure \subseteq Pairs
  /\ {fired, answered, lost} \subseteq 0 .. MaxFires
  /\ cmds \in 0 .. MaxCmds /\ troubles \in 0 .. MaxTroubles /\ discs \in 0 .. MaxDisc
  /\ fired = answered + lost + Cardinality({s \in Slots : fire[s] # NoFire})

Init ==
  /\ rows = {} /\ connected = [u \in Users |-> TRUE]
  /\ handler = [h \in Handlers |-> Idle]
  /\ phase = "down" /\ mu = "free" /\ jobs = {} /\ fire = [s \in Slots |-> NoFire]
  /\ told = [p \in Pairs |-> NoTime] /\ unsure = {}
  /\ fired = 0 /\ answered = 0 /\ lost = 0
  /\ cmds = 0 /\ troubles = 0 /\ discs = 0

Trouble == troubles < MaxTroubles /\ troubles' = troubles + 1

-----------------------------------------------------------------------------
(* The rows and the handlers that change them                              *)

\* Ids of no row, stored or loaded.
FreshIds == Ids \ ({r.id : r \in rows} \union {r.id : r \in jobs})

Create(p, kind, t) ==
  /\ Cardinality(rows) < MaxRows
  /\ LET id == CHOOSE i \in FreshIds : TRUE
     IN rows' = rows \union {[id |-> id, pair |-> p, kind |-> kind, at |-> t]}

\* Mutant of IsDaily: the filter lacks the user.
IsDailyOfChat(r, p) == r.pair[1] = p[1] /\ r.kind = "daily"

\* The filter of GetDaily, UpsertDaily and DeleteDaily.
IsDaily(r, p) == r.pair = p /\ r.kind = "daily"
Dailies(p) == {r \in rows : IsDaily(r, p)}

DeleteByChat(c) == rows' = {r \in rows : r.pair[1] # c}
DeleteByUserID(u) == rows' = {r \in rows : r.pair[2] # u}

\* A delete of these rows fails: MongoDB may have removed some, or all.
DeleteFails(rs) == Trouble /\ \E gone \in SUBSET rs : rows' = rows \ gone

\* The update of a daily that the upsert found.
Update(r, t) == rows' = (rows \ {r}) \union {[r EXCEPT !.at = t]}

\* Commands on pair p that begin while another handler saves its daily.
Busy(p) == \E h \in Handlers : handler[h] # Idle /\ handler[h].op # "creds" /\ handler[h].pair = p
Overlapped(ps) == {p \in ps : Busy(p)}

\* All rows of these pairs are gone: what was unsure of them is sure again.
CleanSlate(ps) == unsure' = (unsure \ ps) \union Overlapped(ps)

\* Handlers are alike: an update goes to this one of those without work.
NextHandler(h) == handler[h] = Idle /\ h = CHOOSE g \in Handlers : handler[g] = Idle

Command == cmds < MaxCmds /\ cmds' = cmds + 1

\* /schedule with a report of the user's own; an invalid one changes nothing,
\* and neither does a create that fails before MongoDB carries it out.
Schedule(p) ==
  /\ Command
  /\ Create(p, "jql", NoTime)
  /\ UNCHANGED <<handler, told, unsure, userVars, phase, mu, jobs, fireVars, troubles>>

\* /unschedule removes the rows of everybody in the chat.
Unschedule(c) ==
  /\ Command
  /\ DeleteByChat(c)
  /\ told' = [p \in Pairs |-> IF p[1] = c THEN NoTime ELSE told[p]]
  /\ CleanSlate({c} \X Users)
  /\ UNCHANGED <<handler, userVars, phase, mu, jobs, fireVars, troubles>>

\* It fails, and says so.
UnscheduleFails(c) ==
  /\ Command
  /\ DeleteFails({r \in rows : r.pair[1] = c})
  /\ unsure' = unsure \union {p \in {c} \X Users : Dailies(p)' # Dailies(p)}
  /\ UNCHANGED <<handler, told, userVars, phase, mu, jobs, fireVars>>

\* A preset time of the menu: the handler reads the present daily for its
\* time zone, which is the default one in every row the program can write.
PickTime(h, p, t) ==
  /\ NextHandler(h)
  /\ Command
  /\ handler' = [handler EXCEPT ![h] = [op |-> "save", pair |-> p, at |-> t]]
  /\ unsure' = unsure \union Overlapped({p})
  /\ UNCHANGED <<rows, told, userVars, phase, mu, jobs, fireVars, troubles>>

\* The answer the user sees.
Saved(h) ==
  /\ told' = [told EXCEPT ![handler[h].pair] = handler[h].at]
  /\ handler' = [handler EXCEPT ![h] = Idle]
  /\ UNCHANGED <<unsure, cmds, userVars, phase, mu, jobs, fireVars, troubles>>

\* MongoDB's upsert updates the row that it finds; when it finds none it
\* inserts one in a second step, and no unique index refuses a second row.
UpsertDaily(h) ==
  /\ handler[h] # Idle /\ handler[h].op = "save"
  /\ LET p == handler[h].pair
     IN \/ \E r \in Dailies(p) :
             /\ Update(r, handler[h].at)
             /\ Saved(h)
        \/ /\ Dailies(p) = {}
           /\ handler' = [handler EXCEPT ![h].op = "insert"]
           /\ UNCHANGED <<rowVars, userVars, phase, mu, jobs, fireVars, troubles>>

InsertDaily(h) ==
  /\ handler[h] # Idle /\ handler[h].op = "insert"
  /\ Create(handler[h].pair, "daily", handler[h].at)
  /\ Saved(h)

\* A read or write fails; the write may have been carried out all the same.
SaveFails(h) ==
  /\ handler[h] # Idle /\ handler[h].op \in {"save", "insert"}
  /\ Trouble
  /\ handler' = [handler EXCEPT ![h] = Idle]
  /\ LET p == handler[h].pair
         t == handler[h].at
     IN \/ UNCHANGED <<rows, unsure>>
        \/ /\ \/ handler[h].op = "save" /\ \E r \in Dailies(p) : Update(r, t)
              \/ handler[h].op = "insert" /\ Create(p, "daily", t)
           /\ unsure' = unsure \union {p}
  /\ UNCHANGED <<told, cmds, userVars, phase, mu, jobs, fireVars>>

\* The data of a button, split at ":".
Parts(button) == IF button = "dailysub_set" THEN 2 ELSE 1

DeleteDaily(p) == \/ \E r \in Dailies(p) : rows' = rows \ {r}
                  \/ Dailies(p) = {} /\ UNCHANGED rows

\* The menu reads the daily; its keyboard has "Unsubscribe" when there is one.
OffIsShown(p) == Dailies(p) # {}

\* "Unsubscribe": the router answers "Unknown action" to data of one part
\* before it looks at its table.
PressOff(p) ==
  /\ Command
  /\ OffIsShown(p)
  /\ IF Parts("dailysub_off") < 2 THEN UNCHANGED rows ELSE DeleteDaily(p)
  /\ UNCHANGED <<handler, told, unsure, userVars, phase, mu, jobs, fireVars, troubles>>

\* /disconnect removes the rows, then the credentials.  A delete that fails is
\* logged and the rest goes on.
Disconnect(h, u) ==
  /\ NextHandler(h) /\ discs < MaxDisc
  /\ \/ DeleteByUserID(u) /\ CleanSlate(Chats \X {u}) /\ UNCHANGED troubles
     \/ /\ DeleteFails({r \in rows : r.pair[2] = u})
        /\ unsure' = unsure \union {p \in Chats \X {u} : Busy(p) \/ Dailies(p)' # {}}
  /\ handler' = [handler EXCEPT ![h] = [op |-> "creds", user |-> u]]
  /\ told' = [p \in Pairs |-> IF p[2] = u THEN NoTime ELSE told[p]]
  /\ discs' = discs + 1
  /\ UNCHANGED <<connected, cmds, phase, mu, jobs, fireVars>>

ClearCredentials(h) ==
  /\ handler[h] # Idle /\ handler[h].op = "creds"
  /\ connected' = [connected EXCEPT ![handler[h].user] = FALSE]
  /\ handler' = [handler EXCEPT ![h] = Idle]
  /\ UNCHANGED <<rowVars, discs, phase, mu, jobs, fireVars, troubles>>

\* The user is told that the disconnect failed; the rows are gone by then.
ClearFails(h) ==
  /\ handler[h] # Idle /\ handler[h].op = "creds"
  /\ Trouble
  /\ \/ connected' = [connected EXCEPT ![handler[h].user] = FALSE]
     \/ UNCHANGED connected
  /\ handler' = [handler EXCEPT ![h] = Idle]
  /\ unsure' = unsure \union Chats \X {handler[h].user}
  /\ UNCHANGED <<rows, told, cmds, discs, phase, mu, jobs, fireVars>>

Connect(u) ==
  /\ ~connected[u]
  /\ connected' = [connected EXCEPT ![u] = TRUE]
  /\ UNCHANGED <<rowVars, discs, handler, phase, mu, jobs, fireVars, troubles>>

-----------------------------------------------------------------------------
(* scheduler-svc                                                           *)

\* What a job uses of its row.
JobOf(r) == [id |-> r.id, pair |-> r.pair, kind |-> r.kind]

\* Start makes the context of this life and takes the lock for the load.
Start ==
  /\ phase = "down"
  /\ phase' = "loading" /\ mu' = "start"
  /\ UNCHANGED <<rowVars, userVars, handler, jobs, fireVars, troubles>>

LoadSchedules ==
  /\ phase = "loading"
  /\ mu' = "free"
  /\ \/ phase' = "running" /\ jobs' = {JobOf(r) : r \in rows} /\ UNCHANGED troubles
     \/ phase' = "down" /\ Trouble /\ UNCHANGED jobs
  /\ UNCHANGED <<rowVars, userVars, handler, fireVars>>

\* One search for a report, three for a daily.
SearchesOf(r) == IF r.kind = "daily" THEN Searches ELSE 1

\* A cron expression is due; several fires of a job may overlap.
Fire(s, r) ==
  /\ phase = "running" /\ fire[s] = NoFire /\ fired < MaxFires
  /\ fire' = [fire EXCEPT ![s] =
       [row |-> r, pc |-> "take", left |-> SearchesOf(r), ok |-> FALSE]]
  /\ fired' = fired + 1
  /\ UNCHANGED <<rowVars, userVars, handler, phase, mu, jobs, answered, lost, troubles>>

\* The context that a stop cancels.
Cancelled == phase = "stopping"

At(s, pc) == fire[s] # NoFire /\ fire[s].pc = pc
Moves(s, f) == fire' = [fire EXCEPT ![s] = f] /\ UNCHANGED <<fired, lost>>
Beside == UNCHANGED <<rowVars, userVars, handler, phase, mu, jobs>>

\* A job takes the lock to read the context of this life.
TakeContext(s) ==
  /\ At(s, "take") /\ mu = "free"
  /\ Moves(s, [fire[s] EXCEPT !.pc = "read"])
  /\ Beside /\ UNCHANGED <<answered, troubles>>

\* An answer: a notice or a report is handed to the stream, which does not
\* look at the context.
Say(s) == answered' = answered + 1 /\ Moves(s, NoFire)

UserOf(s) == fire[s].row.pair[2]

\* ScheduleDue is published and the user read.  No user, a failed read and a
\* cancelled one all end in the notice that the user is not connected.
ReadUser(s) ==
  /\ At(s, "read")
  /\ \/ Cancelled /\ Say(s) /\ UNCHANGED troubles
     \/ ~Cancelled /\ Trouble /\ Say(s)
     \/ ~Cancelled /\ ~connected[UserOf(s)] /\ Say(s) /\ UNCHANGED troubles
     \/ /\ ~Cancelled /\ connected[UserOf(s)]
        /\ Moves(s, [fire[s] EXCEPT !.pc = "search"])
        /\ UNCHANGED <<answered, troubles>>
  /\ Beside

\* Without a token no search succeeds; the searches of a daily go on after
\* one that failed.
Search(s) ==
  /\ At(s, "search") /\ fire[s].left > 0
  /\ \/ /\ ~Cancelled /\ connected[UserOf(s)]
        /\ Moves(s, [fire[s] EXCEPT !.left = @ - 1, !.ok = TRUE])
        /\ UNCHANGED troubles
     \/ /\ Cancelled \/ ~connected[UserOf(s)]
        /\ Moves(s, [fire[s] EXCEPT !.left = @ - 1])
        /\ UNCHANGED troubles
     \/ /\ Trouble
        /\ Moves(s, [fire[s] EXCEPT !.left = @ - 1])
  /\ Beside /\ UNCHANGED answered

\* The report when a search succeeded, the notice that it failed otherwise.
Report(s) == Say(s)

ExecuteReport(s) ==
  /\ At(s, "search") /\ fire[s].left = 0
  /\ Report(s)
  /\ Beside /\ UNCHANGED troubles

\* The publish of any of the answers fails: it is logged.
SendFails(s) ==
  /\ At(s, "read") \/ (At(s, "search") /\ fire[s].left = 0)
  /\ Trouble
  /\ fire' = [fire EXCEPT ![s] = NoFire] /\ lost' = lost + 1
  /\ Beside /\ UNCHANGED <<fired, answered>>

\* Mutant of CronStop: cron is stopped under the lock, the way Reload does it.
CronStopLocked == phase' = "stopping" /\ mu' = "stop"

\* The context ends: no more fires, the running ones are waited for.
CronStop == phase' = "stopping" /\ UNCHANGED mu

Stop ==
  /\ phase = "running" /\ Trouble
  /\ CronStop
  /\ UNCHANGED <<rowVars, userVars, handler, jobs, fireVars>>

\* Mutant of Drained: the context that cron.Stop returns is not waited for.
DrainedAtOnce == phase = "stopping"

Drained == phase = "stopping" /\ \A s \in Slots : fire[s] = NoFire

Stopped ==
  /\ Drained
  /\ phase' = "down" /\ mu' = "free" /\ jobs' = {}
  /\ UNCHANGED <<rowVars, userVars, handler, fireVars, troubles>>

Crash ==
  /\ phase # "down" /\ Trouble
  /\ phase' = "down" /\ mu' = "free" /\ jobs' = {}
  /\ lost' = lost + Cardinality({s \in Slots : fire[s] # NoFire})
  /\ fire' = [s \in Slots |-> NoFire]
  /\ UNCHANGED <<rowVars, userVars, handler, fired, answered>>

Job(s) == TakeContext(s) \/ ReadUser(s) \/ Search(s) \/ ExecuteReport(s) \/ SendFails(s)

Next ==
  \/ \E p \in Pairs : Schedule(p) \/ PressOff(p)
  \/ \E c \in Chats : Unschedule(c) \/ UnscheduleFails(c)
  \/ \E h \in Handlers :
       \/ \E p \in Pairs, t \in Times : PickTime(h, p, t)
       \/ UpsertDaily(h) \/ InsertDaily(h) \/ SaveFails(h)
       \/ \E u \in Users : Disconnect(h, u)
       \/ ClearCredentials(h) \/ ClearFails(h)
  \/ \E u \in Users : Connect(u)
  \/ Start \/ LoadSchedules \/ Stop \/ Stopped \/ Crash
  \/ \E s \in Slots : (\E r \in jobs : Fire(s, r)) \/ Job(s)

\* Goroutines of a running process go on.
Fairness == WF_vars(LoadSchedules) /\ WF_vars(Stopped) /\ \A s \in Slots : WF_vars(Job(s))

Spec == Init /\ [][Next]_vars /\ Fairness

-----------------------------------------------------------------------------
(* Properties                                                              *)

\* A user has the daily he was last told of and no other one, in a chat with
\* other users too, unless commands on it overlapped, or a write or delete of
\* it failed, after the last /unschedule or /disconnect that removed all rows
\* (dailySubSave, UpsertDaily: the index that would refuse a second row is
\* missing; handleDisconnect goes on after a delete that failed, and run again
\* it converges on a clean state).
DailyIsAsPicked ==
  \A p \in Pairs \ unsure :
    IF told[p] = NoTime THEN Dailies(p) = {}
    ELSE \E r \in rows : Dailies(p) = {r} /\ r.at = told[p]

\* A stop ends: the running jobs it waits for get the lock and finish.
ShutdownEnds == phase = "stopping" ~> phase = "down"

\* The button "Unsubscribe" takes the daily away (handler_dailysub.go:106-115).
OffRemoves == [][\A p \in Pairs \ unsure : PressOff(p) => Dailies(p)' = {}]_vars
=============================================================================
