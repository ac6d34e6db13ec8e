---------------------------- MODULE CalendarPoller ----------------------------
(***************************************************************************)
(* The calendar poller of cmd/bot and one user's calendar.  Every interval *)
(* it fetches the feed, expands its events into instances, stores a row    *)
(* per instance and publishes "new", "changed" and "starts soon" messages. *)
(* Meanwhile the user changes the settings, the owner of the feed its      *)
(* events, fetches, writes and sends fail, and the process dies.           *)
(*                                                                         *)
(* Time is a number of poll intervals.  A cycle goes through all users one *)
(* after the other, so it may last for any number of intervals; a tick     *)
(* that comes meanwhile waits, a second one is dropped.  The guard against *)
(* repeats holds for three batch windows, which are set independently of   *)
(* the interval: a slot may have lapsed whenever the guard is asked.       *)
(***************************************************************************)
EXTENDS Naturals, FiniteSets

CONSTANTS
  Urls, NoUrl,
  Uids,         \* event identifiers
  Versions,     \* what an event says: summary, place, end, sequence
  Feeds,        \* what a calendar may hold: sets of VEVENTs
  Lookahead,    \* instances are expanded this far
  Horizon,      \* an instance this close is announced as new
  Inputs,       \* reminder lead times the user asks for; 0 is the default
  MaxLead,      \* the longest that is taken
  DefaultLead,
  Lookback,     \* rows this old are dropped
  NoRow, NoInst,
  MaxTime,      \* bound: ticks
  MaxOps,       \* bound: settings changed by the user
  MaxEdits,     \* bound: edits of the feeds
  MaxTroubles   \* bound: failures and crashes

Times == 1 .. MaxTime + Lookahead
Keys == Uids \X Times

\* A VEVENT: a master with its occurrences and exceptions, or, with a
\* recurrence id rid # 0, the override of one occurrence.
Vevents == [uid : Uids, occ : SUBSET Times, ex : SUBSET Times, rid : Times \union {0}, ver : Versions]
Instances == [uid : Uids, start : Times, ver : Versions]

\* An override, as every VEVENT the parser keeps, has a start.
ASSUME FeedsAssumption ==
  /\ Feeds \subseteq SUBSET Vevents
  /\ \A f \in Feeds : \A o \in f : o.rid # 0 => o.occ # {}
ASSUME NoUrlAssumption == NoUrl \notin Urls
ASSUME NoRowAssumption == NoRow \notin [ver : Versions, reminded : BOOLEAN]
ASSUME TimesAssumption ==
  /\ {MaxTime, Lookahead, Horizon, DefaultLead, MaxLead, Lookback} \subseteq Nat /\ MaxTime > 0
  /\ Inputs \subseteq Nat
ASSUME BoundsAssumption == {MaxOps, MaxEdits, MaxTroubles} \subseteq Nat

VARIABLES
  now,
  feed,     \* what each URL serves
  user,     \* the calendar settings: url, enabled, fetched, lead (0: the default)
  rows,     \* calendar_events: a row per instance
  \* the process
  up,
  polled,   \* the last tick is taken up
  pc,
  u,        \* the user as the cycle read it
  at,       \* the time the cycle took for its decisions
  fetched,  \* the events of this cycle
  todo,     \* instances still to handle
  cur,      \* the instance at hand and what its upsert found
  slots,    \* the guard: messages whose slot may still be in use
  \* history; known: what the calendar held when its URL was set and holds
  \* since; news: what was announced of it; lost: the slots of messages that
  \* were not sent; excused: occurrences a cycle need not remind of; swallowed:
  \* instances whose last message a slot of an earlier one held back
  news, reminders, heard, known, lost, excused, swallowed, wiped, raced, ops, edits, troubles

feedVars == <<feed, edits>>
userVars == <<user, wiped, known, ops>>
procVars == <<up, polled, pc, u, at, fetched, todo, cur>>
guardVars == <<slots, lost>>
toldVars == <<news, reminders, heard, swallowed>>
msgVars == <<slots, lost, news, reminders, heard, swallowed, excused>>
vars == <<now, feed, user, rows, up, polled, pc, u, at, fetched, todo, cur, slots, news, reminders,
          heard, known, lost, excused, swallowed, wiped, raced, ops, edits, troubles>>

Users == [url : Urls \union {NoUrl}, enabled : BOOLEAN, fetched : BOOLEAN, lead : {m \in Inputs : m <= MaxLead} \union {0}]
Fresh == [url |-> NoUrl, enabled |-> FALSE, fetched |-> FALSE, lead |-> 0]
Kinds == {"new", "changed", "reminder"}
Telling == {"tell_new", "tell_changed", "tell_reminder"}

TypeOK ==
  /\ now \in 1 .. MaxTime
  /\ feed \in [Urls -> Feeds]
  /\ user \in Users /\ u \in Users
  /\ rows \in [Keys -> [ver : Versions, reminded : BOOLEAN] \union {NoRow}]
  /\ up \in BOOLEAN /\ polled \in BOOLEAN
  /\ pc \in {"idle", "fetch", "next", "new", "changed", "remind", "mark"} \union Telling
  /\ at \in 0 .. MaxTime
  /\ fetched \in Feeds \union {{}} /\ todo \subseteq Instances
  /\ cur = NoInst \/ cur \in [inst : Instances, changed : BOOLEAN, reminded : BOOLEAN]
  /\ slots \subseteq Kinds \X Keys /\ lost \subseteq slots
  /\ news \subseteq Keys /\ known \subseteq Keys
  /\ excused \subseteq Keys /\ swallowed \subseteq Keys
  /\ reminders \in [Keys -> 0 .. 2] /\ heard \in [Keys -> Versions \union {NoRow}]
  /\ wiped \in BOOLEAN /\ raced \in BOOLEAN
  /\ ops \in 0 .. MaxOps /\ edits \in 0 .. MaxEdits /\ troubles \in 0 .. MaxTroubles

Init ==
  /\ now = 1 /\ feed \in [Urls -> Feeds] /\ user = Fresh
  /\ rows = [k \in Keys |-> NoRow]
  /\ up = TRUE /\ polled = FALSE /\ pc = "idle" /\ u = Fresh /\ at = 0
  /\ fetched = {} /\ todo = {} /\ cur = NoInst /\ slots = {} /\ lost = {}
  /\ news = {} /\ reminders = [k \in Keys |-> 0] /\ heard = [k \in Keys |-> NoRow]
  /\ known = {} /\ excused = {} /\ swallowed = {} /\ wiped = FALSE /\ raced = FALSE
  /\ ops = 0 /\ edits = 0 /\ troubles = 0

-----------------------------------------------------------------------------
(* Expanding a feed                                                        *)

\* parse.go keeps the events that have a UID and a start; masters and overrides.
Masters(evs) == {e \in evs : e.rid = 0}
Overrides(evs) == {e \in evs : e.rid # 0}

\* The occurrences of a master in a window, its exceptions left out.
Expand(e, from, to) ==
  {[uid |-> e.uid, start |-> t, ver |-> e.ver] : t \in {s \in e.occ \ e.ex : from <= s /\ s <= to}}

\* An instance at the recurrence id of an override becomes the override.
ApplyOverrides(insts, ovs) ==
  {i \in insts : ~\E o \in ovs : o.uid = i.uid /\ o.rid = i.start} \union
  {[uid |-> o.uid, start |-> CHOOSE t \in o.occ : TRUE, ver |-> o.ver] :
     o \in {p \in ovs : \E i \in insts : p.uid = i.uid /\ p.rid = i.start}}

InstancesOf(evs, from, to) ==
  ApplyOverrides(UNION {Expand(e, from, to) : e \in Masters(evs)}, Overrides(evs))

KeyOf(i) == <<i.uid, i.start>>
KeysIn(evs, t) == {KeyOf(i) : i \in InstancesOf(evs, t, t + Lookahead)}

-----------------------------------------------------------------------------
(* The user, the owner of the feeds, time                                  *)

Set(newUser) ==
  /\ ops < MaxOps
  /\ ops' = ops + 1
  /\ user' = newUser
  /\ UNCHANGED <<now, feedVars, procVars, guardVars, reminders, heard, excused, swallowed, troubles>>

\* The URL answers with a calendar that has events.
Serves(url) == feed[url] # {}

\* Mutant of WithURL: the mark of the first fetch is kept.
WithURLKept(url) == [user EXCEPT !.url = url, !.enabled = @ \/ user.url = NoUrl]

WithURL(url) == [user EXCEPT !.url = url, !.fetched = FALSE, !.enabled = @ \/ user.url = NoUrl]

\* The URL is tried before it is stored; notifications are switched on with
\* the first one only.
SetURL(url) ==
  /\ Serves(url)
  /\ Set(WithURL(url))
  /\ known' = KeysIn(feed[url], now)
  /\ raced' = (pc # "idle")
  /\ news' = {}
  /\ UNCHANGED <<rows, wiped>>

\* The settings are cleared, then the rows, unless that fails.
Remove ==
  /\ Set(Fresh)
  /\ rows' \in {rows, [k \in Keys |-> NoRow]}
  /\ wiped' = TRUE /\ known' = {}
  /\ UNCHANGED <<news, raced>>

Toggle == Set([user EXCEPT !.enabled = ~@]) /\ UNCHANGED <<rows, wiped, known, news, raced>>

\* Mutant of LeadAllowed: an off-by-one.
LeadAllowedLong(m) == m <= MaxLead + 1

LeadAllowed(m) == m <= MaxLead

SetLead(m) == LeadAllowed(m) /\ Set([user EXCEPT !.lead = m]) /\ UNCHANGED <<rows, wiped, known, news, raced>>

Edit(url) ==
  /\ edits < MaxEdits
  /\ edits' = edits + 1
  /\ \E f \in Feeds \ {feed[url]} :
       /\ feed' = [feed EXCEPT ![url] = f]
       /\ known' = IF url = user.url THEN known \intersect KeysIn(f, now) ELSE known
  /\ UNCHANGED <<now, user, wiped, ops, rows, procVars, msgVars, raced, troubles>>

\* The ticker drops a tick that finds another one waiting.
Tick ==
  /\ now < MaxTime
  /\ now' = now + 1
  /\ polled' = FALSE
  /\ known' = IF user.url = NoUrl THEN known ELSE known \intersect KeysIn(feed[user.url], now')
  /\ UNCHANGED <<feedVars, user, wiped, ops, rows, up, pc, u, at, fetched, todo, cur,
                 msgVars, raced, troubles>>

-----------------------------------------------------------------------------
(* One cycle                                                               *)

EndPoll == pc' = "idle" /\ u' = Fresh /\ at' = 0 /\ fetched' = {} /\ todo' = {} /\ cur' = NoInst

Listed == user.url # NoUrl /\ user.enabled

\* pollAll lists the users with a calendar and notifications on.  When it
\* cannot, that is a tick not taken up.
Poll ==
  /\ up /\ pc = "idle" /\ ~polled
  /\ polled' = TRUE /\ excused' = {}
  /\ IF Listed
     THEN u' = user /\ pc' = "fetch"
     ELSE UNCHANGED <<u, pc>>
  /\ UNCHANGED <<now, feedVars, userVars, rows, up, at, fetched, todo, cur,
                 guardVars, toldVars, raced, troubles>>

\* The user's document is marked, whatever its URL is now.
MarkFetched == user' = [user EXCEPT !.fetched = TRUE]

\* Nothing came or nothing could be parsed; the attempt counts as a fetch,
\* unless marking it fails too.
FetchFails ==
  /\ pc = "fetch" /\ troubles < MaxTroubles
  /\ troubles' = troubles + 1
  /\ MarkFetched \/ UNCHANGED user
  /\ EndPoll
  /\ UNCHANGED <<now, feedVars, wiped, known, ops, rows, up, polled, msgVars, raced>>

Fetch ==
  /\ pc = "fetch"
  /\ fetched' = feed[u.url] /\ at' = now
  /\ todo' = InstancesOf(feed[u.url], now, now + Lookahead)
  /\ pc' = "next"
  /\ UNCHANGED <<now, feedVars, userVars, rows, up, polled, u, cur, msgVars, raced, troubles>>

First == ~u.fetched
Lead == IF u.lead = 0 THEN DefaultLead ELSE u.lead

\* The summary, times or place differ, or the revision is a later one.
Differs(k, i) == rows[k].ver # i.ver

UpsertState(i) ==
  LET k == KeyOf(i) IN
  /\ pc = "next" /\ i \in todo
  /\ todo' = todo \ {i}
  /\ cur' = [inst |-> i, changed |-> rows[k] # NoRow /\ Differs(k, i),
             reminded |-> rows[k] # NoRow /\ rows[k].reminded]
  /\ rows' = [rows EXCEPT ![k] = [ver |-> i.ver, reminded |-> rows[k] # NoRow /\ rows[k].reminded]]
  /\ pc' = IF rows[k] = NoRow THEN "new" ELSE "changed"
  /\ UNCHANGED <<now, feedVars, userVars, up, polled, u, at, fetched, msgVars, raced, troubles>>

UpsertFails(i) ==
  /\ pc = "next" /\ i \in todo /\ troubles < MaxTroubles
  /\ troubles' = troubles + 1
  /\ todo' = todo \ {i}
  /\ excused' = excused \union {KeyOf(i)}
  /\ UNCHANGED <<now, feedVars, userVars, rows, up, polled, pc, u, at, fetched, cur,
                 guardVars, toldVars, raced>>

Key == KeyOf(cur.inst)

Goto(next) ==
  /\ pc' = next
  /\ cur' = IF next = "next" THEN NoInst ELSE cur
  /\ UNCHANGED <<now, feedVars, userVars, up, polled, u, at, fetched, todo, raced>>

\* The slot of an earlier message is still in use, unless it has lapsed.
Held(kind) == <<kind, Key>> \in slots

\* A message takes its slot before it is sent: a free one, or one that lapsed.
Claims(kind, next) ==
  /\ slots' = slots \union {<<kind, Key>>} /\ lost' = lost \ {<<kind, Key>>}
  /\ Goto(next)
  /\ UNCHANGED <<toldVars, excused, rows, troubles>>

\* An earlier message holds the slot: nothing is sent, ever.
Swallows(kind) ==
  /\ Held(kind)
  /\ swallowed' = swallowed \union {Key}
  /\ Goto("remind")
  /\ UNCHANGED <<guardVars, news, reminders, heard, excused, rows, troubles>>

\* Redis does not answer, whether the slot was taken or not: nothing is sent.
GuardFails(kind, next) ==
  /\ troubles < MaxTroubles
  /\ troubles' = troubles + 1
  /\ \/ UNCHANGED guardVars
     \/ slots' = slots \union {<<kind, Key>>} /\ lost' = lost \union {<<kind, Key>>}
  /\ excused' = IF kind = "reminder" THEN excused \union {Key} ELSE excused
  /\ Goto(next)
  /\ UNCHANGED <<toldVars, rows>>

\* The guard is asked for a slot.
Asks(kind, tell, next) == Claims(kind, tell) \/ GuardFails(kind, next)

Passes(next) == Goto(next) /\ UNCHANGED <<msgVars, rows, troubles>>

InHorizon == at < cur.inst.start /\ cur.inst.start - at <= Horizon

\* The message, or the rule that there is none, leaves the user with this version.
Tells == heard' = [heard EXCEPT ![Key] = cur.inst.ver] /\ swallowed' = swallowed \ {Key}

\* A created instance inside the horizon is announced, one beyond it is not.
New ==
  /\ pc = "new"
  /\ IF ~First /\ InHorizon
     THEN Asks("new", "tell_new", "remind") \/ Swallows("new")
     ELSE /\ Tells
          /\ Goto("remind")
          /\ UNCHANGED <<guardVars, news, reminders, excused, rows, troubles>>

\* Mutant of Changed: a change is told of instances near enough only.
ChangedNear ==
  /\ pc = "changed"
  /\ IF cur.changed /\ InHorizon
     THEN Asks("changed", "tell_changed", "remind") \/ Swallows("changed")
     ELSE Passes("remind")

Changed ==
  /\ pc = "changed"
  /\ IF cur.changed
     THEN Asks("changed", "tell_changed", "remind") \/ Swallows("changed")
     ELSE Passes("remind")

\* Mutant of Due: only the first cycle of the lead time counts.
DueOnce(start) == at + Lead = start + 1

Due(start) == start < at + Lead /\ at < start

\* Mutant of PrevSent: the guard against repeats is relied on.
PrevSentNot == FALSE

PrevSent == cur.reminded

\* The slot of a reminder that was not sent keeps another one from being sent.
Withheld ==
  /\ Held("reminder")
  /\ excused' = IF <<"reminder", Key>> \in lost THEN excused \union {Key} ELSE excused
  /\ Goto("next")
  /\ UNCHANGED <<guardVars, toldVars, rows, troubles>>

Remind ==
  /\ pc = "remind"
  /\ IF Due(cur.inst.start) /\ ~PrevSent
     THEN Asks("reminder", "tell_reminder", "next") \/ Withheld
     ELSE Passes("next")

Reminds == reminders' = [reminders EXCEPT ![Key] = IF @ = 2 THEN 2 ELSE @ + 1]

\* The kind of message at hand, and what it does once it is sent.
Kind ==
  CASE pc = "tell_new" -> "new"
    [] pc = "tell_changed" -> "changed"
    [] OTHER -> "reminder"

Told ==
  \/ pc = "tell_new" /\ news' = news \union ({Key} \intersect known) /\ Tells /\ UNCHANGED reminders
  \/ pc = "tell_changed" /\ Tells /\ UNCHANGED <<news, reminders>>
  \/ pc = "tell_reminder" /\ Reminds /\ UNCHANGED <<news, heard, swallowed>>

Send ==
  /\ pc \in Telling
  /\ Told
  /\ Goto(IF Kind = "reminder" THEN "mark" ELSE "remind")
  /\ UNCHANGED <<guardVars, excused, rows, troubles>>

\* A send that fails; it may have been carried out all the same.
SendFails ==
  /\ pc \in Telling /\ troubles < MaxTroubles
  /\ troubles' = troubles + 1
  /\ Told \/ UNCHANGED toldVars
  /\ lost' = lost \union ({<<Kind, Key>>} \intersect slots)
  /\ excused' = IF Kind = "reminder" THEN excused \union {Key} ELSE excused
  /\ Goto(IF Kind = "reminder" THEN "next" ELSE "remind")
  /\ UNCHANGED <<slots, rows>>

\* The mark finds no row if the rows were removed, or it fails.
MarkReminderSent ==
  /\ pc = "mark"
  /\ \/ /\ rows' = IF rows[Key] = NoRow THEN rows ELSE [rows EXCEPT ![Key].reminded = TRUE]
        /\ UNCHANGED troubles
     \/ /\ troubles < MaxTroubles
        /\ troubles' = troubles + 1
        /\ UNCHANGED rows
  /\ Goto("next")
  /\ UNCHANGED msgVars

DropOldRows == rows' = [k \in Keys |-> IF k[2] + Lookback < at THEN NoRow ELSE rows[k]]

\* Either may fail, which is ignored.
Finish ==
  /\ pc = "next" /\ todo = {}
  /\ \/ DropOldRows /\ MarkFetched /\ UNCHANGED troubles
     \/ /\ troubles < MaxTroubles
        /\ troubles' = troubles + 1
        /\ DropOldRows \/ UNCHANGED rows
        /\ MarkFetched \/ UNCHANGED user
  /\ EndPoll
  /\ UNCHANGED <<now, feedVars, wiped, known, ops, up, polled, msgVars, raced>>

\* A slot may outlive the process: it is in memory or in Redis.  That of a
\* message about to be sent is taken for nothing.
Crash ==
  /\ up /\ troubles < MaxTroubles
  /\ troubles' = troubles + 1
  /\ up' = FALSE /\ polled' = FALSE /\ EndPoll
  /\ slots' \in {{}, slots}
  /\ lost' = slots' \intersect (lost \union (IF pc \in Telling THEN {<<Kind, Key>>} ELSE {}))
  /\ UNCHANGED <<now, feedVars, userVars, rows, toldVars, excused, raced>>

Restart ==
  /\ ~up
  /\ up' = TRUE
  /\ UNCHANGED <<now, feedVars, userVars, rows, polled, pc, u, at, fetched, todo, cur, msgVars, raced, troubles>>

Next ==
  \/ \E url \in Urls : SetURL(url) \/ Edit(url)
  \/ Remove \/ Toggle \/ \E m \in Inputs : SetLead(m)
  \/ Tick \/ Poll \/ FetchFails \/ Fetch
  \/ \E i \in todo : UpsertState(i) \/ UpsertFails(i)
  \/ New \/ Changed \/ Remind \/ Send \/ SendFails \/ MarkReminderSent \/ Finish
  \/ Crash \/ Restart

Spec == Init /\ [][Next]_vars

-----------------------------------------------------------------------------
(* Properties                                                              *)

CycleEnds == pc = "next" /\ todo = {}

\* Within the lead time, and within what is expanded: a longer lead time
\* is cut off by the look-ahead.
Near(t) == at < t /\ t < at + Lead /\ t <= at + Lookahead

\* No calendar gives two VEVENTs of one uid the same start, as an override
\* moved onto another occurrence does: they would share a row and its slot.
Single(k) ==
  \A f \in Feeds : \A d, e \in f :
    d.uid = k[1] /\ e.uid = k[1] /\ k[2] \in d.occ \intersect e.occ => d = e

\* An event that was in the calendar when its URL was set is announced as new
\* only if a fetch, a write or a send failed or the process died, or a cycle
\* with the old settings was under way: the rule of the first fetch in pollUser.
BackfillNeedsFailure == news # {} => troubles > 0 \/ raced

\* A cycle reminds of every occurrence, not moved by an override, that starts
\* within the lead time and the look-ahead, unless its upsert, guard or send
\* failed or an earlier reminder of it took the slot and was not sent: its
\* guard or send failed, or the process died before it.
OwnTimeIsReminded ==
  CycleEnds =>
    \A e \in Masters(fetched) : \A t \in e.occ \ e.ex :
      Near(t) /\ ~(\E o \in Overrides(fetched) : o.uid = e.uid /\ o.rid = t)
        => reminders[<<e.uid, t>>] > 0 \/ <<e.uid, t>> \in excused

\* A reminder comes twice only after a failure or a crash, or when the user
\* removed the calendar and with it the memory of it.
RepeatNeedsTrouble ==
  (\E k \in Keys : reminders[k] > 1) => troubles > 0 \/ wiped

\* Without failures the user has been told, or by design not told, of the
\* version of every event that the rows hold, unless the slot of an earlier
\* message held the last one back.
RowsAreHeard ==
  troubles = 0 /\ (CycleEnds \/ pc = "idle") =>
    \A k \in Keys : rows[k] # NoRow => heard[k] = rows[k].ver \/ k \in swallowed

\* A change of a known event is told ("Event changed" when DTSTART, SUMMARY or
\* SEQUENCE move on a known UID, says the head of poller.go).  Not so while the
\* slot of the change before it is in use: the row is updated all the same.
ChangesAreTold ==
  troubles = 0 /\ (CycleEnds \/ pc = "idle") =>
    \A k \in Keys : rows[k] # NoRow /\ Single(k) => heard[k] = rows[k].ver

\* A cycle reminds of every override that starts within the lead time: an
\* instance that crosses into the lead time is reminded of (poller.go).
MovedIsReminded ==
  CycleEnds /\ troubles = 0 =>
    \A o \in Overrides(fetched) : \A t \in o.occ :
      Near(t) => reminders[<<o.uid, t>>] > 0
=============================================================================
