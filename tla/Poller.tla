------------------------------- MODULE Poller -------------------------------
(***************************************************************************)
(* The subscription poller (internal/poller) with the notification guard   *)
(* of internal/notifydedup, which it shares with webhook-svc: one Redis,   *)
(* but slots of their own (the poller claims an issue's, webhook-svc an    *)
(* issue and event type's).  Each cycle searches                           *)
(* Jira for every subscription, merges what changed into one pending       *)
(* notification per chat and issue, and flushes the notifications that     *)
(* waited for the batch window.  Changes keep arriving between any two     *)
(* steps; searches, writes and sends fail; the process crashes or stops.   *)
(*                                                                         *)
(* One user's subscriptions are modelled (pollUser).  The users of a cycle *)
(* are polled one after the other, each with a budget of its own, so any   *)
(* time may pass before, between and after the steps of this user's turn,  *)
(* and a cycle may take longer than POLL_INTERVAL.  Time is a clock of     *)
(* ticks; a timestamp is the tick it falls in, so what happened during the *)
(* tick of a poll counts as after it.  An event is a changelog entry of    *)
(* somebody else on the issue's one field, or a comment that mentions the  *)
(* user (for the other subscriptions, an update without a changelog        *)
(* entry).  Jira is external: a search sees the events so far, lists the   *)
(* issues by the time of their last event and the changelog oldest first.  *)
(***************************************************************************)
EXTENDS Integers, FiniteSets, Sequences

CONSTANTS
  Subs,         \* subscriptions of the user
  MentionSubs,  \* those of type my_mentions
  Chats,
  ChatOf,       \* the chat of a subscription
  Issues,       \* every subscription matches every issue
  Interval,     \* POLL_INTERVAL
  BatchWindow,  \* BATCH_WINDOW
  Minute,       \* precision of a JQL date
  PageSize,     \* pollMaxResults
  MaxClock,     \* bound: ticks
  MaxTrouble,   \* bound: ticks of a behaviour with a failure
  MaxStretch,   \* bound: ticks from a cycle's start to the next one's
  MaxEvents,    \* bound: events
  MaxFailures   \* bound: failures, stops and crashes

ASSUME SubsAssumption == MentionSubs \subseteq Subs /\ ChatOf \in [Subs -> Chats]
ASSUME TicksAssumption ==
  /\ {Interval, BatchWindow, Minute, PageSize} \subseteq Nat \ {0}
  /\ {MaxClock, MaxTrouble, MaxStretch, MaxEvents, MaxFailures} \subseteq Nat

\* The life of a guard slot.
GuardTTL == 3 * BatchWindow

Clock == 0 .. MaxClock
Ids == 1 .. MaxEvents
Never == -1
Kinds == {"change", "mention"}
EventRecord == [issue : Issues, kind : Kinds, at : Clock, to : {0, 1}]

\* A pending notification: when it was created, whether a mention is in it,
\* the merged change of the field (from = to is also "no change"), and the
\* events it reports.
Notice == [chat : Chats, issue : Issues, first : Clock, mention : BOOLEAN,
           changed : BOOLEAN, from : {0, 1}, to : {0, 1}, evs : SUBSET Ids]

\* The keys of the guard: the poller asks for the issue, webhook-svc for the
\* issue with the event type.
Slots == Chats \X Issues \X {"poller", "webhook"}

VARIABLES
  clock,
  events,    \* Jira: what happened, in order
  \* MongoDB
  polled,    \* last_polled_at; Never: absent, as SubscriptionRepo.Create leaves it
  \* subscription-svc
  phase,     \* "down", "wait", "poll", "flush" or "stop"
  begun,     \* start of the cycle
  todo,      \* subscriptions the cycle has still to search
  notified,  \* chat and issue pairs seen by this pollUser
  pending,   \* Poller.pending, a set of notices
  ready,     \* notices taken for sending
  \* shared guard
  guard,     \* expiry of each slot
  \* history
  reported,  \* times the poller reported each event to each chat
  excused,   \* events a known weakness dropped for a subscription
  told,      \* events webhook-svc reported to each chat
  longest,   \* the longest time from a cycle's start to the next one's
  failures   \* failures, stops and crashes so far

jira == <<clock, events>>
cycle == <<phase, begun, todo, notified>>
notices == <<pending, ready>>
history == <<reported, excused, told, longest, failures>>
vars == <<clock, events, polled, phase, begun, todo, notified, pending,
          ready, guard, reported, excused, told, longest, failures>>

TypeOK ==
  /\ clock \in Clock
  /\ events \in Seq(EventRecord) /\ Len(events) <= MaxEvents
  /\ polled \in [Subs -> Clock \union {Never}]
  /\ phase \in {"down", "wait", "poll", "flush", "stop"}
  /\ begun \in Clock
  /\ todo \subseteq Subs /\ (todo # {} => phase = "poll")
  /\ notified \subseteq Chats \X Issues
  /\ pending \subseteq Notice
  /\ \A m, n \in pending : m.chat = n.chat /\ m.issue = n.issue => m = n
  /\ ready \subseteq Notice /\ (ready # {} <=> phase \in {"flush", "stop"})
  /\ guard \in [Slots -> 0 .. MaxClock + GuardTTL]
  /\ reported \in [Chats -> [Ids -> Nat]]
  /\ excused \in [Subs -> SUBSET Ids]
  /\ told \in [Chats -> SUBSET Ids]
  /\ longest \in Clock
  /\ failures \in 0 .. MaxFailures

Init ==
  /\ clock = 0 /\ events = <<>>
  /\ polled = [s \in Subs |-> Never]
  /\ phase = "wait" /\ begun = 0 /\ todo = {} /\ notified = {}
  /\ pending = {} /\ ready = {}
  /\ guard = [k \in Slots |-> 0]
  /\ reported = [c \in Chats |-> [e \in Ids |-> 0]]
  /\ excused = [s \in Subs |-> {}]
  /\ told = [c \in Chats |-> {}] /\ longest = 0 /\ failures = 0

\* One more thing goes wrong.
Fail == failures < MaxFailures /\ failures' = failures + 1

-----------------------------------------------------------------------------
(* Jira, the user and the clock                                            *)

Happened == DOMAIN events
On(i) == {e \in Happened : events[e].issue = i}
Last(S) == CHOOSE e \in S : \A f \in S : f <= e
First(S) == CHOOSE e \in S : \A f \in S : e <= f

\* The value of i's field: each change flips it.
Value(i) == Cardinality({e \in On(i) : events[e].kind = "change"}) % 2

Happen(i, kind) ==
  /\ Len(events) < MaxEvents
  /\ events' = Append(events, [issue |-> i, kind |-> kind, at |-> clock,
                               to |-> IF kind = "change" THEN 1 - Value(i) ELSE Value(i)])
  /\ UNCHANGED <<clock, polled, cycle, notices, guard, history>>

\* The code does not bound the time a cycle takes (MaxStretch only bounds the
\* runs; from MaxClock on it does not): POLL_INTERVAL sets when the next cycle
\* may start, and its searches wait for Jira while the other users wait.
Tick ==
  /\ clock < MaxClock /\ (failures > 0 => clock < MaxTrouble)
  /\ phase # "down" => clock - begun < MaxStretch
  /\ clock' = clock + 1
  /\ longest' = IF phase # "down" /\ clock' - begun > longest THEN clock' - begun ELSE longest
  /\ UNCHANGED <<events, polled, cycle, notices, guard, reported, excused, told, failures>>

-----------------------------------------------------------------------------
(* The guard                                                               *)

\* Allow: the slot is free.  Claiming it and testing it are one step.
Free(slot) == guard[slot] <= clock

\* Mutant of Claim: Allow does not record the slot.
ClaimNothing(slot) == UNCHANGED guard

Claim(slot) == guard' = [guard EXCEPT ![slot] = clock + GuardTTL]

Report(c, evs) ==
  reported' = [reported EXCEPT ![c] = [e \in Ids |-> IF e \in evs THEN @[e] + 1 ELSE @[e]]]
Excuse(S, evs) ==
  excused' = [s \in Subs |-> IF s \in S THEN excused[s] \union evs ELSE excused[s]]
SubsOf(c) == {s \in Subs : ChatOf[s] = c}

\* External to the poller: webhook-svc handles the webhook of the latest event
\* of an issue, in the tick it happened, if its slot is free.
Webhook(c, i) ==
  /\ On(i) # {} /\ Free(<<c, i, "webhook">>)
  /\ LET e == Last(On(i)) IN
       /\ e \notin told[c] /\ events[e].at = clock /\ events[e].kind = "change"
       /\ told' = [told EXCEPT ![c] = @ \union {e}]
  /\ Claim(<<c, i, "webhook">>)
  /\ UNCHANGED <<jira, polled, cycle, notices, reported, excused, longest, failures>>

-----------------------------------------------------------------------------
(* A poll cycle                                                            *)

\* poll: the list of subscriptions is read once per cycle; a failed read
\* skips the searches, and Start flushes all the same.
BeginPoll ==
  /\ phase = "wait"
  /\ begun' = clock
  /\ phase' = "poll"
  /\ \/ todo' = Subs /\ UNCHANGED failures
     \/ todo' = {} /\ Fail
  /\ UNCHANGED <<jira, polled, notified, notices, guard, reported, excused, told, longest>>

\* sinceTimestamp: without a last poll, one interval back from now.
Since(s) ==
  IF polled[s] # Never THEN polled[s]
  ELSE IF clock < Interval THEN 0 ELSE clock - Interval

Updated(i) == events[Last(On(i))].at

\* SearchIssuesWithChangelog: the issues updated since the minute of t, by
\* update time; ties come in any order.  The page holds the first PageSize.
Pages(t) ==
  LET found == {i \in Issues : On(i) # {} /\ Updated(i) >= t - (t % Minute)} IN
  {P \in SUBSET found :
     /\ Cardinality(P) = IF Cardinality(found) < PageSize THEN Cardinality(found) ELSE PageSize
     /\ \A i \in P, j \in found \ P : Updated(i) <= Updated(j)}

\* Events of i in the window that starts at t.
Recent(i, t, kind) == {e \in On(i) : events[e].at >= t /\ events[e].kind = kind}

\* Mutant of Merge: each merge starts the batch window again.
MergeRestarted(n, changes, mentions) ==
  [n EXCEPT !.first = clock, !.changed = @ \/ changes # {}, !.mention = @ \/ mentions # {},
            !.evs = @ \union changes \union mentions,
            !.to = IF changes = {} THEN @ ELSE events[Last(changes)].to]

\* addPending for one issue: merge into the pending notice of the chat and
\* issue, keeping the first "from" and taking the last "to".
Merge(n, changes, mentions) ==
  [n EXCEPT
     !.mention = @ \/ mentions # {},
     !.changed = @ \/ changes # {},
     !.from = IF n.changed \/ changes = {} THEN @ ELSE 1 - events[First(changes)].to,
     !.to = IF changes = {} THEN @ ELSE events[Last(changes)].to,
     !.evs = @ \union changes \union mentions]

NewNotice(c, i) ==
  [chat |-> c, issue |-> i, first |-> clock, mention |-> FALSE,
   changed |-> FALSE, from |-> 0, to |-> 0, evs |-> {}]

\* Mutant of AddPending: the notice that is pending already stays as it was.
AddPendingAgain(P, c, i, changes, mentions) ==
  IF changes = {} /\ mentions = {} THEN P
  ELSE P \union {Merge(NewNotice(c, i), changes, mentions)}

AddPending(P, c, i, changes, mentions) ==
  LET old == {n \in P : n.chat = c /\ n.issue = i}
      base == IF old = {} THEN NewNotice(c, i) ELSE CHOOSE n \in old : TRUE
  IN IF changes = {} /\ mentions = {} THEN P
     ELSE (P \ old) \union {Merge(base, changes, mentions)}

InPending(c, i) == \E n \in pending : n.chat = c /\ n.issue = i

\* The issues of page P that pass pollUser's filters for s: updated after t,
\* a readable mention if s asks for one, and either pending already or not
\* yet seen for the chat in this cycle.  unread: issues whose comments could
\* not be fetched.
Mentioned(s, i, t, unread) ==
  IF s \in MentionSubs /\ i \notin unread THEN Recent(i, t, "mention") ELSE {}
Matching(s, P, t, unread) ==
  {i \in P : Updated(i) >= t /\ (s \in MentionSubs => Mentioned(s, i, t, unread) # {})}
Passing(s, P, t, unread) ==
  {i \in Matching(s, P, t, unread) :
     InPending(ChatOf[s], i) \/ <<ChatOf[s], i>> \notin notified}

\* The pending notice of issue i after addPending, or none.
PendingOf(c, i) == {n \in pending : n.chat = c /\ n.issue = i}
Merged(s, i, t, unread) ==
  AddPending(PendingOf(ChatOf[s], i), ChatOf[s], i, Recent(i, t, "change"), Mentioned(s, i, t, unread))

\* Mutant of Absorb: the notices of the search are all that is pending.
AbsorbOnly(s, passing, t, unread) == pending' = UNION {Merged(s, i, t, unread) : i \in passing}

\* Every issue of the page goes through addPending.  Issues are independent,
\* so the order of the page does not matter.
Absorb(s, passing, t, unread) ==
  pending' = {n \in pending : n.chat # ChatOf[s] \/ n.issue \notin passing}
               \union UNION {Merged(s, i, t, unread) : i \in passing}

\* The issues of page P whose comments the poll may fail to fetch.
Unreadable(s, P) == IF s \in MentionSubs THEN SUBSET P ELSE {{}}

\* What this poll loses for good when it moves last_polled_at: issues beyond
\* the page, events before the first window, mentions it could not read.
Skipped(s, P, t, unread) ==
  {e \in Happened :
     \/ events[e].at >= t /\ events[e].issue \notin P
     \/ polled[s] = Never /\ events[e].at < t
     \/ events[e].kind = "mention" /\ events[e].issue \in unread}

SearchOk(s) ==
  /\ phase = "poll" /\ s \in todo
  /\ todo' = todo \ {s}
  /\ \E P \in Pages(Since(s)) : \E unread \in Unreadable(s, P) :
       LET t == Since(s)
           passing == Passing(s, P, t, unread)
           c == ChatOf[s]
       IN /\ Absorb(s, passing, t, unread)
          /\ notified' = notified \union
               {<<c, i>> : i \in {j \in passing : ~InPending(c, j)}}
          /\ Excuse({s}, Skipped(s, P, t, unread))
          /\ polled' = [polled EXCEPT ![s] = begun] \/ UNCHANGED polled
          /\ IF unread = {} /\ polled'[s] = begun THEN UNCHANGED failures ELSE Fail
  /\ UNCHANGED <<jira, phase, begun, ready, guard, reported, told, longest>>

\* Mutant of SearchFails: last_polled_at moves although the search failed.
SearchFailsAdvances(s) ==
  /\ phase = "poll" /\ s \in todo
  /\ todo' = todo \ {s}
  /\ polled' = [polled EXCEPT ![s] = begun]
  /\ Fail
  /\ UNCHANGED <<jira, phase, begun, notified, notices, guard,
                 reported, excused, told, longest>>

SearchFails(s) ==
  /\ phase = "poll" /\ s \in todo
  /\ todo' = todo \ {s}
  /\ Fail
  /\ UNCHANGED <<jira, polled, phase, begun, notified, notices, guard,
                 reported, excused, told, longest>>

\* flushPending takes the notices that waited for the batch window.
BeginFlush ==
  /\ phase = "poll" /\ todo = {}
  /\ ready' = {n \in pending : clock - n.first >= BatchWindow}
  /\ pending' = pending \ ready'
  /\ phase' = IF ready' = {} THEN "wait" ELSE "flush"
  /\ notified' = {}
  /\ UNCHANGED <<jira, polled, begun, todo, guard, history>>

\* sendPendingNotification: no net change and no mention is not sent; a slot
\* in use, or a guard that cannot be reached, drops the notice; a send error
\* is logged, with the slot claimed.
Net(n) == n.changed /\ n.from # n.to
Worth(n) == Net(n) \/ n.mention
SlotOf(n) == <<n.chat, n.issue, "poller">>
Drop(n) == Excuse(SubsOf(n.chat), n.evs) /\ UNCHANGED reported

SendReady(n) ==
  /\ n \in ready
  /\ ready' = ready \ {n}
  /\ phase' = IF ready' # {} THEN phase ELSE IF phase = "flush" THEN "wait" ELSE "down"
  /\ \/ ~Worth(n) /\ Drop(n) /\ UNCHANGED <<guard, failures>>
     \/ Worth(n) /\ ~Free(SlotOf(n)) /\ Drop(n) /\ UNCHANGED <<guard, failures>>
     \/ Worth(n) /\ Drop(n) /\ UNCHANGED guard /\ Fail
     \/ /\ Worth(n) /\ Free(SlotOf(n))
        /\ Claim(SlotOf(n))
        /\ \/ Report(n.chat, n.evs) /\ UNCHANGED <<excused, failures>>
           \/ Drop(n) /\ Fail
  /\ UNCHANGED <<jira, polled, begun, todo, notified, pending, told, longest>>

-----------------------------------------------------------------------------
(* The process                                                             *)

\* The context is cancelled between two cycles: flushAllPending.
Stop ==
  /\ phase = "wait"
  /\ ready' = pending /\ pending' = {}
  /\ phase' = IF ready' = {} THEN "down" ELSE "stop"
  /\ Fail
  /\ UNCHANGED <<jira, polled, begun, todo, notified, guard>>
  /\ UNCHANGED <<reported, excused, told, longest>>

\* The pending notices are in memory only.
Crash ==
  /\ phase # "down"
  /\ phase' = "down" /\ todo' = {} /\ notified' = {}
  /\ pending' = {} /\ ready' = {}
  /\ excused' = [s \in Subs |-> excused[s] \union
       UNION {n.evs : n \in {m \in pending \union ready : m.chat = ChatOf[s]}}]
  /\ Fail
  /\ UNCHANGED <<jira, polled, begun, guard, reported, told, longest>>

Restart ==
  /\ phase = "down"
  /\ phase' = "wait" /\ begun' = clock
  /\ UNCHANGED <<jira, polled, todo, notified, notices, guard,
                 history>>

-----------------------------------------------------------------------------
Poll == BeginPoll \/ BeginFlush
        \/ (\E s \in Subs : SearchOk(s) \/ SearchFails(s))
        \/ (\E n \in ready : SendReady(n))
Life == Stop \/ Crash \/ Restart
Outside ==
  \/ Tick
  \/ \E i \in Issues, kind \in Kinds : Happen(i, kind)
  \/ \E c \in Chats, i \in Issues : Webhook(c, i)

Next == Poll \/ Life \/ Outside

Spec == Init /\ [][Next]_vars

-----------------------------------------------------------------------------
(* Properties                                                              *)

\* The poller is done with event e for subscription s: the window of s moved
\* past it and no notice holds it.
Passed(s, e) ==
  /\ polled[s] > events[e].at
  /\ \A n \in pending \union ready : n.chat = ChatOf[s] => e \notin n.evs

Dealt(s, e) == reported[ChatOf[s]][e] > 0 \/ e \in excused[s]

\* A change that the window of a subscription has passed was reported to its
\* chat, unless one of the named weaknesses dropped it for a subscription of
\* the chat: the page limit, the first window, no net change, a guard slot in
\* use, a failed send, a crash.
ChangeIsDealtWith ==
  \A s \in Subs \ MentionSubs, e \in Happened :
    events[e].kind = "change" /\ Passed(s, e) => \E r \in SubsOf(ChatOf[s]) : Dealt(r, e)

\* The issues that a cycle skips were "notified" (poller.go:236): a change
\* that the window of a subscription has passed is reported or dropped for
\* this subscription, whatever other subscriptions of the chat saw.
OwnChangeIsDealtWith ==
  \A s \in Subs \ MentionSubs, e \in Happened :
    events[e].kind = "change" /\ Passed(s, e) => Dealt(s, e)

\* The same for mentions, which addPending "allows through even when changelog
\* is empty in this window".
MentionIsDealtWith ==
  \A s \in MentionSubs, e \in Happened :
    events[e].kind = "mention" /\ Passed(s, e) => Dealt(s, e)

\* Without a failure the poller reports an event to a chat once, although the
\* windows of its cycles overlap by a tick, unless a cycle took longer than
\* half a batch window (30 seconds by default): until then a guard slot
\* outlives the batch window and the cycles it takes to flush a notice.
RepeatNeedsTrouble ==
  failures = 0 /\ 2 * longest <= BatchWindow =>
    \A c \in Chats, e \in Ids : reported[c][e] <= 1

\* Guard "prevents the same notification from being sent more than once
\* within a configurable time window", and slow cycles outlast that window:
\* the same without a bound on the cycles does not hold.
RepeatNeedsFailure == failures = 0 => \A c \in Chats, e \in Ids : reported[c][e] <= 1

\* notifydedup: the shared guard is there so that subscription-svc and
\* webhook-svc "do not double-notify".
NoDoubleNotify ==
  failures = 0 => \A c \in Chats : \A e \in told[c] : reported[c][e] = 0

\* Merging does not put a notice off: whatever keeps happening, an event that
\* is pending is flushed within the batch window and the cycles around it,
\* however long these take.
NoticeIsFlushed ==
  phase # "down" /\ failures = 0 =>
    \A n \in pending \union ready : \A e \in n.evs : clock - events[e].at < BatchWindow + 4 * longest
=============================================================================
