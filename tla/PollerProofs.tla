------------------------------ MODULE PollerProofs ------------------------------
(***************************************************************************)
(* Proofs about Poller for any subscriptions, chats, issues, windows and   *)
(* bounds: its states are well typed, a change that a window has passed    *)
(* was reported or dropped for a named reason, and while nothing fails a   *)
(* change is reported in time and once.                                    *)
(***************************************************************************)
EXTENDS Poller, FiniteSetTheorems, SequenceTheorems, TLAPS

USE SubsAssumption, TicksAssumption

(* ---------------------------------------------------------------------- *)
(* The inductive invariant                                                 *)

\* Jira's events are listed in the order they happened.
Ordered ==
  /\ \A e \in Happened : events[e].at <= clock
  /\ \A e, f \in Happened : e <= f => events[e].at <= events[f].at

\* A window ends where a cycle began.
Windows ==
  /\ begun <= clock
  /\ \A s \in Subs : polled[s] <= begun

\* What a notice reports has happened to its issue.
Reports(n) == n.first <= clock /\ \A e \in n.evs : e \in Happened /\ events[e].issue = n.issue
Noticed == \A n \in pending \union ready : Reports(n)

\* The issues seen are those of the cycle at work.
Cycled == notified # {} => phase = "poll"

Base == Ordered /\ Windows /\ Noticed /\ Cycled

Held(c, e) == \E n \in pending \union ready : n.chat = c /\ e \in n.evs
Settled(c, e) == (\E r \in SubsOf(c) : Dealt(r, e)) \/ Held(c, e)

\* A change that the window of a subscription has passed is dealt with for its
\* chat, or a notice holds it.
Handled ==
  \A s \in Subs \ MentionSubs : \A e \in Happened :
    events[e].kind = "change" /\ polled[s] > events[e].at => Settled(ChatOf[s], e)

\* An issue that the cycle has seen is pending, or there was nothing to tell
\* of it: its changes up to the cycle are dealt with for the chat.
SeenIn(c, i) ==
  InPending(c, i) \/ \A e \in On(i) : events[e].kind = "change" /\ events[e].at < begun => Settled(c, e)
Seen == \A s \in Subs : \A i \in Issues : <<ChatOf[s], i>> \in notified => SeenIn(ChatOf[s], i)

\* While nothing fails cycles follow each other and every search succeeds.
Steady ==
  /\ phase \in {"wait", "poll", "flush"}
  /\ clock <= begun + longest
  /\ \A s \in Subs :
       /\ phase = "poll" /\ s \in todo => polled[s] >= begun - longest \/ begun <= longest
       /\ phase # "poll" \/ s \notin todo => polled[s] = begun \/ (begun = 0 /\ phase = "wait")

\* No notice is older than the batch window when a cycle ends, and nothing in
\* it much older than the notice.
Fresh(n) == \A e \in n.evs : n.first <= events[e].at + 2 * longest
Punctual ==
  /\ \A n \in pending \union ready : Fresh(n)
  /\ \A n \in pending \union ready : begun < n.first + BatchWindow + longest
  /\ phase # "poll" => \A n \in pending : begun < n.first + BatchWindow

\* What was reported holds its slot for a guard life.
Slotted(c, e) ==
  e \in Happened /\ guard[<<c, events[e].issue, "poller">>] >= events[e].at + GuardTTL
Once == \A c \in Chats : \A e \in Ids : reported[c][e] > 0 => reported[c][e] = 1 /\ Slotted(c, e)

Undisturbed == failures = 0 => Steady /\ Punctual /\ (2 * longest <= BatchWindow => Once)

IInv == TypeOK /\ Base /\ Handled /\ Seen /\ Undisturbed

LEMMA Bounds ==
  /\ Interval \in Nat /\ BatchWindow \in Nat /\ BatchWindow > 0 /\ GuardTTL \in Nat /\ GuardTTL > 0
  /\ MaxClock \in Nat /\ MaxEvents \in Nat /\ MaxFailures \in Nat
BY DEF GuardTTL

(* ---------------------------------------------------------------------- *)
(* First and last of a set of events                                       *)

LEMMA InOrdering ==
  ASSUME NEW S, NEW A \in SUBSET S, NEW B \in SUBSET S, A \subseteq B, A # B
  PROVE  <<A, B>> \in StrictSubsetOrdering(S)
BY DEF StrictSubsetOrdering

\* A set of numbers has a least one: the intervals that end in its members
\* have a smallest one, for inclusion of finite sets is well founded.
LEMMA Least ==
  ASSUME NEW S \in SUBSET Nat, S # {}
  PROVE  \E n \in S : \A m \in S : n <= m
<1> DEFINE T == {0 .. n : n \in S}
<1>1. \A n \in S : IsFiniteSet(0 .. n)
  BY FS_Interval
<1>2. T \subseteq FiniteSubsetsOf(Nat)
  BY <1>1 DEF FiniteSubsetsOf
<1>3. T # {}
  OBVIOUS
<1>4. PICK x \in T : \A y \in T : <<y, x>> \notin StrictSubsetOrdering(Nat)
  BY <1>2, <1>3, FS_StrictSubsetOrderingWellFounded, WFMin
<1>5. PICK n \in S : x = 0 .. n
  BY <1>4
<1>6. \A m \in S : n <= m
  <2> SUFFICES ASSUME NEW m \in S, m < n PROVE FALSE
    BY <1>5
  <2>1. 0 .. m \in T
    OBVIOUS
  <2>2. 0 .. m \subseteq 0 .. n /\ 0 .. m # 0 .. n
    <3>1. n \in 0 .. n /\ n \notin 0 .. m
      OBVIOUS
    <3> QED
      BY <3>1
  <2>3. <<0 .. m, 0 .. n>> \in StrictSubsetOrdering(Nat)
    <3>1. 0 .. m \in SUBSET Nat /\ 0 .. n \in SUBSET Nat
      OBVIOUS
    <3> QED
      BY <2>2, <3>1, InOrdering
  <2> QED
    BY <1>4, <1>5, <2>1, <2>3
<1> QED
  BY <1>6

\* A set of numbers with a bound has a greatest one.
LEMMA Greatest ==
  ASSUME NEW N \in Nat, NEW S \in SUBSET (1 .. N), S # {}
  PROVE  \E n \in S : \A m \in S : m <= n
<1> DEFINE D == {N - n : n \in S}
<1>1. D \in SUBSET Nat /\ D # {}
  <2>1. \A n \in S : N - n \in Nat
    OBVIOUS
  <2> QED
    BY <2>1
<1>2. PICK d \in D : \A k \in D : d <= k
  BY <1>1, Least
<1>3. PICK n \in S : d = N - n
  BY <1>2
<1>4. \A m \in S : m <= n
  <2> SUFFICES ASSUME NEW m \in S PROVE m <= n
    OBVIOUS
  <2>1. N - m \in D
    OBVIOUS
  <2>2. N - n <= N - m
    BY <1>2, <1>3, <2>1
  <2> QED
    BY <2>2
<1> QED
  BY <1>4

LEMMA HappenedTypes ==
  ASSUME TypeOK
  PROVE  /\ Happened = 1 .. Len(events) /\ Len(events) \in Nat /\ Len(events) <= MaxEvents
         /\ Happened \subseteq Ids
         /\ \A e \in Happened : events[e] \in EventRecord
<1>1. events \in Seq(EventRecord) /\ Len(events) <= MaxEvents
  BY DEF TypeOK
<1>2. DOMAIN events = 1 .. Len(events) /\ Len(events) \in Nat
  BY <1>1
<1>3. \A e \in 1 .. Len(events) : events[e] \in EventRecord
  BY <1>1
<1> QED
  BY <1>1, <1>2, <1>3, Bounds DEF Happened, Ids

LEMMA EventTypes ==
  ASSUME TypeOK, NEW e \in Happened
  PROVE  /\ events[e] \in EventRecord /\ e \in Ids /\ e \in Nat
         /\ events[e].issue \in Issues /\ events[e].at \in Clock /\ events[e].at \in Nat /\ events[e].to \in {0, 1}
<1>1. events[e] \in EventRecord /\ e \in Ids
  BY HappenedTypes
<1> QED
  BY <1>1 DEF EventRecord, Ids, Clock

LEMMA EndsOf ==
  ASSUME TypeOK, NEW S \in SUBSET Happened, S # {}
  PROVE  /\ Last(S) \in S /\ \A f \in S : f <= Last(S)
         /\ First(S) \in S /\ \A f \in S : First(S) <= f
<1>1. S \in SUBSET (1 .. Len(events)) /\ Len(events) \in Nat
  BY HappenedTypes
<1>2. \E e \in S : \A f \in S : f <= e
  BY <1>1, Greatest
<1>3. \E e \in S : \A f \in S : e <= f
  BY <1>1, Least
<1> QED
  BY <1>2, <1>3 DEF Last, First

(* ---------------------------------------------------------------------- *)
(* Searching and merging                                                   *)

LEMMA NewNoticeType ==
  ASSUME TypeOK, NEW c \in Chats, NEW i \in Issues
  PROVE  /\ NewNotice(c, i) \in Notice /\ NewNotice(c, i).chat = c /\ NewNotice(c, i).issue = i
         /\ NewNotice(c, i).first = clock /\ NewNotice(c, i).evs = {}
BY DEF NewNotice, Notice, TypeOK

LEMMA MergeAdds ==
  ASSUME TypeOK, NEW n \in Notice, NEW ch, NEW me, ch \subseteq Happened, me \subseteq Happened,
         NEW m, m = Merge(n, ch, me)
  PROVE  m \in Notice /\ m.chat = n.chat /\ m.issue = n.issue /\ m.first = n.first /\ m.evs = n.evs \union ch \union me
<1>1. PICK b \in BOOLEAN : b = (n.mention \/ me # {})
  OBVIOUS
<1>2. PICK d \in BOOLEAN : d = (n.changed \/ ch # {})
  OBVIOUS
<1>3. n.from \in {0, 1} /\ n.to \in {0, 1} /\ n.evs \in SUBSET Ids
  BY DEF Notice
<1>4. PICK f \in {0, 1} : f = IF n.changed \/ ch = {} THEN n.from ELSE 1 - events[First(ch)].to
  <2>1. CASE ch = {}
    BY <1>3, <2>1
  <2>2. CASE ch # {}
    <3>1. First(ch) \in Happened
      BY <2>2, EndsOf
    <3>2. events[First(ch)].to \in {0, 1}
      BY <3>1, EventTypes
    <3>3. 1 - events[First(ch)].to \in {0, 1}
      BY <3>2
    <3> QED
      BY <1>3, <3>3
  <2> QED
    BY <2>1, <2>2
<1>5. PICK g \in {0, 1} : g = IF ch = {} THEN n.to ELSE events[Last(ch)].to
  <2>1. CASE ch = {}
    BY <1>3, <2>1
  <2>2. CASE ch # {}
    <3>1. Last(ch) \in Happened
      BY <2>2, EndsOf
    <3> QED
      BY <2>2, <3>1, EventTypes
  <2> QED
    BY <2>1, <2>2
<1>6. PICK E \in SUBSET Ids : E = n.evs \union ch \union me
  BY <1>3, HappenedTypes
<1>7. m = [n EXCEPT !.mention = b, !.changed = d, !.from = f, !.to = g, !.evs = E]
  BY <1>1, <1>2, <1>4, <1>5, <1>6 DEF Merge
<1>8. m \in Notice /\ m.chat = n.chat /\ m.issue = n.issue /\ m.first = n.first /\ m.evs = E
  BY <1>7 DEF Notice
<1> QED
  BY <1>6, <1>8

\* Notices of one chat and issue are one notice.
LEMMA OnePending ==
  ASSUME TypeOK, NEW m \in pending, NEW n \in pending, m.chat = n.chat, m.issue = n.issue
  PROVE  m = n
BY DEF TypeOK

\* Notice x is the one of chat c and issue i with these events added.
Grows(x, c, i, ch, me) ==
  /\ x.chat = c /\ x.issue = i /\ ch \union me \subseteq x.evs
  /\ \/ x.first = clock /\ x.evs = ch \union me
     \/ \E n \in pending : n.chat = c /\ n.issue = i /\ x.first = n.first /\ x.evs = n.evs \union ch \union me
  /\ \A n \in pending : n.chat = c /\ n.issue = i => n.evs \subseteq x.evs

\* What addPending makes of the notice of one chat and issue.
LEMMA AddPendingMakes ==
  ASSUME TypeOK, NEW c \in Chats, NEW i \in Issues, NEW ch, NEW me, ch \subseteq Happened, me \subseteq Happened,
         ch \union me # {}
  PROVE  \E x \in Notice : AddPending(PendingOf(c, i), c, i, ch, me) = {x} /\ Grows(x, c, i, ch, me)
<1> DEFINE P == PendingOf(c, i)
<1>1. P \subseteq pending /\ P \subseteq Notice /\ \A n \in pending : n \in P <=> n.chat = c /\ n.issue = i
  BY DEF PendingOf, TypeOK
<1>2. {n \in P : n.chat = c /\ n.issue = i} = P
  BY DEF PendingOf
<1>3. PICK base : base = IF P = {} THEN NewNotice(c, i) ELSE CHOOSE n \in P : TRUE
  OBVIOUS
<1>4. PICK x : x = Merge(base, ch, me)
  OBVIOUS
<1>5. base \in Notice /\ base.chat = c /\ base.issue = i
  BY <1>1, <1>3, NewNoticeType
<1>6. /\ x \in Notice /\ x.chat = base.chat /\ x.issue = base.issue
      /\ x.first = base.first /\ x.evs = base.evs \union ch \union me
  BY <1>4, <1>5, MergeAdds
<1>7. AddPending(P, c, i, ch, me) = (P \ P) \union {x}
  BY <1>2, <1>3, <1>4 DEF AddPending
<1>8. CASE P = {}
  <2>1. base.first = clock /\ base.evs = {}
    BY <1>3, <1>8, NewNoticeType
  <2> QED
    BY <1>1, <1>5, <1>6, <1>7, <1>8, <2>1 DEF Grows
<1>9. CASE P # {}
  <2>1. base \in P
    BY <1>3, <1>9
  <2>2. \A n \in pending : n.chat = c /\ n.issue = i => n = base
    BY <1>1, <1>5, <2>1, OnePending
  <2> QED
    BY <1>1, <1>5, <1>6, <1>7, <2>1, <2>2 DEF Grows
<1> QED
  BY <1>8, <1>9

\* A search passes issues with events, and looks at events of theirs.
LEMMA FoundHappened ==
  ASSUME NEW i \in Issues, NEW t, NEW s \in Subs, NEW unread
  PROVE  /\ Recent(i, t, "change") \subseteq On(i) /\ Mentioned(s, i, t, unread) \subseteq On(i)
         /\ On(i) \subseteq Happened
         /\ \A e \in Recent(i, t, "change") \union Mentioned(s, i, t, unread) : events[e].at >= t
BY DEF Recent, Mentioned, On

LEMMA SinceType ==
  ASSUME TypeOK, NEW s \in Subs
  PROVE  Since(s) \in Nat /\ (polled[s] # Never => Since(s) = polled[s])
<1>1. polled[s] \in Clock \union {Never} /\ clock \in Nat /\ Interval \in Nat
  BY DEF TypeOK, Clock
<1> QED
  BY <1>1 DEF Since, Clock

\* The events that a search adds to what is pending of an issue.
Added(s, i, t, unread) == Recent(i, t, "change") \union Mentioned(s, i, t, unread)

\* A notice that a search made or added to.
Made(x, s, t, unread) ==
  /\ x \in Notice /\ x.chat = ChatOf[s]
  /\ \/ x.first = clock /\ x.evs = Added(s, x.issue, t, unread)
     \/ \E n \in pending : x.first = n.first /\ n.issue = x.issue /\ x.evs = n.evs \union Added(s, x.issue, t, unread)

LEMMA MergedMakes ==
  ASSUME TypeOK, NEW s \in Subs, NEW i \in Issues, NEW t, NEW unread
  PROVE  /\ \A x \in Merged(s, i, t, unread) :
              x.chat = ChatOf[s] /\ x.issue = i /\ (x \in pending \/ Made(x, s, t, unread))
         /\ \A x, y \in Merged(s, i, t, unread) : x = y
         /\ \A n \in PendingOf(ChatOf[s], i) : \E x \in Merged(s, i, t, unread) : n.evs \subseteq x.evs
         /\ Added(s, i, t, unread) # {} =>
              \E x \in Merged(s, i, t, unread) : Added(s, i, t, unread) \subseteq x.evs
<1>1. PICK c \in Chats : c = ChatOf[s]
  OBVIOUS
<1>2. PICK ch : ch = Recent(i, t, "change")
  OBVIOUS
<1>3. PICK me : me = Mentioned(s, i, t, unread)
  OBVIOUS
<1>4. ch \subseteq Happened /\ me \subseteq Happened
  BY <1>2, <1>3, FoundHappened
<1>5. \A n \in PendingOf(c, i) : n \in pending /\ n.chat = c /\ n.issue = i
  BY DEF PendingOf
<1>6. CASE ch \union me = {}
  <2>1. Merged(s, i, t, unread) = PendingOf(c, i)
    BY <1>1, <1>2, <1>3, <1>6 DEF Merged, AddPending
  <2>2. Added(s, i, t, unread) = {}
    BY <1>2, <1>3, <1>6 DEF Added
  <2> QED
    BY <1>1, <1>5, <2>1, <2>2, OnePending
<1>7. CASE ch \union me # {}
  <2>1. PICK x \in Notice : AddPending(PendingOf(c, i), c, i, ch, me) = {x} /\ Grows(x, c, i, ch, me)
    BY <1>4, <1>7, AddPendingMakes
  <2>2. Merged(s, i, t, unread) = {x}
    BY <1>1, <1>2, <1>3, <2>1 DEF Merged
  <2>3. Added(s, i, t, unread) = ch \union me
    BY <1>2, <1>3 DEF Added
  <2>4. Made(x, s, t, unread)
    BY <1>1, <2>1, <2>3 DEF Made, Grows
  <2> QED
    BY <1>1, <1>5, <2>1, <2>2, <2>3, <2>4 DEF Grows
<1> QED
  BY <1>6, <1>7

\* What is pending after a search.
AddedIsPending(s, Q, t, unread) ==
  \A i \in Q : \A e \in Added(s, i, t, unread) :
    \E x \in pending' : x.chat = ChatOf[s] /\ x.issue = i /\ e \in x.evs

LEMMA AbsorbMakes ==
  ASSUME TypeOK, NEW s \in Subs, NEW Q, Q \subseteq Issues, NEW t, NEW unread, Absorb(s, Q, t, unread)
  PROVE  /\ \A x \in pending' : x \in pending \/ Made(x, s, t, unread)
         /\ \A x, y \in pending' : x.chat = y.chat /\ x.issue = y.issue => x = y
         /\ \A n \in pending : \E x \in pending' : x.chat = n.chat /\ x.issue = n.issue /\ n.evs \subseteq x.evs
         /\ AddedIsPending(s, Q, t, unread)
<1> DEFINE M(i) == Merged(s, i, t, unread)
           Rest == {n \in pending : n.chat # ChatOf[s] \/ n.issue \notin Q}
<1>1. pending' = Rest \union UNION {M(i) : i \in Q}
  BY DEF Absorb
<1>2. \A i \in Q : /\ \A x \in M(i) : x.chat = ChatOf[s] /\ x.issue = i /\ (x \in pending \/ Made(x, s, t, unread))
                   /\ \A x, y \in M(i) : x = y
                   /\ \A n \in PendingOf(ChatOf[s], i) : \E x \in M(i) : n.evs \subseteq x.evs
                   /\ Added(s, i, t, unread) # {} => \E x \in M(i) : Added(s, i, t, unread) \subseteq x.evs
  BY MergedMakes
<1> HIDE DEF M
<1>3. \A x \in pending' : x \in Rest \/ \E i \in Q : x \in M(i)
  BY <1>1
<1>4. Rest \subseteq pending' /\ \A i \in Q : M(i) \subseteq pending'
  BY <1>1
<1>5. \A x \in pending' : x \in pending \/ Made(x, s, t, unread)
  BY <1>2, <1>3
<1>6. ASSUME NEW x \in pending', NEW y \in pending', x.chat = y.chat, x.issue = y.issue PROVE x = y
  <2>1. CASE x \in Rest
    <3>1. y \in Rest
      BY <1>2, <1>3, <1>6, <2>1
    <3> QED
      BY <1>6, <2>1, <3>1, OnePending
  <2>2. CASE \E i \in Q : x \in M(i)
    <3>1. PICK i \in Q : x \in M(i)
      BY <2>2
    <3>2. x.chat = ChatOf[s] /\ x.issue = i
      BY <1>2, <3>1
    <3>3. y \notin Rest
      BY <1>6, <3>2
    <3>4. PICK j \in Q : y \in M(j)
      BY <1>3, <3>3
    <3>5. j = i
      BY <1>2, <1>6, <3>2, <3>4
    <3> QED
      BY <1>2, <3>1, <3>4, <3>5
  <2> QED
    BY <1>3, <2>1, <2>2
<1>7. ASSUME NEW n \in pending
      PROVE  \E x \in pending' : x.chat = n.chat /\ x.issue = n.issue /\ n.evs \subseteq x.evs
  <2>1. CASE n \in Rest
    BY <1>4, <2>1
  <2>2. CASE n \notin Rest
    <3>1. n.chat = ChatOf[s] /\ n.issue \in Q
      BY <2>2
    <3>2. n \in PendingOf(ChatOf[s], n.issue)
      BY <3>1 DEF PendingOf
    <3>3. PICK x \in M(n.issue) : n.evs \subseteq x.evs
      BY <1>2, <3>1, <3>2
    <3> QED
      BY <1>2, <1>4, <3>1, <3>3
  <2> QED
    BY <2>1, <2>2
<1>8. ASSUME NEW i \in Q, Added(s, i, t, unread) # {}
      PROVE  \E x \in pending' : x.chat = ChatOf[s] /\ x.issue = i /\ Added(s, i, t, unread) \subseteq x.evs
  <2>1. PICK x \in M(i) : Added(s, i, t, unread) \subseteq x.evs
    BY <1>2, <1>8
  <2> QED
    BY <1>2, <1>4, <2>1
<1>9. AddedIsPending(s, Q, t, unread)
  BY <1>8 DEF AddedIsPending
<1> QED
  BY <1>5, <1>6, <1>7, <1>9

\* A search that succeeds: the page, the window's start, the issues whose
\* comments could not be read, and the issues that pass.
Searches(s, P, t, unread, Q) ==
  /\ phase = "poll" /\ s \in todo /\ todo' = todo \ {s}
  /\ P \subseteq Issues /\ t = Since(s) /\ Q = Passing(s, P, t, unread)
  /\ Absorb(s, Q, t, unread)
  /\ notified' = notified \union {<<ChatOf[s], i>> : i \in {j \in Q : ~InPending(ChatOf[s], j)}}
  /\ Excuse({s}, Skipped(s, P, t, unread))
  /\ polled' = [polled EXCEPT ![s] = begun] \/ UNCHANGED polled
  /\ (polled'[s] = begun /\ UNCHANGED failures) \/ Fail
  /\ UNCHANGED <<clock, events, phase, begun, ready, guard, reported, told, longest>>

LEMMA Searching ==
  ASSUME TypeOK, NEW s \in Subs, SearchOk(s)
  PROVE  \E P, t, unread, Q : Searches(s, P, t, unread, Q)
<1>1. PICK t : t = Since(s)
  OBVIOUS
<1>2. PICK P \in Pages(t) : \E unread \in Unreadable(s, P) :
         /\ Absorb(s, Passing(s, P, t, unread), t, unread)
         /\ notified' = notified \union
              {<<ChatOf[s], i>> : i \in {j \in Passing(s, P, t, unread) : ~InPending(ChatOf[s], j)}}
         /\ Excuse({s}, Skipped(s, P, t, unread))
         /\ polled' = [polled EXCEPT ![s] = begun] \/ UNCHANGED polled
         /\ IF unread = {} /\ polled'[s] = begun THEN UNCHANGED failures ELSE Fail
  BY <1>1 DEF SearchOk
<1>3. PICK unread :
         /\ Absorb(s, Passing(s, P, t, unread), t, unread)
         /\ notified' = notified \union
              {<<ChatOf[s], i>> : i \in {j \in Passing(s, P, t, unread) : ~InPending(ChatOf[s], j)}}
         /\ Excuse({s}, Skipped(s, P, t, unread))
         /\ polled' = [polled EXCEPT ![s] = begun] \/ UNCHANGED polled
         /\ IF unread = {} /\ polled'[s] = begun THEN UNCHANGED failures ELSE Fail
  BY <1>2
<1>4. PICK Q : Q = Passing(s, P, t, unread)
  OBVIOUS
<1>5. P \subseteq Issues
  BY <1>2 DEF Pages
<1>6. (polled'[s] = begun /\ UNCHANGED failures) \/ Fail
  BY <1>3
<1>7. Searches(s, P, t, unread, Q)
  BY <1>1, <1>3, <1>4, <1>5, <1>6 DEF Searches, SearchOk, jira
<1> QED
  BY <1>7

LEMMA PassingIn ==
  ASSUME NEW s, NEW P, NEW t, NEW unread
  PROVE  Passing(s, P, t, unread) \subseteq P
BY DEF Passing, Matching

\* What a search leaves pending.
LEMMA SearchAbsorbs ==
  ASSUME TypeOK, NEW s \in Subs, NEW P, NEW t, NEW unread, NEW Q, Searches(s, P, t, unread, Q)
  PROVE  /\ Q \subseteq Issues
         /\ \A x \in pending' : x \in pending \/ Made(x, s, t, unread)
         /\ \A n \in pending : \E x \in pending' : x.chat = n.chat /\ x.issue = n.issue /\ n.evs \subseteq x.evs
         /\ AddedIsPending(s, Q, t, unread)
<1>1. Q \subseteq Issues
  BY PassingIn DEF Searches
<1>2. Absorb(s, Q, t, unread)
  BY DEF Searches
<1>3. /\ \A x \in pending' : x \in pending \/ Made(x, s, t, unread)
      /\ \A n \in pending : \E x \in pending' : x.chat = n.chat /\ x.issue = n.issue /\ n.evs \subseteq x.evs
  BY <1>1, <1>2, AbsorbMakes
<1>4. AddedIsPending(s, Q, t, unread)
  BY <1>1, <1>2, AbsorbMakes
<1> QED
  BY <1>1, <1>3, <1>4

(* ---------------------------------------------------------------------- *)
(* Types                                                                   *)

\* An event more.
LEMMA HappenAdds ==
  ASSUME TypeOK, NEW i \in Issues, NEW kind \in Kinds, Happen(i, kind)
  PROVE  /\ events' \in Seq(EventRecord) /\ Len(events') = Len(events) + 1 /\ Len(events') <= MaxEvents
         /\ Happened' = Happened \union {Len(events) + 1}
         /\ \A e \in Happened : events'[e] = events[e]
         /\ events'[Len(events) + 1].at = clock /\ events'[Len(events) + 1].issue = i
<1>1. Value(i) \in {0, 1}
  <2>1. IsFiniteSet(1 .. Len(events))
    <3>1. 1 \in Int /\ Len(events) \in Int
      BY HappenedTypes
    <3> QED
      BY <3>1, FS_Interval
  <2>2. {e \in On(i) : events[e].kind = "change"} \in SUBSET (1 .. Len(events))
    BY HappenedTypes DEF On
  <2>3. Cardinality({e \in On(i) : events[e].kind = "change"}) \in Nat
    BY <2>1, <2>2, FS_Subset, FS_CardinalityType
  <2>4. \A k \in Nat : k % 2 \in {0, 1}
    OBVIOUS
  <2> QED
    BY <2>3, <2>4 DEF Value
<1>2. PICK r : r = [issue |-> i, kind |-> kind, at |-> clock, to |-> IF kind = "change" THEN 1 - Value(i) ELSE Value(i)]
  OBVIOUS
<1>3. r \in EventRecord /\ r.at = clock /\ r.issue = i
  BY <1>1, <1>2 DEF EventRecord, TypeOK
<1>4. events \in Seq(EventRecord) /\ Len(events) < MaxEvents /\ events' = Append(events, r)
  BY <1>2 DEF Happen, TypeOK
<1>5. /\ events' \in Seq(EventRecord) /\ Len(events') = Len(events) + 1
      /\ \A k \in 1 .. Len(events) : events'[k] = events[k]
      /\ events'[Len(events) + 1] = r
  BY <1>3, <1>4, AppendProperties
<1>6. DOMAIN events = 1 .. Len(events) /\ Len(events) \in Nat
  BY <1>4
<1>7. DOMAIN events' = 1 .. Len(events')
  BY <1>5
<1> QED
  BY <1>3, <1>4, <1>5, <1>6, <1>7, Bounds DEF Happened

LEMMA TypeInit == Init => TypeOK
<1> SUFFICES ASSUME Init PROVE TypeOK
  OBVIOUS
<1>1. events \in Seq(EventRecord) /\ Len(events) = 0
  BY DEF Init
<1> QED
  BY <1>1, Bounds DEF Init, TypeOK, Clock, Never

LEMMA TypeSearch ==
  ASSUME TypeOK, NEW s \in Subs, SearchOk(s)
  PROVE  TypeOK'
<1>1. PICK P, t, unread, Q : Searches(s, P, t, unread, Q)
  BY Searching
<1>2. Q \subseteq Issues
  BY <1>1, PassingIn DEF Searches
<1>3. /\ \A x \in pending' : x \in pending \/ Made(x, s, t, unread)
      /\ \A x, y \in pending' : x.chat = y.chat /\ x.issue = y.issue => x = y
  BY <1>1, <1>2, AbsorbMakes DEF Searches
<1>4. pending' \subseteq Notice
  BY <1>3 DEF Made, TypeOK
<1>5. polled' \in [Subs -> Clock \union {Never}]
  BY <1>1 DEF Searches, TypeOK
<1>6. excused' \in [Subs -> SUBSET Ids]
  <2>1. Skipped(s, P, t, unread) \subseteq Ids
    BY HappenedTypes DEF Skipped
  <2> QED
    BY <1>1, <2>1 DEF Searches, Excuse, TypeOK
<1>7. notified' \subseteq Chats \X Issues
  BY <1>1, <1>2 DEF Searches, TypeOK
<1>8. failures' \in 0 .. MaxFailures
  BY <1>1, Bounds DEF Searches, Fail, TypeOK
<1>9. todo' \subseteq Subs /\ (todo' # {} => phase' = "poll")
  BY <1>1 DEF Searches, TypeOK
<1>10. UNCHANGED <<clock, events, phase, begun, ready, guard, reported, told, longest>>
  BY <1>1 DEF Searches
<1> QED
  BY <1>3, <1>4, <1>5, <1>6, <1>7, <1>8, <1>9, <1>10 DEF TypeOK

\* Notices taken or dropped.
LEMMA TypePoll ==
  ASSUME TypeOK, BeginPoll \/ BeginFlush \/ (\E s \in Subs : SearchFails(s))
  PROVE  TypeOK'
<1>1. CASE BeginPoll
  BY <1>1, Bounds DEF BeginPoll, Fail, TypeOK, jira, notices
<1>2. CASE BeginFlush
  <2>1. /\ pending' \subseteq pending /\ ready' \subseteq pending
        /\ phase' = IF ready' = {} THEN "wait" ELSE "flush"
        /\ todo = {} /\ notified' = {}
        /\ UNCHANGED <<clock, events, polled, begun, todo, guard, reported, excused, told, longest, failures>>
    BY <1>2 DEF BeginFlush, jira, history
  <2> QED
    BY <2>1 DEF TypeOK
<1>3. CASE \E s \in Subs : SearchFails(s)
  BY <1>3, Bounds DEF SearchFails, Fail, TypeOK, jira, notices
<1> QED
  BY <1>1, <1>2, <1>3

\* A notice is dealt with: reported or dropped, with its slot or without.
Deals(n) ==
  /\ n \in ready /\ ready' = ready \ {n}
  /\ phase' = IF ready' # {} THEN phase ELSE IF phase = "flush" THEN "wait" ELSE "down"
  /\ \/ Drop(n) /\ UNCHANGED guard /\ (UNCHANGED failures \/ Fail)
     \/ Worth(n) /\ Free(SlotOf(n)) /\ Claim(SlotOf(n)) /\ Report(n.chat, n.evs) /\ UNCHANGED <<excused, failures>>
     \/ Drop(n) /\ Claim(SlotOf(n)) /\ Fail
  /\ UNCHANGED <<clock, events, polled, begun, todo, notified, pending, told, longest>>

LEMMA Sending ==
  ASSUME NEW n \in ready, SendReady(n)
  PROVE  Deals(n)
BY DEF SendReady, Deals, jira

LEMMA SlotIn ==
  ASSUME TypeOK, NEW n \in pending \union ready
  PROVE  n \in Notice /\ SlotOf(n) \in Slots /\ n.chat \in Chats /\ n.issue \in Issues /\ n.first \in Nat
         /\ n.evs \subseteq Ids
<1>1. n \in Notice
  BY DEF TypeOK
<1> QED
  BY <1>1 DEF Notice, SlotOf, Slots, Clock

LEMMA ClaimType ==
  ASSUME TypeOK, NEW slot \in Slots, Claim(slot)
  PROVE  guard' \in [Slots -> 0 .. MaxClock + GuardTTL]
<1>1. clock + GuardTTL \in 0 .. MaxClock + GuardTTL
  BY Bounds DEF TypeOK, Clock
<1> QED
  BY <1>1 DEF Claim, TypeOK

LEMMA ReportAdds ==
  ASSUME TypeOK, NEW c \in Chats, NEW evs, Report(c, evs)
  PROVE  /\ reported' \in [Chats -> [Ids -> Nat]]
         /\ \A e \in Ids : reported'[c][e] = IF e \in evs THEN reported[c][e] + 1 ELSE reported[c][e]
         /\ \A d \in Chats \ {c} : reported'[d] = reported[d]
<1>1. reported \in [Chats -> [Ids -> Nat]]
  BY DEF TypeOK
<1>2. PICK f : f = [e \in Ids |-> IF e \in evs THEN reported[c][e] + 1 ELSE reported[c][e]]
  OBVIOUS
<1>3. f \in [Ids -> Nat]
  BY <1>1, <1>2
<1>4. reported' = [reported EXCEPT ![c] = f]
  BY <1>2 DEF Report
<1> QED
  BY <1>1, <1>2, <1>3, <1>4

LEMMA TypeSend ==
  ASSUME TypeOK, NEW n \in ready, SendReady(n)
  PROVE  TypeOK'
<1>1. Deals(n)
  BY Sending
<1>2. SlotOf(n) \in Slots /\ n.chat \in Chats /\ n.evs \subseteq Ids
  BY SlotIn
<1>3. guard' \in [Slots -> 0 .. MaxClock + GuardTTL]
  BY <1>1, <1>2, ClaimType DEF Deals, TypeOK
<1>4. reported' \in [Chats -> [Ids -> Nat]]
  BY <1>1, <1>2, ReportAdds DEF Deals, Drop, TypeOK
<1>5. excused' \in [Subs -> SUBSET Ids]
  <2>1. CASE Drop(n)
    BY <1>2, <2>1 DEF Drop, Excuse, TypeOK
  <2>2. CASE UNCHANGED excused
    BY <2>2 DEF TypeOK
  <2> QED
    BY <1>1, <2>1, <2>2 DEF Deals
<1>6. failures' \in 0 .. MaxFailures
  BY <1>1, Bounds DEF Deals, Fail, TypeOK
<1>7. /\ ready' \subseteq Notice /\ (ready' # {} <=> phase' \in {"flush", "stop"})
      /\ phase' \in {"down", "wait", "poll", "flush", "stop"} /\ (todo' # {} => phase' = "poll")
  BY <1>1 DEF Deals, TypeOK
<1>8. UNCHANGED <<clock, events, polled, begun, todo, notified, pending, told, longest>>
  BY <1>1 DEF Deals
<1> QED
  BY <1>3, <1>4, <1>5, <1>6, <1>7, <1>8 DEF TypeOK

LEMMA TypeLife ==
  ASSUME TypeOK, Life
  PROVE  TypeOK'
<1>1. CASE Stop
  BY <1>1, Bounds DEF Stop, Fail, TypeOK, jira
<1>2. CASE Crash
  <2>1. excused' \in [Subs -> SUBSET Ids]
    <3>1. \A s \in Subs : UNION {n.evs : n \in {m \in pending \union ready : m.chat = ChatOf[s]}} \subseteq Ids
      BY SlotIn
    <3> QED
      BY <1>2, <3>1 DEF Crash, TypeOK
  <2> QED
    BY <1>2, <2>1, Bounds DEF Crash, Fail, TypeOK, jira
<1>3. CASE Restart
  BY <1>3 DEF Restart, TypeOK, jira, notices, history
<1> QED
  BY <1>1, <1>2, <1>3 DEF Life

LEMMA TypeOutside ==
  ASSUME TypeOK, Outside
  PROVE  TypeOK'
<1>1. CASE Tick
  <2>1. clock' \in Clock
    BY <1>1, Bounds DEF Tick, TypeOK, Clock
  <2>2. longest' \in Clock
    BY <1>1, <2>1, Bounds DEF Tick, TypeOK, Clock
  <2> QED
    BY <1>1, <2>1, <2>2 DEF Tick, TypeOK, cycle, notices
<1>2. ASSUME NEW i \in Issues, NEW kind \in Kinds, Happen(i, kind) PROVE TypeOK'
  <2>1. events' \in Seq(EventRecord) /\ Len(events') <= MaxEvents
    BY <1>2, HappenAdds
  <2> QED
    BY <1>2, <2>1 DEF Happen, TypeOK, cycle, notices, history
<1>3. ASSUME NEW c \in Chats, NEW i \in Issues, Webhook(c, i) PROVE TypeOK'
  <2>1. On(i) # {} /\ On(i) \subseteq Happened
    BY <1>3 DEF Webhook, On
  <2>2. Last(On(i)) \in Ids
    BY <2>1, EndsOf, HappenedTypes
  <2>3. told' \in [Chats -> SUBSET Ids]
    BY <1>3, <2>2 DEF Webhook, TypeOK
  <2>4. <<c, i, "webhook">> \in Slots
    BY DEF Slots
  <2>5. guard' \in [Slots -> 0 .. MaxClock + GuardTTL]
    BY <1>3, <2>4, ClaimType DEF Webhook
  <2> QED
    BY <1>3, <2>3, <2>5 DEF Webhook, TypeOK, jira, cycle, notices
<1> QED
  BY <1>1, <1>2, <1>3 DEF Outside

LEMMA TypeNext ==
  ASSUME TypeOK, [Next]_vars
  PROVE  TypeOK'
<1>1. CASE Poll
  BY <1>1, TypePoll, TypeSearch, TypeSend DEF Poll
<1>2. CASE vars' = vars
  BY <1>2 DEF vars, TypeOK
<1> QED
  BY <1>1, <1>2, TypeLife, TypeOutside DEF Next

(* ---------------------------------------------------------------------- *)
(* Events, windows and notices                                             *)

LEMMA AddedIn ==
  ASSUME NEW s, NEW i, NEW t, NEW unread, NEW e \in Added(s, i, t, unread)
  PROVE  e \in Happened /\ events[e].issue = i /\ events[e].at >= t
BY DEF Added, Recent, Mentioned, On

LEMMA PolledTypes ==
  ASSUME TypeOK
  PROVE  clock \in Nat /\ begun \in Nat /\ longest \in Nat /\ \A s \in Subs : polled[s] \in Int /\ polled[s] >= Never
BY SMTT(30) DEF TypeOK, Clock, Never

\* A notice that a search made reports what has happened.
LEMMA MadeReports ==
  ASSUME TypeOK, Noticed, NEW s \in Subs, NEW t, NEW unread, NEW x, Made(x, s, t, unread)
  PROVE  Reports(x)
<1>1. x \in Notice /\ clock \in Nat
  BY DEF Made, TypeOK, Clock
<1>2. \A e \in Added(s, x.issue, t, unread) : e \in Happened /\ events[e].issue = x.issue
  BY AddedIn
<1>3. CASE x.first = clock /\ x.evs = Added(s, x.issue, t, unread)
  BY <1>1, <1>2, <1>3 DEF Reports
<1>4. ASSUME NEW n \in pending, x.first = n.first, n.issue = x.issue, x.evs = n.evs \union Added(s, x.issue, t, unread)
      PROVE  Reports(x)
  BY <1>2, <1>4 DEF Noticed, Reports
<1> QED
  BY <1>3, <1>4 DEF Made

LEMMA BaseSearch ==
  ASSUME TypeOK, Base, NEW s \in Subs, SearchOk(s)
  PROVE  Base'
<1>1. PICK P, t, unread, Q : Searches(s, P, t, unread, Q)
  BY Searching
<1>2. Q \subseteq Issues
  BY <1>1, PassingIn DEF Searches
<1>3. \A x \in pending' : x \in pending \/ Made(x, s, t, unread)
  BY <1>1, <1>2, AbsorbMakes DEF Searches
<1>4. \A x \in pending' \union ready : Reports(x)
  BY <1>3, MadeReports DEF Base, Noticed
<1>5. Noticed' /\ Ordered'
  BY <1>1, <1>4 DEF Searches, Noticed, Reports, Happened, Base, Ordered
<1>6. Windows'
  <2>1. begun' = begun /\ clock' = clock /\ \A r \in Subs : polled'[r] \in {polled[r], begun}
    BY <1>1 DEF Searches, TypeOK
  <2> QED
    BY <2>1, PolledTypes DEF Base, Windows
<1>7. Cycled'
  BY <1>1 DEF Searches, Cycled
<1> QED
  BY <1>5, <1>6, <1>7 DEF Base

LEMMA BaseCycle ==
  ASSUME TypeOK, Base, BeginPoll \/ BeginFlush \/ (\E s \in Subs : SearchFails(s)) \/ (\E n \in ready : SendReady(n)) \/ Life
  PROVE  Base'
<1>1. UNCHANGED <<clock, events, polled>>
  BY DEF BeginPoll, BeginFlush, SearchFails, SendReady, Life, Stop, Crash, Restart, jira
<1>2. pending' \union ready' \subseteq pending \union ready
  BY DEF BeginPoll, BeginFlush, SearchFails, SendReady, Life, Stop, Crash, Restart, notices
<1>3. Ordered' /\ Noticed'
  BY <1>1, <1>2 DEF Base, Ordered, Noticed, Reports, Happened
<1>4. begun' = begun \/ begun' = clock
  BY DEF BeginPoll, BeginFlush, SearchFails, SendReady, Life, Stop, Crash, Restart
<1>5. Windows'
  BY <1>1, <1>4, PolledTypes DEF Base, Windows
<1>6. Cycled'
  BY DEF BeginPoll, BeginFlush, SearchFails, SendReady, Life, Stop, Crash, Restart, Base, Cycled, TypeOK
<1> QED
  BY <1>3, <1>5, <1>6 DEF Base

LEMMA BaseOutside ==
  ASSUME TypeOK, Base, Outside
  PROVE  Base'
<1>1. UNCHANGED <<polled, phase, begun, notified, pending, ready>>
  BY DEF Outside, Tick, Happen, Webhook, cycle, notices
<1>2. Cycled' /\ clock \in Nat /\ clock' \in Nat /\ clock' >= clock
  <2>1. clock' = clock \/ clock' = clock + 1
    BY DEF Outside, Tick, Happen, Webhook, jira
  <2> QED
    BY <1>1, <2>1, PolledTypes DEF Base, Cycled
<1>3. Windows'
  BY <1>1, <1>2, PolledTypes DEF Base, Windows
<1>4. CASE events' = events
  <2>1. Ordered'
    BY <1>2, <1>4, EventTypes DEF Base, Ordered, Happened
  <2>2. \A n \in pending \union ready : n.first \in Nat
    BY SlotIn
  <2>3. Noticed'
    BY <1>1, <1>2, <1>4, <2>2 DEF Base, Noticed, Reports, Happened
  <2> QED
    BY <1>2, <1>3, <2>1, <2>3 DEF Base
<1>5. ASSUME NEW i \in Issues, NEW kind \in Kinds, Happen(i, kind) PROVE Base'
  <2>1. PICK k : k = Len(events) + 1
    OBVIOUS
  <2>2. /\ Happened' = Happened \union {k} /\ \A e \in Happened : events'[e] = events[e]
        /\ events'[k].at = clock
    BY <1>5, <2>1, HappenAdds
  <2>3. clock' = clock
    BY <1>5 DEF Happen
  <2>4. \A e \in Happened : e \in Nat /\ e < k /\ events[e].at <= clock /\ events[e].at \in Nat
    BY SMTT(30), <2>1, HappenedTypes, EventTypes DEF Base, Ordered
  <2>5. Ordered'
    <3>1. \A e \in Happened' : events'[e].at <= clock
      BY <1>2, <2>2, <2>4
    <3>2. ASSUME NEW e \in Happened', NEW f \in Happened', e <= f PROVE events'[e].at <= events'[f].at
      <4>1. CASE f = k
        BY <3>1, <4>1, <2>2
      <4>2. CASE f \in Happened
        <5>1. e \in Happened
          BY <2>1, <2>2, <2>4, <3>2, <4>2, HappenedTypes
        <5> QED
          BY <2>2, <3>2, <4>2, <5>1 DEF Base, Ordered
      <4> QED
        BY <2>2, <4>1, <4>2
    <3> QED
      BY <2>3, <3>1, <3>2 DEF Ordered
  <2>6. Noticed'
    BY <1>1, <2>2, <2>3 DEF Base, Noticed, Reports
  <2> QED
    BY <1>2, <1>3, <2>5, <2>6 DEF Base
<1>6. events' = events \/ \E i \in Issues, kind \in Kinds : Happen(i, kind)
  BY DEF Outside, Tick, Webhook, jira
<1> QED
  BY <1>4, <1>5, <1>6

LEMMA BaseNext ==
  ASSUME TypeOK, Base, [Next]_vars
  PROVE  Base'
<1>1. CASE vars' = vars
  BY <1>1 DEF vars, Base, Ordered, Windows, Noticed, Reports, Cycled, Happened
<1> QED
  BY <1>1, BaseSearch, BaseCycle, BaseOutside DEF Next, Poll

LEMMA BaseInit == Init => Base
BY DEF Init, Base, Ordered, Windows, Noticed, Cycled, Happened, Never

(* ---------------------------------------------------------------------- *)
(* No change is lost                                                       *)

\* What was dealt with stays dealt with.
LEMMA DealtStays ==
  ASSUME TypeOK, Next
  PROVE  /\ \A r \in Subs : excused[r] \subseteq excused'[r]
         /\ \A c \in Chats : \A e \in Ids : reported[c][e] \in Nat /\ reported'[c][e] >= reported[c][e]
<1>1. /\ excused \in [Subs -> SUBSET Ids] /\ reported \in [Chats -> [Ids -> Nat]]
      /\ \A c \in Chats : \A e \in Ids : reported[c][e] \in Nat
  BY DEF TypeOK
<1>2. CASE UNCHANGED <<reported, excused>>
  BY <1>1, <1>2
<1>3. ASSUME NEW s \in Subs, SearchOk(s)
      PROVE  UNCHANGED reported /\ \A r \in Subs : excused[r] \subseteq excused'[r]
  <2>1. PICK P, t, unread, Q : Searches(s, P, t, unread, Q)
    BY <1>3, Searching
  <2> QED
    BY <1>1, <2>1 DEF Searches, Excuse
<1>4. ASSUME NEW n \in ready, SendReady(n)
      PROVE  /\ \A r \in Subs : excused[r] \subseteq excused'[r]
             /\ \A c \in Chats : \A e \in Ids : reported'[c][e] >= reported[c][e]
  <2>1. Deals(n) /\ n.chat \in Chats
    BY <1>4, Sending, SlotIn
  <2>2. CASE Drop(n)
    BY <1>1, <2>2 DEF Drop, Excuse
  <2>3. CASE Report(n.chat, n.evs) /\ UNCHANGED excused
    BY <1>1, <2>1, <2>3, ReportAdds
  <2> QED
    BY <2>1, <2>2, <2>3 DEF Deals
<1>5. ASSUME Crash
      PROVE  UNCHANGED reported /\ \A r \in Subs : excused[r] \subseteq excused'[r]
  BY <1>1, <1>5 DEF Crash
<1>6. \/ \E s \in Subs : SearchOk(s)
      \/ \E n \in ready : SendReady(n)
      \/ Crash
      \/ UNCHANGED <<reported, excused>>
  BY DEF Next, Poll, Life, Outside, BeginPoll, BeginFlush, SearchFails, Stop, Restart, Tick, Happen, Webhook, history
<1> QED
  BY <1>1, <1>2, <1>3, <1>4, <1>5, <1>6

\* A notice that is dealt with settles what it holds for the chat of s.
LEMMA DealsSettle ==
  ASSUME TypeOK, NEW s \in Subs, NEW n \in ready, n.chat = ChatOf[s], NEW e \in n.evs, SendReady(n)
  PROVE  Dealt(s, e)'
<1>1. Deals(n) /\ n.chat \in Chats /\ e \in Ids
  BY Sending, SlotIn
<1>2. CASE Drop(n)
  BY <1>2 DEF Drop, Excuse, SubsOf, Dealt, TypeOK
<1>3. CASE Report(n.chat, n.evs)
  <2>1. reported[n.chat][e] \in Nat
    BY <1>1 DEF TypeOK
  <2>2. reported'[n.chat][e] = reported[n.chat][e] + 1
    BY <1>1, <1>3, ReportAdds
  <2>3. reported'[n.chat][e] > 0
    BY <2>1, <2>2
  <2> QED
    BY <2>3 DEF Dealt
<1> QED
  BY <1>1, <1>2, <1>3 DEF Deals

LEMMA CrashSettles ==
  ASSUME TypeOK, NEW s \in Subs, NEW n \in pending \union ready, n.chat = ChatOf[s], NEW e \in n.evs, Crash
  PROVE  Dealt(s, e)'
<1>1. n \in {m \in pending \union ready : m.chat = ChatOf[s]}
  OBVIOUS
<1>2. e \in UNION {k.evs : k \in {m \in pending \union ready : m.chat = ChatOf[s]}}
  BY <1>1
<1> QED
  BY <1>2 DEF Crash, Dealt

LEMMA SettledStays ==
  ASSUME TypeOK, Next, NEW s \in Subs, NEW e \in Ids, Settled(ChatOf[s], e)
  PROVE  Settled(ChatOf[s], e)'
<1> DEFINE c == ChatOf[s]
<1>1. c \in Chats /\ s \in SubsOf(c)
  BY DEF SubsOf
<1>2. ASSUME NEW r \in SubsOf(c), Dealt(r, e) PROVE Dealt(r, e)'
  <2>1. r \in Subs /\ ChatOf[r] \in Chats
    BY DEF SubsOf
  <2>2. excused[r] \subseteq excused'[r]
    BY <2>1, DealtStays
  <2>3. PICK d \in Chats : d = ChatOf[r]
    BY <2>1
  <2>4. reported[d][e] \in Nat /\ reported'[d][e] >= reported[d][e]
    BY DealtStays
  <2>5. reported[d][e] > 0 => reported'[d][e] > 0 \/ e \in excused'[r]
    <3>1. TypeOK'
      BY TypeNext
    <3>2. reported \in [Chats -> [Ids -> Nat]] /\ reported' \in [Chats -> [Ids -> Nat]]
      BY <3>1 DEF TypeOK
    <3>3. reported[d][e] \in Nat /\ reported'[d][e] \in Nat
      BY <3>2
    <3> QED
      BY <2>4, <3>3
  <2> QED
    BY <1>2, <2>2, <2>3, <2>5 DEF Dealt
<1>3. ASSUME Dealt(s, e)' PROVE Settled(c, e)'
  BY <1>1, <1>3 DEF Settled, SubsOf
<1>4. ASSUME NEW n \in pending \union ready, n.chat = c, e \in n.evs PROVE Settled(c, e)'
  <2>1. CASE n \in pending' \union ready'
    BY <1>4, <2>1 DEF Settled, Held
  <2>2. CASE \E r \in Subs : SearchOk(r)
    <3>1. PICK r \in Subs : SearchOk(r)
      BY <2>2
    <3>2. PICK P, t, unread, Q : Searches(r, P, t, unread, Q)
      BY <3>1, Searching
    <3>3. Q \subseteq Issues
      BY <3>2, PassingIn DEF Searches
    <3>4. n \in pending => \E x \in pending' : x.chat = n.chat /\ n.evs \subseteq x.evs
      BY <3>2, <3>3, AbsorbMakes DEF Searches
    <3>5. ready' = ready
      BY <3>2 DEF Searches
    <3> QED
      BY <1>4, <3>4, <3>5 DEF Settled, Held
  <2>3. CASE SendReady(n) /\ n \in ready
    BY <1>3, <1>4, <2>3, DealsSettle
  <2>4. ASSUME NEW m \in ready, SendReady(m), m # n PROVE n \in pending' \union ready'
    BY <2>4 DEF SendReady
  <2>5. CASE Crash
    BY <1>3, <1>4, <2>5, CrashSettles
  <2>6. CASE BeginFlush
    BY <2>6, <1>4 DEF BeginFlush, TypeOK, Settled, Held
  <2>7. CASE Stop
    BY <2>7, <1>4 DEF Stop, TypeOK, Settled, Held
  <2>8. CASE UNCHANGED <<pending, ready>>
    BY <1>4, <2>8 DEF Settled, Held
  <2>9. \/ \E r \in Subs : SearchOk(r)
        \/ \E m \in ready : SendReady(m)
        \/ Crash \/ BeginFlush \/ Stop
        \/ UNCHANGED <<pending, ready>>
    BY DEF Next, Poll, Life, Outside, BeginPoll, SearchFails, Restart, Tick, Happen, Webhook, notices
  <2> QED
    BY <2>1, <2>2, <2>3, <2>4, <2>5, <2>6, <2>7, <2>8, <2>9
<1>5. (\E r \in SubsOf(c) : Dealt(r, e)) => Settled(c, e)'
  BY <1>2 DEF Settled, SubsOf
<1> QED
  BY <1>4, <1>5 DEF Settled, Held

\* Jira forgets nothing, and what is new happens at the clock.
EventStays(e) ==
  \/ e \in Happened /\ events'[e] = events[e]
  \/ e \notin Happened /\ events'[e].at = clock /\ UNCHANGED <<clock, polled, cycle, notices, guard, history>>

LEMMA EventsStay ==
  ASSUME TypeOK, Next, NEW e \in Happened'
  PROVE  EventStays(e)
<1>1. ASSUME NEW i \in Issues, NEW kind \in Kinds, Happen(i, kind) PROVE EventStays(e)
  <2>1. /\ Happened' = Happened \union {Len(events) + 1} /\ \A f \in Happened : events'[f] = events[f]
        /\ events'[Len(events) + 1].at = clock
    BY <1>1, HappenAdds
  <2> QED
    BY <1>1, <2>1 DEF Happen, EventStays
<1>2. CASE events' = events
  BY <1>2 DEF Happened, EventStays
<1>3. ASSUME NEW s \in Subs, SearchOk(s) PROVE events' = events
  BY <1>3 DEF SearchOk, jira
<1>4. (\E i \in Issues, kind \in Kinds : Happen(i, kind)) \/ events' = events
  BY <1>3 DEF Next, Poll, Life, Outside, BeginPoll, BeginFlush, SearchFails, SendReady, Stop, Crash, Restart,
              Tick, Webhook, jira
<1> QED
  BY <1>1, <1>2, <1>4

LEMMA HappenedStays ==
  ASSUME TypeOK, Next, NEW e \in Happened
  PROVE  e \in Happened' /\ events'[e] = events[e]
<1>1. e \in Happened'
  <2>1. ASSUME NEW i \in Issues, NEW kind \in Kinds, Happen(i, kind) PROVE e \in Happened'
    BY <2>1, HappenAdds
  <2>2. CASE events' = events
    BY <2>2 DEF Happened
  <2>3. ASSUME NEW s \in Subs, SearchOk(s) PROVE events' = events
    BY <2>3 DEF SearchOk, jira
  <2>4. (\E i \in Issues, kind \in Kinds : Happen(i, kind)) \/ events' = events
    BY <2>3 DEF Next, Poll, Life, Outside, BeginPoll, BeginFlush, SearchFails, SendReady, Stop, Crash, Restart,
                Tick, Webhook, jira
  <2> QED
    BY <2>1, <2>2, <2>4
<1> QED
  BY <1>1, EventsStay DEF EventStays

\* An issue was updated no earlier than any of its events.
LEMMA UpdatedLast ==
  ASSUME TypeOK, Base, NEW e \in Happened
  PROVE  Updated(events[e].issue) \in Nat /\ Updated(events[e].issue) >= events[e].at
<1>1. PICK i : i = events[e].issue
  OBVIOUS
<1>2. PICK S \in SUBSET Happened : S = On(i) /\ e \in S
  BY <1>1 DEF On
<1>3. Last(S) \in Happened /\ e <= Last(S)
  BY <1>2, EndsOf
<1>4. events[Last(S)].at \in Nat /\ events[e].at \in Nat
  BY <1>3, EventTypes
<1>5. events[e].at <= events[Last(S)].at
  BY <1>3 DEF Base, Ordered
<1> QED
  BY <1>1, <1>2, <1>4, <1>5 DEF Updated

\* A search that succeeds settles the changes before its cycle.
LEMMA SearchSettles ==
  ASSUME TypeOK, Base, Handled, Seen, Next, NEW s \in Subs \ MentionSubs,
         NEW P, NEW t, NEW unread, NEW Q, Searches(s, P, t, unread, Q),
         NEW e \in Happened, events[e].kind = "change", events[e].at < begun
  PROVE  Settled(ChatOf[s], e)'
<1>1. PICK i \in Issues : i = events[e].issue
  BY EventTypes
<1>2. PICK c \in Chats : c = ChatOf[s]
  OBVIOUS
<1>3. e \in Ids /\ events[e].at \in Nat /\ t \in Nat /\ t = Since(s)
  BY EventTypes, SinceType DEF Searches
<1>4. CASE e \in Skipped(s, P, t, unread)
  <2>1. e \in excused'[s]
    BY <1>4 DEF Searches, Excuse
  <2> QED
    BY <2>1 DEF Settled, Dealt, SubsOf
<1>5. CASE Settled(c, e)
  BY <1>2, <1>3, <1>5, SettledStays
<1>6. CASE events[e].at < t /\ polled[s] # Never
  <2>1. polled[s] > events[e].at
    BY <1>3, <1>6, SinceType
  <2> QED
    BY <1>2, <1>5, <2>1 DEF Handled
<1>7. CASE events[e].at < t /\ polled[s] = Never
  BY <1>4, <1>7 DEF Skipped
<1>8. CASE events[e].at >= t /\ i \notin P
  BY <1>1, <1>4, <1>8 DEF Skipped
<1>9. CASE events[e].at >= t /\ i \in P
  <2>1. Updated(i) >= t
    BY <1>1, <1>3, <1>9, UpdatedLast
  <2>2. i \in Matching(s, P, t, unread)
    BY <1>9, <2>1 DEF Matching
  <2>3. CASE i \in Q
    <3>1. e \in Added(s, i, t, unread)
      BY <1>1, <1>9 DEF Added, Recent, On
    <3>2. PICK x \in pending' : x.chat = c /\ e \in x.evs
      BY <1>2, <2>3, <3>1, SearchAbsorbs DEF AddedIsPending
    <3> QED
      BY <1>2, <3>2 DEF Settled, Held
  <2>4. CASE i \notin Q
    <3>1. ~InPending(c, i) /\ <<c, i>> \in notified
      BY <1>2, <2>2, <2>4 DEF Searches, Passing
    <3>2. SeenIn(c, i)
      BY <1>2, <3>1 DEF Seen
    <3>3. Settled(c, e)
      BY <1>1, <3>1, <3>2 DEF SeenIn, On
    <3> QED
      BY <1>5, <3>3
  <2> QED
    BY <2>3, <2>4
<1> QED
  BY <1>3, <1>6, <1>7, <1>8, <1>9

LEMMA HandledNext ==
  ASSUME TypeOK, Base, Handled, Seen, Next
  PROVE  Handled'
<1> SUFFICES ASSUME NEW s \in Subs \ MentionSubs, NEW e \in Happened', events'[e].kind = "change",
                    polled'[s] > events'[e].at
             PROVE  Settled(ChatOf[s], e)'
  BY DEF Handled
<1>1. e \in Happened /\ events'[e] = events[e]
  <2>1. CASE e \notin Happened /\ events'[e].at = clock /\ polled' = polled
    <3>1. polled[s] \in Int /\ polled[s] <= begun /\ begun <= clock /\ begun \in Nat /\ clock \in Nat
      BY PolledTypes DEF Base, Windows
    <3> QED
      BY <2>1, <3>1
  <2> QED
    BY <2>1, EventsStay DEF EventStays
<1>2. e \in Ids
  BY <1>1, HappenedTypes
<1>3. CASE polled'[s] = polled[s]
  <2>1. Settled(ChatOf[s], e)
    BY <1>1, <1>3 DEF Handled
  <2> QED
    BY <1>2, <2>1, SettledStays
<1>4. CASE SearchOk(s)
  <2>1. PICK P, t, unread, Q : Searches(s, P, t, unread, Q)
    BY <1>4, Searching
  <2>2. polled'[s] = polled[s] \/ polled'[s] = begun
    BY <2>1 DEF Searches, TypeOK
  <2>3. CASE polled'[s] = begun
    BY <1>1, <2>1, <2>3, SearchSettles
  <2> QED
    BY <1>3, <2>2, <2>3
<1>5. ASSUME NEW r \in Subs, r # s, SearchOk(r) PROVE polled'[s] = polled[s]
  <2>1. PICK P, t, unread, Q : Searches(r, P, t, unread, Q)
    BY <1>5, Searching
  <2> QED
    BY <1>5, <2>1 DEF Searches, TypeOK
<1>6. (\E r \in Subs : SearchOk(r)) \/ polled' = polled
  BY DEF Next, Poll, Life, Outside, BeginPoll, BeginFlush, SearchFails, SendReady, Stop, Crash, Restart,
         Tick, Happen, Webhook, jira
<1> QED
  BY <1>3, <1>4, <1>5, <1>6

LEMMA SeenStays ==
  ASSUME TypeOK, Base, Next, begun' = begun,
         \A n \in pending : \E x \in pending' : x.chat = n.chat /\ x.issue = n.issue,
         NEW s \in Subs, NEW i, SeenIn(ChatOf[s], i)
  PROVE  SeenIn(ChatOf[s], i)'
<1>1. CASE InPending(ChatOf[s], i)
  BY <1>1 DEF InPending, SeenIn
<1>2. ASSUME \A e \in On(i) : events[e].kind = "change" /\ events[e].at < begun => Settled(ChatOf[s], e),
             NEW e \in On(i)', events'[e].kind = "change", events'[e].at < begun'
      PROVE  Settled(ChatOf[s], e)'
  <2>1. e \in Happened' /\ events'[e].issue = i
    BY DEF On
  <2>2. begun <= clock /\ begun \in Nat /\ clock \in Nat
    BY PolledTypes DEF Base, Windows
  <2>3. e \in Happened /\ events'[e] = events[e]
    BY <1>2, <2>1, <2>2, EventsStay DEF EventStays
  <2>4. Settled(ChatOf[s], e)
    BY <1>2, <2>1, <2>3 DEF On
  <2> QED
    BY <2>3, <2>4, HappenedTypes, SettledStays
<1> QED
  BY <1>1, <1>2 DEF SeenIn

LEMMA SeenSearch ==
  ASSUME TypeOK, Base, Handled, Seen, NEW s \in Subs, SearchOk(s)
  PROVE  Seen'
<1>1. PICK P, t, unread, Q : Searches(s, P, t, unread, Q)
  BY Searching
<1>2. Next
  BY DEF Next, Poll
<1>3. /\ Q \subseteq Issues /\ AddedIsPending(s, Q, t, unread)
      /\ \A n \in pending : \E x \in pending' : x.chat = n.chat /\ x.issue = n.issue
  BY <1>1, SearchAbsorbs
<1>4. begun' = begun /\ events' = events
  BY <1>1 DEF Searches
<1>5. SUFFICES ASSUME NEW r \in Subs, NEW i \in Issues, <<ChatOf[r], i>> \in notified'
               PROVE  SeenIn(ChatOf[r], i)'
  BY DEF Seen
<1>6. CASE <<ChatOf[r], i>> \in notified
  <2>1. SeenIn(ChatOf[r], i)
    BY <1>6 DEF Seen
  <2> QED
    BY <1>2, <1>3, <1>4, <2>1, SeenStays
<1>7. CASE ChatOf[r] = ChatOf[s] /\ i \in Q
  <2>1. CASE s \in MentionSubs
    <3>1. Mentioned(s, i, t, unread) # {}
      BY <1>1, <1>7, <2>1 DEF Searches, Passing, Matching
    <3>2. PICK e : e \in Added(s, i, t, unread)
      BY <3>1 DEF Added
    <3>3. PICK x \in pending' : x.chat = ChatOf[s] /\ x.issue = i
      BY <1>3, <1>7, <3>2 DEF AddedIsPending
    <3> QED
      BY <1>7, <3>3 DEF SeenIn, InPending
  <2>2. CASE s \notin MentionSubs
    <3>1. ASSUME NEW e \in On(i)', events'[e].kind = "change", events'[e].at < begun'
          PROVE  Settled(ChatOf[r], e)'
      <4>1. e \in Happened /\ events[e].kind = "change" /\ events[e].at < begun
        BY <1>4, <3>1 DEF On, Happened
      <4>2. Settled(ChatOf[s], e)'
        BY <1>1, <1>2, <2>2, <4>1, SearchSettles
      <4> QED
        BY <1>7, <4>2 DEF Settled, Held, SubsOf
    <3> QED
      BY <3>1 DEF SeenIn
  <2> QED
    BY <2>1, <2>2
<1>8. <<ChatOf[r], i>> \in notified \/ (ChatOf[r] = ChatOf[s] /\ i \in Q)
  BY <1>1, <1>5 DEF Searches
<1> QED
  BY <1>6, <1>7, <1>8

LEMMA SeenNext ==
  ASSUME TypeOK, Base, Handled, Seen, Next
  PROVE  Seen'
<1>1. CASE notified' = {}
  BY <1>1 DEF Seen
<1>2. CASE UNCHANGED <<begun, pending, notified>>
  <2>1. ASSUME NEW r \in Subs, NEW i \in Issues, <<ChatOf[r], i>> \in notified'
        PROVE  SeenIn(ChatOf[r], i)'
    <3>1. SeenIn(ChatOf[r], i)
      BY <1>2, <2>1 DEF Seen
    <3> QED
      BY <1>2, <3>1, SeenStays
  <2> QED
    BY <2>1 DEF Seen
<1>3. CASE BeginPoll \/ Stop \/ Restart
  BY <1>1, <1>3 DEF BeginPoll, Stop, Restart, Base, Cycled
<1>4. CASE BeginFlush \/ Crash
  BY <1>1, <1>4 DEF BeginFlush, Crash
<1>5. ASSUME \/ \E s \in Subs : SearchFails(s)
             \/ \E n \in ready : SendReady(n)
             \/ Outside
      PROVE  UNCHANGED <<begun, pending, notified>>
  BY <1>5 DEF SearchFails, SendReady, Outside, Tick, Happen, Webhook, cycle, notices
<1> QED
  BY <1>2, <1>3, <1>4, <1>5, SeenSearch DEF Next, Poll, Life

(* ---------------------------------------------------------------------- *)
(* While nothing fails                                                     *)

\* A search that succeeds and moves the window of its subscription.
Finds(s, P, t, unread, Q) == Searches(s, P, t, unread, Q) /\ polled'[s] = begun

\* The steps of an undisturbed system.
LEMMA Calm ==
  ASSUME TypeOK, Next, Undisturbed, failures' = 0
  PROVE  /\ failures = 0 /\ Steady /\ Punctual /\ (2 * longest <= BatchWindow => Once)
         /\ \/ \E s \in Subs : \E P, t, unread, Q : Finds(s, P, t, unread, Q)
            \/ BeginPoll /\ todo' = Subs
            \/ BeginFlush
            \/ \E n \in ready : SendReady(n)
            \/ Outside
<1>1. failures \in Nat
  BY Bounds DEF TypeOK
<1>2. ~Fail
  BY <1>1 DEF Fail
<1>3. ASSUME NEW s \in Subs, SearchOk(s)
      PROVE  failures' = failures /\ \E P, t, unread, Q : Finds(s, P, t, unread, Q)
  <2>1. PICK P, t, unread, Q : Searches(s, P, t, unread, Q)
    BY <1>3, Searching
  <2>2. Finds(s, P, t, unread, Q) /\ failures' = failures
    BY <1>2, <2>1 DEF Searches, Finds
  <2> QED
    BY <2>2
<1>4. failures = 0
  BY <1>2, <1>3 DEF Next, Poll, Life, Outside, BeginPoll, BeginFlush, SearchFails, SendReady, Stop, Crash, Restart,
                    Tick, Happen, Webhook, history
<1>5. Steady /\ Punctual /\ (2 * longest <= BatchWindow => Once)
  BY <1>4 DEF Undisturbed
<1>6. ~Stop /\ ~Crash /\ ~Restart /\ \A s \in Subs : ~SearchFails(s)
  BY <1>2, <1>5 DEF Stop, Crash, Restart, SearchFails, Steady
<1>7. BeginPoll => todo' = Subs
  BY <1>2 DEF BeginPoll
<1> QED
  BY <1>3, <1>4, <1>5, <1>6, <1>7 DEF Next, Poll, Life

\* The longest cycle so far is no shorter later.
LEMMA LongestGrows ==
  ASSUME TypeOK, Next
  PROVE  longest \in Nat /\ longest' \in Nat /\ longest <= longest'
<1>1. longest \in Nat /\ clock \in Nat /\ begun \in Nat
  BY PolledTypes
<1>2. CASE Tick
  BY <1>1, <1>2 DEF Tick
<1>3. CASE UNCHANGED longest
  BY <1>1, <1>3
<1>4. ASSUME NEW n \in ready, SendReady(n) PROVE UNCHANGED longest
  BY <1>4, Sending DEF Deals
<1>5. ASSUME NEW s \in Subs, SearchOk(s) PROVE UNCHANGED longest
  BY <1>5 DEF SearchOk
<1> QED
  BY <1>2, <1>3, <1>4, <1>5
  DEF Next, Poll, Life, Outside, BeginPoll, BeginFlush, SearchFails, Stop, Crash, Restart, Happen, Webhook, history

LEMMA SteadyNext ==
  ASSUME TypeOK, Base, Next, Undisturbed, failures' = 0
  PROVE  Steady'
<1> USE Bounds
<1>1. /\ Steady
      /\ \/ \E s \in Subs : \E P, t, unread, Q : Finds(s, P, t, unread, Q)
         \/ BeginPoll /\ todo' = Subs
         \/ BeginFlush
         \/ \E n \in ready : SendReady(n)
         \/ Outside
  BY Calm
<1>2. clock \in Nat /\ begun \in Nat /\ longest \in Nat /\ \A s \in Subs : polled[s] \in Int
  BY PolledTypes
<1>3. ASSUME NEW s \in Subs, NEW P, NEW t, NEW unread, NEW Q, Finds(s, P, t, unread, Q) PROVE Steady'
  <2>1. /\ phase = "poll" /\ todo' = todo \ {s} /\ UNCHANGED <<clock, phase, begun, longest>>
        /\ polled'[s] = begun /\ \A r \in Subs \ {s} : polled'[r] = polled[r]
    BY <1>3 DEF Finds, Searches, TypeOK
  <2> QED
    BY <1>1, <2>1 DEF Steady
<1>4. CASE BeginPoll /\ todo' = Subs
  <2>1. phase = "wait" /\ phase' = "poll" /\ begun' = clock /\ UNCHANGED <<clock, polled, longest>>
    BY <1>4 DEF BeginPoll, jira
  <2>2. clock <= begun + longest
    BY <1>1 DEF Steady
  <2>3. \A s \in Subs : polled[s] >= clock - longest \/ clock <= longest
    BY <1>1, <1>2, <2>1, <2>2 DEF Steady
  <2> QED
    BY <1>2, <1>4, <2>1, <2>3 DEF Steady
<1>5. CASE BeginFlush
  BY <1>1, <1>5 DEF BeginFlush, Steady, jira, history
<1>6. ASSUME NEW n \in ready, SendReady(n) PROVE Steady'
  <2>1. Deals(n)
    BY <1>6, Sending
  <2>2. phase = "flush"
    BY <1>1 DEF Steady, TypeOK
  <2>3. phase' \in {"wait", "flush"} /\ UNCHANGED <<clock, begun, todo, polled, longest>>
    BY <2>1, <2>2 DEF Deals
  <2> QED
    BY <1>1, <2>2, <2>3 DEF Steady
<1>7. CASE Outside
  <2>1. UNCHANGED <<polled, phase, begun, todo>>
    BY <1>7 DEF Outside, Tick, Happen, Webhook, cycle
  <2>2. clock' <= begun + longest'
    <3>1. CASE Tick
      BY <1>1, <1>2, <3>1 DEF Tick, Steady
    <3>2. CASE UNCHANGED <<clock, longest>>
      BY <1>1, <3>2 DEF Steady
    <3> QED
      BY <1>7, <3>1, <3>2 DEF Outside, Happen, Webhook, jira, history
  <2>3. longest \in Nat /\ longest' \in Nat /\ longest <= longest'
    BY LongestGrows
  <2>4. \A s \in Subs : phase = "poll" /\ s \in todo => polled[s] >= begun - longest' \/ begun <= longest'
    BY <1>1, <1>2, <2>3 DEF Steady
  <2> QED
    BY <1>1, <2>1, <2>2, <2>4 DEF Steady
<1> QED
  BY <1>1, <1>3, <1>4, <1>5, <1>6, <1>7

\* What a search of an undisturbed system finds is two cycles old at most.
LEMMA FindsFresh ==
  ASSUME TypeOK, Base, Steady, NEW s \in Subs, phase = "poll", s \in todo,
         NEW i, NEW unread, NEW t, t = Since(s), NEW e \in Added(s, i, t, unread)
  PROVE  clock <= events[e].at + 2 * longest
<1> USE Bounds
<1>1. clock \in Nat /\ begun \in Nat /\ longest \in Nat /\ polled[s] \in Int
  BY PolledTypes
<1>2. e \in Happened /\ events[e].at >= t
  BY AddedIn
<1>3. events[e].at \in Nat
  BY <1>2, EventTypes
<1>4. t \in Nat /\ (polled[s] # Never => t = polled[s])
  BY SinceType
<1>5. clock <= begun + longest /\ (polled[s] >= begun - longest \/ begun <= longest)
  BY DEF Steady
<1>6. CASE begun <= longest
  BY <1>1, <1>3, <1>5, <1>6
<1>7. CASE polled[s] >= begun - longest /\ polled[s] # Never
  BY <1>1, <1>2, <1>3, <1>4, <1>5, <1>7
<1>8. CASE polled[s] >= begun - longest /\ polled[s] = Never
  BY <1>1, <1>6, <1>8 DEF Never
<1> QED
  BY <1>5, <1>6, <1>7, <1>8

\* A notice of an undisturbed search is fresh, and not older than it may be.
LEMMA MadeFresh ==
  ASSUME TypeOK, Base, Steady, Punctual, NEW s \in Subs, phase = "poll", s \in todo,
         NEW unread, NEW t, t = Since(s), NEW x, Made(x, s, t, unread)
  PROVE  Fresh(x) /\ begun < x.first + BatchWindow + longest
<1> USE Bounds
<1>1. clock \in Nat /\ begun \in Nat /\ longest \in Nat /\ begun <= clock
  BY PolledTypes DEF Base, Windows
<1>2. ASSUME NEW e \in Added(s, x.issue, t, unread)
      PROVE  events[e].at \in Nat /\ clock <= events[e].at + 2 * longest
  <2>1. events[e].at \in Nat
    BY AddedIn, EventTypes
  <2> QED
    BY <2>1, FindsFresh
<1>3. CASE x.first = clock /\ x.evs = Added(s, x.issue, t, unread)
  BY <1>1, <1>2, <1>3 DEF Fresh
<1>4. ASSUME NEW n \in pending, x.first = n.first, x.evs = n.evs \union Added(s, x.issue, t, unread)
      PROVE  Fresh(x) /\ begun < x.first + BatchWindow + longest
  <2>1. Fresh(n) /\ begun < n.first + BatchWindow + longest /\ n.first <= clock
    BY DEF Punctual, Base, Noticed, Reports
  <2>2. n.first \in Nat
    BY SlotIn
  <2> QED
    BY <1>1, <1>2, <1>4, <2>1, <2>2 DEF Fresh
<1> QED
  BY <1>3, <1>4 DEF Made

LEMMA PunctualFinds ==
  ASSUME TypeOK, Base, Steady, Punctual, NEW s \in Subs, NEW P, NEW t, NEW unread, NEW Q, Finds(s, P, t, unread, Q)
  PROVE  Punctual'
<1>1. Searches(s, P, t, unread, Q)
  BY DEF Finds
<1>2. phase = "poll" /\ s \in todo /\ t = Since(s) /\ UNCHANGED <<clock, events, phase, begun, ready, longest>>
  BY <1>1 DEF Searches
<1>3. \A x \in pending' : x \in pending \/ Made(x, s, t, unread)
  BY <1>1, SearchAbsorbs
<1>4. \A x \in pending' : Fresh(x) /\ begun < x.first + BatchWindow + longest
  BY <1>2, <1>3, MadeFresh DEF Punctual
<1>5. \A x \in ready : Fresh(x) /\ begun < x.first + BatchWindow + longest
  BY DEF Punctual
<1> QED
  BY <1>2, <1>4, <1>5 DEF Punctual, Fresh

\* Notices stay fresh: what they report does not change.
LEMMA FreshStays ==
  ASSUME TypeOK, Base, Next, NEW n \in pending \union ready, Fresh(n)
  PROVE  Fresh(n)'
<1>1. longest \in Nat /\ longest' \in Nat /\ longest <= longest' /\ n.first \in Nat
  BY LongestGrows, SlotIn
<1>2. ASSUME NEW e \in n.evs PROVE n.first <= events'[e].at + 2 * longest'
  <2>1. e \in Happened
    BY DEF Base, Noticed, Reports
  <2>2. events'[e] = events[e] /\ events[e].at \in Nat
    BY <2>1, HappenedStays, EventTypes
  <2> QED
    BY <1>1, <2>2 DEF Fresh
<1> QED
  BY <1>2 DEF Fresh

LEMMA PunctualNext ==
  ASSUME TypeOK, Base, Next, Undisturbed, failures' = 0
  PROVE  Punctual'
<1> USE Bounds
<1>1. /\ Steady /\ Punctual
      /\ \/ \E s \in Subs : \E P, t, unread, Q : Finds(s, P, t, unread, Q)
         \/ BeginPoll /\ todo' = Subs
         \/ BeginFlush
         \/ \E n \in ready : SendReady(n)
         \/ Outside
  BY Calm
<1>2. /\ clock \in Nat /\ begun \in Nat /\ begun <= clock /\ clock <= begun + longest
      /\ longest \in Nat /\ longest' \in Nat /\ longest <= longest'
  BY LongestGrows, <1>1, PolledTypes DEF Base, Windows, Steady
<1>3. \A n \in pending \union ready : n.first \in Nat /\ Fresh(n)' /\ begun < n.first + BatchWindow + longest'
  BY <1>1, <1>2, SlotIn, FreshStays DEF Punctual
<1>4. CASE BeginPoll /\ todo' = Subs
  <2>1. phase = "wait" /\ phase' = "poll" /\ begun' = clock /\ pending' = pending /\ ready' = ready /\ ready = {}
    BY <1>4 DEF BeginPoll, notices, TypeOK
  <2>2. \A n \in pending : begun < n.first + BatchWindow
    BY <1>1, <2>1 DEF Punctual
  <2>3. \A n \in pending : clock < n.first + BatchWindow + longest'
    BY <1>2, <1>3, <2>2
  <2> QED
    BY <1>3, <2>1, <2>3 DEF Punctual
<1>5. CASE BeginFlush
  <2>1. /\ begun' = begun /\ pending' \union ready' \subseteq pending \union ready
        /\ pending' \subseteq pending /\ \A n \in pending' : ~(clock - n.first >= BatchWindow)
    BY <1>5 DEF BeginFlush
  <2>2. \A n \in pending' : begun < n.first + BatchWindow
    BY <1>2, <1>3, <2>1
  <2> QED
    BY <1>3, <2>1, <2>2 DEF Punctual
<1>6. ASSUME NEW n \in ready, SendReady(n) PROVE Punctual'
  <2>1. phase = "flush" /\ begun' = begun /\ pending' = pending /\ ready' \subseteq ready
    BY <1>1, <1>6 DEF SendReady, Steady, TypeOK
  <2> QED
    BY <1>1, <1>3, <2>1 DEF Punctual
<1>7. CASE Outside
  <2>1. UNCHANGED <<phase, begun, pending, ready>>
    BY <1>7 DEF Outside, Tick, Happen, Webhook, cycle, notices
  <2> QED
    BY <1>1, <1>3, <2>1 DEF Punctual
<1> QED
  BY <1>1, <1>4, <1>5, <1>6, <1>7, PunctualFinds

\* What is pending while nothing fails happened a batch window and four cycles
\* ago at most.
LEMMA Flushed ==
  ASSUME TypeOK, Base, Steady, Punctual, NEW n \in pending \union ready, NEW e \in n.evs
  PROVE  events[e].at \in Nat /\ clock < events[e].at + BatchWindow + 4 * longest
<1> USE Bounds
<1>1. e \in Happened
  BY DEF Base, Noticed, Reports
<1>2. events[e].at \in Nat /\ n.first \in Nat /\ clock \in Nat /\ begun \in Nat /\ longest \in Nat
  BY <1>1, EventTypes, SlotIn, PolledTypes
<1>3. n.first <= events[e].at + 2 * longest /\ begun < n.first + BatchWindow + longest
  BY DEF Punctual, Fresh
<1>4. clock <= begun + longest
  BY DEF Steady
<1> QED
  BY <1>2, <1>3, <1>4

\* A slot is not freed by claiming another one.
LEMMA ClaimKeeps ==
  ASSUME TypeOK, NEW slot \in Slots, Free(slot), Claim(slot)
  PROVE  guard'[slot] = clock + GuardTTL /\ \A k \in Slots : guard'[k] >= guard[k]
<1> USE Bounds
<1>1. guard \in [Slots -> 0 .. MaxClock + GuardTTL] /\ clock \in Nat
  BY DEF TypeOK, Clock
<1>2. guard' = [guard EXCEPT ![slot] = clock + GuardTTL]
  BY DEF Claim
<1>3. guard[slot] <= clock
  BY DEF Free
<1>4. \A k \in Slots : guard[k] \in Int
  BY <1>1
<1>5. ASSUME NEW k \in Slots PROVE guard'[k] >= guard[k]
  <2>1. CASE k = slot
    BY <1>1, <1>2, <1>3, <1>4, <2>1
  <2>2. CASE k # slot
    BY <1>1, <1>2, <1>4, <2>2
  <2> QED
    BY <2>1, <2>2
<1> QED
  BY <1>1, <1>2, <1>5

LEMMA SlottedStays ==
  ASSUME TypeOK, Next, \A k \in Slots : guard'[k] >= guard[k],
         NEW c \in Chats, NEW e \in Ids, Slotted(c, e)
  PROVE  Slotted(c, e)'
<1> USE Bounds
<1>1. e \in Happened /\ events[e].issue \in Issues /\ events[e].at \in Nat
  BY EventTypes DEF Slotted
<1>2. e \in Happened' /\ events'[e] = events[e]
  BY <1>1, HappenedStays
<1>3. PICK k \in Slots : k = <<c, events[e].issue, "poller">>
  BY <1>1 DEF Slots
<1>4. guard[k] \in Int /\ guard'[k] \in Int
  <2>1. guard \in [Slots -> 0 .. MaxClock + GuardTTL]
    BY DEF TypeOK
  <2>2. TypeOK'
    BY TypeNext
  <2>3. guard' \in [Slots -> 0 .. MaxClock + GuardTTL]
    BY <2>2 DEF TypeOK
  <2> QED
    BY <2>1, <2>3
<1>5. guard'[k] >= guard[k] /\ guard[k] >= events[e].at + GuardTTL
  BY <1>3 DEF Slotted
<1>6. guard'[k] >= events[e].at + GuardTTL
  BY <1>1, <1>4, <1>5
<1> QED
  BY <1>2, <1>3, <1>6 DEF Slotted

LEMMA OnceStays ==
  ASSUME TypeOK, Next, Once, reported' = reported, \A k \in Slots : guard'[k] >= guard[k]
  PROVE  Once'
BY SlottedStays DEF Once

LEMMA OnceSend ==
  ASSUME TypeOK, Base, Next, Steady, Punctual, 2 * longest <= BatchWindow, Once,
         NEW n \in ready, Worth(n), Free(SlotOf(n)), Claim(SlotOf(n)), Report(n.chat, n.evs)
  PROVE  Once'
<1> USE Bounds
<1>1. SlotOf(n) \in Slots /\ n.chat \in Chats
  BY SlotIn
<1>2. guard'[SlotOf(n)] = clock + GuardTTL /\ \A k \in Slots : guard'[k] >= guard[k]
  BY <1>1, ClaimKeeps
<1>3. SUFFICES ASSUME NEW c \in Chats, NEW e \in Ids, reported'[c][e] > 0
               PROVE  reported'[c][e] = 1 /\ Slotted(c, e)'
  BY DEF Once
<1>4. CASE c = n.chat /\ e \in n.evs
  <2>1. e \in Happened /\ events[e].issue = n.issue /\ events[e].at <= clock
    BY <1>4 DEF Base, Noticed, Reports, Ordered
  <2>2. SlotOf(n) = <<c, events[e].issue, "poller">>
    BY <1>4, <2>1 DEF SlotOf
  <2>3. events[e].at \in Nat /\ clock < events[e].at + BatchWindow + 4 * longest
    BY <1>4, Flushed
  <2>4. clock \in Nat /\ guard[SlotOf(n)] \in Int /\ guard[SlotOf(n)] <= clock
    BY <1>1 DEF TypeOK, Clock, Free
  <2>5. ~(guard[SlotOf(n)] >= events[e].at + GuardTTL)
    <3>1. longest \in Nat
      BY PolledTypes
    <3> QED
      BY <2>3, <2>4, <3>1 DEF GuardTTL
  <2>6. ~(reported[c][e] > 0)
    BY <2>2, <2>5 DEF Once, Slotted
  <2>7. reported[c][e] \in Nat
    BY DEF TypeOK
  <2>8. reported'[c][e] = reported[c][e] + 1
    BY <1>1, <1>4, ReportAdds
  <2>9. reported'[c][e] = 1
    BY <2>6, <2>7, <2>8
  <2>10. e \in Happened' /\ events'[e] = events[e]
    BY <2>1, HappenedStays
  <2>11. clock + GuardTTL >= events[e].at + GuardTTL
    BY <2>1, <2>3, <2>4
  <2> QED
    BY <1>2, <2>2, <2>9, <2>10, <2>11 DEF Slotted
<1>5. CASE ~(c = n.chat /\ e \in n.evs)
  <2>1. reported'[c][e] = reported[c][e]
    <3>1. CASE c = n.chat
      BY <1>1, <1>5, <3>1, ReportAdds
    <3>2. CASE c # n.chat
      BY <1>1, <3>2, ReportAdds
    <3> QED
      BY <3>1, <3>2
  <2>2. reported[c][e] = 1 /\ Slotted(c, e)
    BY <1>3, <2>1 DEF Once
  <2> QED
    BY <1>2, <2>1, <2>2, SlottedStays
<1> QED
  BY <1>4, <1>5

LEMMA OnceNext ==
  ASSUME TypeOK, Base, Next, Undisturbed, failures' = 0, 2 * longest' <= BatchWindow
  PROVE  Once'
<1>0. 2 * longest <= BatchWindow
  BY LongestGrows, Bounds
<1>1. /\ failures = 0 /\ Steady /\ Punctual /\ Once
      /\ \/ \E s \in Subs : \E P, t, unread, Q : Finds(s, P, t, unread, Q)
         \/ BeginPoll /\ todo' = Subs
         \/ BeginFlush
         \/ \E n \in ready : SendReady(n)
         \/ Outside
  BY <1>0, Calm
<1>2. \A k \in Slots : guard[k] \in Int /\ guard[k] >= guard[k]
  BY Bounds DEF TypeOK
<1>3. CASE UNCHANGED <<guard, reported>>
  BY <1>1, <1>2, <1>3, OnceStays
<1>4. ASSUME NEW n \in ready, SendReady(n) PROVE Once'
  <2>1. Deals(n) /\ ~Fail
    BY <1>1, <1>4, Sending DEF Fail
  <2> QED
    BY <1>1, <1>3, <2>1, OnceSend DEF Deals, Drop
<1>5. ASSUME NEW c \in Chats, NEW i \in Issues, Webhook(c, i) PROVE Once'
  <2>1. <<c, i, "webhook">> \in Slots
    BY DEF Slots
  <2>2. \A k \in Slots : guard'[k] >= guard[k]
    BY <1>5, <2>1, ClaimKeeps DEF Webhook
  <2>3. reported' = reported
    BY <1>5 DEF Webhook
  <2> QED
    BY <1>1, <2>2, <2>3, OnceStays
<1>6. ASSUME BeginPoll \/ BeginFlush \/ Tick \/ \E i \in Issues, kind \in Kinds : Happen(i, kind)
      PROVE  UNCHANGED <<guard, reported>>
  BY <1>6 DEF BeginPoll, BeginFlush, Tick, Happen, history
<1>7. ASSUME NEW s \in Subs, NEW P, NEW t, NEW unread, NEW Q, Finds(s, P, t, unread, Q)
      PROVE  UNCHANGED <<guard, reported>>
  BY <1>7 DEF Finds, Searches
<1> QED
  BY <1>1, <1>3, <1>4, <1>5, <1>6, <1>7 DEF Outside

(* ---------------------------------------------------------------------- *)
(* The theorems                                                            *)

LEMMA InvInit == Init => IInv
<1> SUFFICES ASSUME Init PROVE IInv
  OBVIOUS
<1>1. TypeOK /\ Base
  BY TypeInit, BaseInit
<1>2. Handled /\ Seen
  BY DEF Init, Handled, Seen, Happened
<1>3. Steady
  BY Bounds DEF Init, Steady
<1>4. Punctual
  BY DEF Init, Punctual
<1>5. Once
  BY DEF Init, Once
<1> QED
  BY <1>1, <1>2, <1>3, <1>4, <1>5 DEF IInv, Undisturbed

LEMMA InvNext == IInv /\ [Next]_vars => IInv'
<1> SUFFICES ASSUME IInv, [Next]_vars PROVE IInv'
  OBVIOUS
<1>1. TypeOK' /\ Base'
  BY TypeNext, BaseNext DEF IInv
<1>2. CASE Next
  <2>1. Handled' /\ Seen'
    BY <1>2, HandledNext, SeenNext DEF IInv
  <2>2. Undisturbed'
    BY <1>2, SteadyNext, PunctualNext, OnceNext DEF IInv, Undisturbed
  <2> QED
    BY <1>1, <2>1, <2>2 DEF IInv
<1>3. CASE vars' = vars
  <2>1. Handled' /\ Seen'
    BY <1>3 DEF vars, IInv, Handled, Seen, SeenIn, InPending, Settled, Held, Dealt, SubsOf, On, Happened
  <2>2. Undisturbed'
    BY <1>3 DEF vars, IInv, Undisturbed, Steady, Punctual, Fresh, Once, Slotted, Happened
  <2> QED
    BY <1>1, <2>1, <2>2 DEF IInv
<1> QED
  BY <1>2, <1>3

LEMMA Invariance == Spec => []IInv
  BY InvInit, InvNext, PTL DEF Spec

\* The poller's state is well typed: at most one notice is pending for a chat
\* and issue, notices are taken for sending exactly while they are sent, and a
\* cycle at work is the only one with subscriptions to search.
THEOREM PollerTypes == Spec => []TypeOK
<1>1. IInv => TypeOK
  BY DEF IInv
<1> QED
  BY <1>1, Invariance, PTL

\* No change is lost silently: when a subscription's window has moved past a
\* change and no notice holds it, it was reported to the chat or dropped by one
\* of the weaknesses the model names, for a subscription of that chat.
THEOREM NoChangeIsLost == Spec => []ChangeIsDealtWith
<1>1. IInv => ChangeIsDealtWith
  BY DEF IInv, Handled, Settled, Held, Passed, ChangeIsDealtWith
<1> QED
  BY <1>1, Invariance, PTL

\* While nothing fails and no cycle takes longer than half a batch window, the
\* poller reports an event to a chat once, although the windows of its
\* searches overlap and several subscriptions find it.
THEOREM ReportedOnce == Spec => []RepeatNeedsTrouble
<1>1. IInv => RepeatNeedsTrouble
  <2> SUFFICES ASSUME IInv, failures = 0, 2 * longest <= BatchWindow, NEW c \in Chats, NEW e \in Ids PROVE reported[c][e] <= 1
    BY DEF RepeatNeedsTrouble
  <2>1. Once /\ reported[c][e] \in Nat
    BY DEF IInv, Undisturbed, TypeOK
  <2> QED
    BY <2>1 DEF Once
<1> QED
  BY <1>1, Invariance, PTL

\* While nothing fails, whatever keeps happening, what a notice holds happened
\* a batch window and four of the longest cycles ago at most.
THEOREM FlushedInTime == Spec => []NoticeIsFlushed
<1>1. IInv => NoticeIsFlushed
  <2> SUFFICES ASSUME IInv, failures = 0, NEW n \in pending \union ready, NEW e \in n.evs
               PROVE  clock - events[e].at < BatchWindow + 4 * longest
    BY DEF NoticeIsFlushed
  <2>1. events[e].at \in Nat /\ clock < events[e].at + BatchWindow + 4 * longest
    BY Flushed DEF IInv, Undisturbed
  <2>2. clock \in Nat /\ longest \in Nat
    BY PolledTypes DEF IInv
  <2> QED
    BY <2>1, <2>2, Bounds
<1> QED
  BY <1>1, Invariance, PTL
=============================================================================
