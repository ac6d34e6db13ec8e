----------------------------- MODULE DeliveryProofs -----------------------------
(***************************************************************************)
(* Proofs about what reaches a chat without being asked for, for all       *)
(* values of the constants: scheduler-svc fires reports and publishes them *)
(* (Scheduler), and whatever is published goes through the NOTIFY stream   *)
(* and telegram-svc (NotifyPipeline).  The two share no variable of the    *)
(* model: each has an inductive invariant of its own.                      *)
(***************************************************************************)
EXTENDS NotifyPipeline, Scheduler, FiniteSetTheorems, TLAPS

(***************************************************************************)
(* Part I.  Scheduler: its states are well typed, every fire is accounted  *)
(* for, and a user has the one daily he picked.                            *)
(***************************************************************************)

USE BoundsAssumption, NullAssumption

(* ---------------------------------------------------------------------- *)
(* The inductive invariant                                                 *)

RowTypes ==
  /\ rows \subseteq Rows /\ connected \in [Users -> BOOLEAN]
  /\ handler \in [Handlers -> Updates \union {Idle}]
  /\ told \in [Pairs -> Times \union {NoTime}] /\ unsure \subseteq Pairs
  /\ cmds \in 0 .. MaxCmds /\ discs \in 0 .. MaxDisc

\* There are as many rows as are stored at most: an id is always left.
RowsCount == IsFiniteSet(rows) /\ Cardinality(rows) <= MaxRows
JobsCount == IsFiniteSet(jobs) /\ Cardinality(jobs) <= MaxRows

\* The handler saves the daily of p.
Saving(h, p) == handler[h] # Idle /\ handler[h].op # "creds" /\ handler[h].pair = p

\* A pair whose commands did not overlap has one handler that saves its daily,
\* and one about to insert it still finds none.
OneSaver ==
  \A p \in Pairs \ unsure :
    /\ \A g, h \in Handlers : Saving(g, p) /\ Saving(h, p) => g = h
    /\ \A h \in Handlers : Saving(h, p) /\ handler[h].op = "insert" => Dailies(p) = {}

Active == {s \in Slots : fire[s] # NoFire}

LifeTypes ==
  /\ jobs \subseteq Jobs
  /\ phase \in {"down", "loading", "running", "stopping"} /\ mu \in {"free", "start", "stop"}
  /\ mu = "start" <=> phase = "loading"
  /\ phase \in {"down", "loading"} => jobs = {} /\ \A s \in Slots : fire[s] = NoFire
  /\ fire \in [Slots -> Fires \union {NoFire}]

\* Fires are under way, answered or lost.
Conserved ==
  /\ fired \in 0 .. MaxFires /\ answered \in Nat /\ lost \in Nat
  /\ fired = answered + lost + Cardinality(Active)

RowInv == RowTypes /\ RowsCount /\ OneSaver /\ DailyIsAsPicked
LifeInv == LifeTypes /\ JobsCount /\ Conserved
IInv == RowInv /\ LifeInv /\ troubles \in 0 .. MaxTroubles

LEMMA Bounds == MaxRows \in Nat /\ MaxCmds \in Nat /\ MaxFires \in Nat /\ MaxTroubles \in Nat /\ MaxDisc \in Nat
OBVIOUS

LEMMA ActiveCount ==
  /\ IsFiniteSet(Active) /\ Cardinality(Active) \in Nat /\ Active \subseteq Slots
<1>1. Active \subseteq Slots
  BY DEF Active
<1> QED
  BY <1>1, FS_Subset, FS_CardinalityType

LEMMA TypesFollow ==
  ASSUME IInv
  PROVE  TypeOK
<1>1. {fired, answered, lost} \subseteq 0 .. MaxFires
  BY ActiveCount DEF IInv, LifeInv, Conserved
<1> QED
  BY <1>1 DEF IInv, RowInv, RowTypes, LifeInv, LifeTypes, Conserved, Active, TypeOK

(* ---------------------------------------------------------------------- *)
(* Rows                                                                    *)

\* The ids of a finite set of rows or jobs are no more than they are.
LEMMA IdsCount ==
  ASSUME NEW S, IsFiniteSet(S)
  PROVE  IsFiniteSet({r.id : r \in S}) /\ Cardinality({r.id : r \in S}) <= Cardinality(S)
<1> DEFINE T == {r.id : r \in S}
           f == [r \in S |-> r.id]
<1>1. f \in Surjection(S, T)
  BY DEF Surjection
<1> QED
  BY <1>1, FS_Surjection

LEMMA UnionCount ==
  ASSUME NEW S, NEW T, IsFiniteSet(S), IsFiniteSet(T)
  PROVE  /\ IsFiniteSet(S \union T) /\ Cardinality(S \union T) \in Nat
         /\ Cardinality(S \union T) <= Cardinality(S) + Cardinality(T)
<1>1. IsFiniteSet(S \intersect T) /\ IsFiniteSet(S \union T)
  BY FS_Intersection, FS_Union
<1>2. /\ Cardinality(S) \in Nat /\ Cardinality(T) \in Nat
      /\ Cardinality(S \intersect T) \in Nat /\ Cardinality(S \union T) \in Nat
  BY <1>1, FS_CardinalityType
<1>3. Cardinality(S \union T) = Cardinality(S) + Cardinality(T) - Cardinality(S \intersect T)
  BY FS_Union
<1> QED
  BY <1>1, <1>2, <1>3

\* While another row can be stored, an id is left for it.
LEMMA IdIsLeft ==
  ASSUME RowsCount, JobsCount, Cardinality(rows) < MaxRows
  PROVE  FreshIds # {}
<1> DEFINE A == {r.id : r \in rows}
           B == {r.id : r \in jobs}
<1>1. /\ IsFiniteSet(A) /\ Cardinality(A) <= Cardinality(rows) /\ Cardinality(A) \in Nat
      /\ IsFiniteSet(B) /\ Cardinality(B) <= Cardinality(jobs) /\ Cardinality(B) \in Nat
      /\ Cardinality(rows) \in Nat /\ Cardinality(jobs) \in Nat
  BY IdsCount, FS_CardinalityType DEF RowsCount, JobsCount
<1>2. IsFiniteSet(Ids) /\ Cardinality(Ids) = 2 * MaxRows
  <2>1. PICK n \in Nat : n = 2 * MaxRows
    BY Bounds
  <2>2. IsFiniteSet(1 .. n) /\ Cardinality(1 .. n) = IF 1 > n THEN 0 ELSE n - 1 + 1
    <3>1. 1 \in Int /\ n \in Int
      OBVIOUS
    <3> QED
      BY <3>1, FS_Interval
  <2>3. Cardinality(1 .. n) = n
    BY <2>2
  <2> QED
    BY <2>1, <2>2, <2>3 DEF Ids
<1>3. IsFiniteSet(A \union B) /\ Cardinality(A \union B) <= Cardinality(A) + Cardinality(B)
      /\ Cardinality(A \union B) \in Nat
  BY <1>1, UnionCount
<1>4. Cardinality(A \union B) < Cardinality(Ids)
  BY <1>1, <1>2, <1>3 DEF RowsCount, JobsCount
<1>5. ASSUME FreshIds = {} PROVE FALSE
  <2>1. Ids \subseteq A \union B
    BY <1>5 DEF FreshIds
  <2>2. Cardinality(Ids) <= Cardinality(A \union B)
    BY <1>3, <2>1, FS_Subset
  <2> QED
    BY <1>2, <1>3, <1>4, <2>2, Bounds
<1> QED
  BY <1>5

\* Create stores a row with such an id.
LEMMA Creates ==
  ASSUME IInv, NEW p \in Pairs, NEW kind \in {"jql", "daily"}, NEW t \in Times \union {NoTime},
         Create(p, kind, t)
  PROVE  \E r \in Rows :
           /\ r.pair = p /\ r.kind = kind /\ r.at = t /\ rows' = rows \union {r}
           /\ IsFiniteSet(rows') /\ Cardinality(rows') <= MaxRows
<1>1. PICK i \in Ids : rows' = rows \union {[id |-> i, pair |-> p, kind |-> kind, at |-> t]}
  <2>1. FreshIds # {} /\ FreshIds \subseteq Ids
    BY IdIsLeft DEF IInv, RowInv, LifeInv, Create, FreshIds
  <2>2. (CHOOSE i \in FreshIds : TRUE) \in Ids
    BY <2>1
  <2> QED
    BY <2>2 DEF Create
<1>2. PICK r \in Rows : r = [id |-> i, pair |-> p, kind |-> kind, at |-> t]
  BY DEF Rows
<1>3. r.pair = p /\ r.kind = kind /\ r.at = t
  BY <1>2
<1>4. IsFiniteSet(rows) /\ Cardinality(rows) \in Nat /\ Cardinality(rows) < MaxRows
  BY FS_CardinalityType DEF IInv, RowInv, RowsCount, Create
<1>5. rows' = rows \union {r}
  BY <1>1, <1>2
<1>6. IsFiniteSet(rows') /\ Cardinality(rows') \in {Cardinality(rows), Cardinality(rows) + 1}
  BY <1>4, <1>5, FS_AddElement
<1>7. Cardinality(rows') <= MaxRows
  BY <1>4, <1>6, Bounds
<1> QED
  BY <1>3, <1>5, <1>6, <1>7

\* The daily of one pair is as picked.
Right(p) ==
  IF told[p] = NoTime THEN Dailies(p) = {}
  ELSE \E r \in rows : Dailies(p) = {r} /\ r.at = told[p]

\* A step leaves p's daily, its answer and its handlers alone.
Spared(p) ==
  /\ Dailies(p)' = Dailies(p) /\ told'[p] = told[p]
  /\ \A h \in Handlers : Saving(h, p)' => Saving(h, p) /\ handler'[h] = handler[h]

\* What a step has to show of each pair that is sure after it.
LEMMA PairByPair ==
  ASSUME RowInv,
         \A p \in Pairs \ unsure' :
           \/ p \notin unsure /\ Spared(p)
           \/ /\ Right(p)'
              /\ \A g, h \in Handlers : Saving(g, p)' /\ Saving(h, p)' => g = h
              /\ \A h \in Handlers : Saving(h, p)' /\ handler'[h].op = "insert" => Dailies(p)' = {}
  PROVE  OneSaver' /\ DailyIsAsPicked'
<1>1. ASSUME NEW p \in Pairs \ unsure', p \notin unsure, Spared(p)
      PROVE  /\ Right(p)'
             /\ \A g, h \in Handlers : Saving(g, p)' /\ Saving(h, p)' => g = h
             /\ \A h \in Handlers : Saving(h, p)' /\ handler'[h].op = "insert" => Dailies(p)' = {}
  <2>1. Right(p)
    BY <1>1 DEF RowInv, DailyIsAsPicked, Right
  <2>2. Right(p)'
    BY <1>1, <2>1 DEF Right, Spared, Dailies
  <2> QED
    BY <1>1, <2>2 DEF RowInv, OneSaver, Spared
<1>2. DailyIsAsPicked'
  BY <1>1 DEF DailyIsAsPicked, Right
<1>3. OneSaver'
  BY <1>1 DEF OneSaver
<1> QED
  BY <1>2, <1>3

(* ---------------------------------------------------------------------- *)
(* The handlers' steps                                                     *)

\* The rows are typed and within their number.
LEMMA Untouched ==
  ASSUME IInv, UNCHANGED <<rows, told, unsure, handler>>
  PROVE  OneSaver' /\ DailyIsAsPicked' /\ RowsCount'
<1>1. \A p \in Pairs : Spared(p)
  BY DEF Spared, Dailies, Saving
<1>2. OneSaver' /\ DailyIsAsPicked'
  BY <1>1, PairByPair DEF IInv
<1> QED
  BY <1>2 DEF IInv, RowInv, RowsCount

\* Removing rows keeps their number within its bound.
LEMMA Fewer ==
  ASSUME IInv, rows' \subseteq rows
  PROVE  RowsCount' /\ rows' \subseteq Rows
BY FS_Subset, FS_CardinalityType, Bounds DEF IInv, RowInv, RowsCount, RowTypes

LEMMA UpdateTypes ==
  ASSUME RowTypes, NEW h \in Handlers, handler[h] # Idle
  PROVE  /\ handler[h].op \in {"save", "insert", "creds"}
         /\ handler[h].op # "creds" =>
              /\ handler[h].pair \in Pairs /\ handler[h].at \in Times
              /\ handler[h] \in [op : {"save", "insert"}, pair : Pairs, at : Times]
         /\ handler[h].op = "creds" => handler[h].user \in Users
BY DEF RowTypes, Updates

LEMMA ScheduleKeeps ==
  ASSUME IInv, NEW p \in Pairs, Schedule(p)
  PROVE  RowInv'
<1>1. /\ Create(p, "jql", NoTime) /\ cmds' \in 0 .. MaxCmds
      /\ UNCHANGED <<handler, told, unsure, connected, discs>>
  BY DEF Schedule, Command, userVars, IInv, RowInv, RowTypes
<1>2. PICK r \in Rows : r.kind = "jql" /\ rows' = rows \union {r} /\ RowsCount'
  BY <1>1, Creates DEF RowsCount
<1>3. \A q \in Pairs : Spared(q)
  BY <1>1, <1>2 DEF Spared, Dailies, IsDaily, Saving
<1>4. OneSaver' /\ DailyIsAsPicked'
  BY <1>1, <1>3, PairByPair DEF IInv
<1>5. RowTypes'
  BY <1>1, <1>2 DEF IInv, RowInv, RowTypes
<1> QED
  BY <1>2, <1>4, <1>5 DEF RowInv

LEMMA UnscheduleKeeps ==
  ASSUME IInv, NEW c \in Chats, Unschedule(c)
  PROVE  RowInv'
<1>1. /\ rows' = {r \in rows : r.pair[1] # c} /\ cmds' \in 0 .. MaxCmds
      /\ told' = [p \in Pairs |-> IF p[1] = c THEN NoTime ELSE told[p]]
      /\ unsure' = (unsure \ ({c} \X Users)) \union Overlapped({c} \X Users)
      /\ UNCHANGED <<handler, connected, discs>>
  BY DEF Unschedule, DeleteByChat, CleanSlate, Command, userVars, IInv, RowInv, RowTypes
<1>2. Overlapped({c} \X Users) \subseteq Pairs
  BY DEF Overlapped, Pairs
<1>3. RowTypes' /\ RowsCount'
  BY <1>1, <1>2, Fewer DEF IInv, RowInv, RowTypes
<1>4. ASSUME NEW p \in Pairs \ unsure'
      PROVE  \/ p \notin unsure /\ Spared(p)
             \/ /\ Right(p)'
                /\ \A g, h \in Handlers : Saving(g, p)' /\ Saving(h, p)' => g = h
                /\ \A h \in Handlers : Saving(h, p)' /\ handler'[h].op = "insert" => Dailies(p)' = {}
  <2>1. CASE p[1] # c
    <3>1. p \notin unsure
      BY <1>1, <2>1
    <3>2. Spared(p)
      BY <2>1, <1>1 DEF Spared, Dailies, IsDaily, Saving
    <3> QED
      BY <3>1, <3>2
  <2>2. CASE p[1] = c
    <3>1. ~Busy(p)
      BY <1>1, <2>2 DEF Overlapped, Pairs
    <3>2. \A h \in Handlers : ~Saving(h, p)'
      BY <1>1, <3>1 DEF Busy, Saving
    <3>3. Dailies(p)' = {} /\ told'[p] = NoTime
      BY <1>1, <2>2 DEF Dailies, IsDaily
    <3> QED
      BY <3>2, <3>3 DEF Right
  <2> QED
    BY <2>1, <2>2
<1>5. OneSaver' /\ DailyIsAsPicked'
  BY <1>1, <1>4, PairByPair DEF IInv
<1> QED
  BY <1>3, <1>5 DEF RowInv

\* Some of the rows may be gone.
LEMMA UnscheduleFailsKeeps ==
  ASSUME IInv, NEW c \in Chats, UnscheduleFails(c)
  PROVE  RowInv'
<1>1. /\ rows' \subseteq rows /\ cmds' \in 0 .. MaxCmds
      /\ unsure' = unsure \union {p \in {c} \X Users : Dailies(p)' # Dailies(p)}
      /\ UNCHANGED <<handler, told, connected, discs>>
  BY DEF UnscheduleFails, DeleteFails, Command, userVars, IInv, RowInv, RowTypes
<1>2. \A r \in rows : r.pair[1] # c => r \in rows'
  BY DEF UnscheduleFails, DeleteFails
<1>3. {p \in {c} \X Users : Dailies(p)' # Dailies(p)} \subseteq Pairs
  BY DEF Pairs
<1>4. RowTypes' /\ RowsCount'
  BY <1>1, <1>3, Fewer DEF IInv, RowInv, RowTypes
<1>5. ASSUME NEW p \in Pairs \ unsure'
      PROVE  p \notin unsure /\ Spared(p)
  <2>1. Dailies(p)' = Dailies(p)
    <3>1. CASE p[1] = c
      BY <1>1, <3>1 DEF Pairs
    <3>2. CASE p[1] # c
      BY <1>1, <1>2, <3>2 DEF Dailies, IsDaily
    <3> QED
      BY <3>1, <3>2
  <2> QED
    BY <1>1, <2>1 DEF Spared, Saving
<1>6. OneSaver' /\ DailyIsAsPicked'
  BY <1>5, PairByPair DEF IInv
<1> QED
  BY <1>4, <1>6 DEF RowInv

\* A pair of the user that is sure afterwards has no daily and no handler.
LEMMA DisconnectKeeps ==
  ASSUME IInv, NEW h \in Handlers, NEW u \in Users, Disconnect(h, u)
  PROVE  RowInv'
<1>1. /\ handler[h] = Idle /\ rows' \subseteq rows /\ discs' \in 0 .. MaxDisc
      /\ handler' = [handler EXCEPT ![h] = [op |-> "creds", user |-> u]]
      /\ told' = [p \in Pairs |-> IF p[2] = u THEN NoTime ELSE told[p]]
      /\ UNCHANGED <<connected, cmds>>
  BY DEF Disconnect, NextHandler, DeleteByUserID, DeleteFails, IInv, RowInv, RowTypes
<1>2. \A r \in rows : r.pair[2] # u => r \in rows'
  BY DEF Disconnect, DeleteByUserID, DeleteFails
<1>3. unsure' \subseteq Pairs /\ \A p \in Pairs : p[2] # u /\ p \in unsure => p \in unsure'
  BY DEF Disconnect, CleanSlate, Overlapped, Pairs, IInv, RowInv, RowTypes
<1>4. \A p \in Pairs : p[2] = u /\ p \notin unsure' => ~Busy(p) /\ Dailies(p)' = {}
  BY DEF Disconnect, CleanSlate, Overlapped, DeleteByUserID, Dailies, IsDaily, Pairs
<1>5. RowTypes' /\ RowsCount'
  BY <1>1, <1>3, Fewer DEF IInv, RowInv, RowTypes, Updates
<1>6. \A g \in Handlers : \A p : Saving(g, p)' => Saving(g, p) /\ handler'[g] = handler[g]
  BY <1>1 DEF Saving, IInv, RowInv, RowTypes
<1>7. ASSUME NEW p \in Pairs \ unsure'
      PROVE  \/ p \notin unsure /\ Spared(p)
             \/ /\ Right(p)'
                /\ \A f, g \in Handlers : Saving(f, p)' /\ Saving(g, p)' => f = g
                /\ \A g \in Handlers : Saving(g, p)' /\ handler'[g].op = "insert" => Dailies(p)' = {}
  <2>1. CASE p[2] # u
    <3>1. Dailies(p)' = Dailies(p) /\ told'[p] = told[p]
      BY <1>1, <1>2, <2>1 DEF Dailies, IsDaily
    <3> QED
      BY <1>3, <1>6, <2>1, <3>1 DEF Spared
  <2>2. CASE p[2] = u
    <3>1. ~Busy(p) /\ Dailies(p)' = {}
      BY <1>4, <2>2
    <3>2. \A g \in Handlers : ~Saving(g, p)'
      BY <1>6, <3>1 DEF Busy, Saving
    <3>3. told'[p] = NoTime
      BY <1>1, <2>2
    <3> QED
      BY <3>1, <3>2, <3>3 DEF Right
  <2> QED
    BY <2>1, <2>2
<1>8. OneSaver' /\ DailyIsAsPicked'
  BY <1>7, PairByPair DEF IInv
<1> QED
  BY <1>5, <1>8 DEF RowInv

LEMMA PickTimeKeeps ==
  ASSUME IInv, NEW h \in Handlers, NEW p \in Pairs, NEW t \in Times, PickTime(h, p, t)
  PROVE  RowInv'
<1>1. /\ handler[h] = Idle /\ cmds' \in 0 .. MaxCmds
      /\ handler' = [handler EXCEPT ![h] = [op |-> "save", pair |-> p, at |-> t]]
      /\ unsure' = unsure \union Overlapped({p})
      /\ UNCHANGED <<rows, told, connected, discs>>
  BY DEF PickTime, NextHandler, Command, userVars, IInv, RowInv, RowTypes
<1>2. Overlapped({p}) \subseteq Pairs
  BY DEF Overlapped
<1>3. RowTypes' /\ RowsCount'
  BY <1>1, <1>2 DEF IInv, RowInv, RowTypes, RowsCount, Updates
<1>4. /\ \A g \in Handlers \ {h} : \A q : (Saving(g, q)' <=> Saving(g, q)) /\ handler'[g] = handler[g]
      /\ \A q : Saving(h, q)' => q = p
      /\ handler'[h].op = "save"
  BY <1>1 DEF Saving, IInv, RowInv, RowTypes
<1>5. ASSUME NEW q \in Pairs \ unsure'
      PROVE  \/ q \notin unsure /\ Spared(q)
             \/ /\ Right(q)'
                /\ \A f, g \in Handlers : Saving(f, q)' /\ Saving(g, q)' => f = g
                /\ \A g \in Handlers : Saving(g, q)' /\ handler'[g].op = "insert" => Dailies(q)' = {}
  <2>1. CASE q # p
    <3>1. q \notin unsure
      BY <1>1
    <3>2. Spared(q)
      BY <2>1, <1>1, <1>4 DEF Spared, Dailies, IsDaily
    <3> QED
      BY <3>1, <3>2
  <2>2. CASE q = p
    <3>1. ~Busy(p)
      BY <1>1, <2>2 DEF Overlapped
    <3>2. \A g \in Handlers : Saving(g, p)' => g = h
      BY <1>4, <3>1 DEF Busy, Saving
    <3>3. Right(p)'
      BY <1>1, <2>2 DEF IInv, RowInv, DailyIsAsPicked, Right, Dailies
    <3> QED
      BY <2>2, <3>2, <3>3, <1>4
  <2> QED
    BY <2>1, <2>2
<1>6. OneSaver' /\ DailyIsAsPicked'
  BY <1>1, <1>5, PairByPair DEF IInv
<1> QED
  BY <1>3, <1>6 DEF RowInv

\* The daily is updated, the handler is done, and the user is told, or its
\* pair is taken for unsure.
LEMMA UpdateKeeps ==
  ASSUME IInv, NEW h \in Handlers, handler[h] # Idle, handler[h].op = "save",
         NEW p \in Pairs, NEW t \in Times, p = handler[h].pair, t = handler[h].at,
         NEW r \in Dailies(p), Update(r, t), handler' = [handler EXCEPT ![h] = Idle],
         UNCHANGED <<cmds, connected, discs>>,
         \/ told' = [told EXCEPT ![p] = t] /\ unsure' = unsure
         \/ told' = told /\ unsure' = unsure \union {p}
  PROVE  RowInv'
<1>1. /\ Saving(h, p)
      /\ \A q \in Pairs \ unsure, g \in Handlers : Saving(h, q) /\ Saving(g, q) => g = h
  BY DEF Saving, IInv, RowInv, OneSaver
<1>2. r \in rows /\ r \in Rows /\ r.pair = p /\ r.kind = "daily"
  BY DEF Dailies, IsDaily, IInv, RowInv, RowTypes
<1>3. PICK n \in Rows : n = [r EXCEPT !.at = t] /\ n.pair = p /\ n.kind = "daily" /\ n.at = t
  <2>1. PICK n : n = [r EXCEPT !.at = t]
    OBVIOUS
  <2>2. n \in Rows /\ n.pair = p /\ n.kind = "daily" /\ n.at = t
    BY <1>2, <2>1 DEF Rows
  <2> QED
    BY <2>1, <2>2
<1>4. rows' = (rows \ {r}) \union {n}
  BY <1>3 DEF Update
<1>5. RowsCount'
  <2>1. IsFiniteSet(rows) /\ Cardinality(rows) \in Nat /\ Cardinality(rows) <= MaxRows
    BY FS_CardinalityType DEF IInv, RowInv, RowsCount
  <2>2. PICK S : S = rows \ {r}
    OBVIOUS
  <2>3. IsFiniteSet(S) /\ Cardinality(S) = Cardinality(rows) - 1
    BY <1>2, <2>1, <2>2, FS_RemoveElement
  <2>4. IsFiniteSet(S \union {n}) /\ Cardinality(S \union {n}) \in {Cardinality(S), Cardinality(S) + 1}
    BY <2>3, FS_AddElement
  <2> QED
    BY <1>4, <2>1, <2>2, <2>3, <2>4, Bounds DEF RowsCount
<1>6. RowTypes'
  BY <1>3, <1>4 DEF IInv, RowInv, RowTypes
<1>7. \A g \in Handlers : \A q : Saving(g, q)' => Saving(g, q) /\ handler'[g] = handler[g] /\ g # h
  BY DEF Saving, IInv, RowInv, RowTypes
<1>8. ASSUME NEW q \in Pairs \ unsure'
      PROVE  \/ q \notin unsure /\ Spared(q)
             \/ /\ Right(q)'
                /\ \A f, g \in Handlers : Saving(f, q)' /\ Saving(g, q)' => f = g
                /\ \A g \in Handlers : Saving(g, q)' /\ handler'[g].op = "insert" => Dailies(q)' = {}
  <2>1. CASE q # p
    <3>1. Dailies(q)' = Dailies(q)
      BY <1>2, <1>3, <1>4, <2>1 DEF Dailies, IsDaily
    <3>2. told'[q] = told[q]
      BY <2>1 DEF IInv, RowInv, RowTypes
    <3> QED
      BY <1>7, <3>1, <3>2 DEF Spared
  <2>2. CASE q = p
    <3>1. told' = [told EXCEPT ![p] = t] /\ p \notin unsure
      BY <1>8, <2>2
    <3>2. \A g \in Handlers : ~Saving(g, p)'
      BY <1>1, <1>7, <3>1
    <3>3. Right(p)
      BY <3>1 DEF IInv, RowInv, DailyIsAsPicked, Right
    <3>4. Dailies(p) = {r}
      BY <3>3 DEF Right
    <3>5. Dailies(p)' = {n}
      BY <1>3, <1>4, <3>4 DEF Dailies, IsDaily
    <3>6. told'[p] = t /\ t # NoTime
      BY <3>1 DEF IInv, RowInv, RowTypes
    <3>7. Right(p)'
      BY <1>3, <1>4, <3>5, <3>6 DEF Right
    <3> QED
      BY <2>2, <3>2, <3>7
  <2> QED
    BY <2>1, <2>2
<1>9. OneSaver' /\ DailyIsAsPicked'
  BY <1>8, PairByPair DEF IInv
<1> QED
  BY <1>5, <1>6, <1>9 DEF RowInv

\* A handler is done, or goes on to its insert.
LEMMA UpsertKeeps ==
  ASSUME IInv, NEW h \in Handlers, UpsertDaily(h)
  PROVE  RowInv'
<1>1. handler[h] # Idle /\ handler[h].op = "save"
  BY DEF UpsertDaily
<1>2. PICK p \in Pairs, t \in Times : p = handler[h].pair /\ t = handler[h].at
  BY <1>1, UpdateTypes DEF IInv, RowInv
<1>3. /\ Saving(h, p)
      /\ \A q \in Pairs \ unsure, g \in Handlers : Saving(h, q) /\ Saving(g, q) => g = h
  BY <1>1, <1>2 DEF Saving, IInv, RowInv, OneSaver
<1>4. ASSUME NEW r \in Dailies(p), Update(r, t), Saved(h)
      PROVE  RowInv'
  <2>1. /\ told' = [told EXCEPT ![p] = t] /\ handler' = [handler EXCEPT ![h] = Idle]
        /\ UNCHANGED <<unsure, cmds, connected, discs>>
    BY <1>2, <1>4 DEF Saved, userVars
  <2> QED
    BY <1>1, <1>2, <1>4, <2>1, UpdateKeeps
<1>5. ASSUME Dailies(p) = {}, handler' = [handler EXCEPT ![h].op = "insert"], UNCHANGED <<rowVars, userVars>>
      PROVE  RowInv'
  <2>1. UNCHANGED <<rows, told, unsure, cmds, connected, discs>>
    BY <1>5 DEF rowVars, userVars
  <2>2. PICK j \in Updates : /\ handler' = [handler EXCEPT ![h] = j]
                             /\ j.op = "insert" /\ j.pair = p /\ j.at = t
    <3>1. handler[h] \in [op : {"save", "insert"}, pair : Pairs, at : Times]
      BY <1>1, UpdateTypes DEF IInv, RowInv
    <3>2. PICK j : j = [handler[h] EXCEPT !.op = "insert"]
      OBVIOUS
    <3>3. j \in [op : {"save", "insert"}, pair : Pairs, at : Times] /\ j.op = "insert" /\ j.pair = p /\ j.at = t
      BY <1>2, <3>1, <3>2
    <3>4. handler' = [handler EXCEPT ![h] = j]
      BY <1>5, <3>2 DEF IInv, RowInv, RowTypes
    <3> QED
      BY <3>3, <3>4 DEF Updates
  <2>3. RowTypes' /\ RowsCount'
    BY <2>1, <2>2 DEF IInv, RowInv, RowTypes, RowsCount
  <2>4. /\ \A g \in Handlers \ {h} : handler'[g] = handler[g] /\ \A q : Saving(g, q)' <=> Saving(g, q)
        /\ \A q : Saving(h, q)' => q = p
    BY <2>2 DEF Saving, IInv, RowInv, RowTypes
  <2>5. ASSUME NEW q \in Pairs \ unsure'
        PROVE  \/ q \notin unsure /\ Spared(q)
               \/ /\ Right(q)'
                  /\ \A f, g \in Handlers : Saving(f, q)' /\ Saving(g, q)' => f = g
                  /\ \A g \in Handlers : Saving(g, q)' /\ handler'[g].op = "insert" => Dailies(q)' = {}
    <3>1. CASE q # p
      BY <2>1, <2>4, <3>1 DEF Spared, Dailies
    <3>2. CASE q = p
      <4>1. \A g \in Handlers : Saving(g, p)' => g = h
        BY <1>3, <2>1, <2>4, <2>5, <3>2
      <4>2. Right(p)'
        BY <2>1, <2>5, <3>2 DEF IInv, RowInv, DailyIsAsPicked, Right, Dailies
      <4>3. Dailies(p)' = {}
        BY <1>5, <2>1 DEF Dailies
      <4> QED
        BY <3>2, <4>1, <4>2, <4>3
    <3> QED
      BY <3>1, <3>2
  <2>6. OneSaver' /\ DailyIsAsPicked'
    BY <2>1, <2>5, PairByPair DEF IInv
  <2> QED
    BY <2>3, <2>6 DEF RowInv
<1> QED
  BY <1>2, <1>4, <1>5 DEF UpsertDaily

\* The daily is inserted, the handler is done, and the user is told, or its
\* pair is taken for unsure.
LEMMA InsertKeeps ==
  ASSUME IInv, NEW h \in Handlers, handler[h] # Idle, handler[h].op = "insert",
         NEW p \in Pairs, NEW t \in Times, p = handler[h].pair, t = handler[h].at,
         Create(p, "daily", t), handler' = [handler EXCEPT ![h] = Idle],
         UNCHANGED <<cmds, connected, discs>>,
         \/ told' = [told EXCEPT ![p] = t] /\ unsure' = unsure
         \/ told' = told /\ unsure' = unsure \union {p}
  PROVE  RowInv'
<1>1. PICK n \in Rows : /\ n.pair = p /\ n.kind = "daily" /\ n.at = t /\ rows' = rows \union {n}
                        /\ RowsCount'
  BY Creates DEF RowsCount
<1>2. RowTypes'
  BY <1>1 DEF IInv, RowInv, RowTypes
<1>3. \A g \in Handlers : \A q : Saving(g, q)' => Saving(g, q) /\ handler'[g] = handler[g] /\ g # h
  BY DEF Saving, IInv, RowInv, RowTypes
<1>4. ASSUME NEW q \in Pairs \ unsure'
      PROVE  \/ q \notin unsure /\ Spared(q)
             \/ /\ Right(q)'
                /\ \A f, g \in Handlers : Saving(f, q)' /\ Saving(g, q)' => f = g
                /\ \A g \in Handlers : Saving(g, q)' /\ handler'[g].op = "insert" => Dailies(q)' = {}
  <2>1. CASE q # p
    <3>1. Dailies(q)' = Dailies(q)
      BY <1>1, <2>1 DEF Dailies, IsDaily
    <3>2. told'[q] = told[q]
      BY <2>1 DEF IInv, RowInv, RowTypes
    <3> QED
      BY <1>3, <3>1, <3>2 DEF Spared
  <2>2. CASE q = p
    <3>1. told' = [told EXCEPT ![p] = t] /\ p \notin unsure
      BY <1>4, <2>2
    <3>2. Saving(h, p)
      BY DEF Saving
    <3>3. Dailies(p) = {} /\ \A g \in Handlers : Saving(g, p) => g = h
      BY <3>1, <3>2 DEF IInv, RowInv, OneSaver
    <3>4. Dailies(p)' = {n}
      BY <1>1, <3>3 DEF Dailies, IsDaily
    <3>5. told'[p] = t /\ t # NoTime
      BY <3>1 DEF IInv, RowInv, RowTypes
    <3>6. Right(p)'
      BY <1>1, <3>4, <3>5 DEF Right
    <3>7. \A g \in Handlers : ~Saving(g, p)'
      BY <1>3, <3>3
    <3> QED
      BY <2>2, <3>6, <3>7
  <2> QED
    BY <2>1, <2>2
<1>5. OneSaver' /\ DailyIsAsPicked'
  BY <1>4, PairByPair DEF IInv
<1> QED
  BY <1>1, <1>2, <1>5 DEF RowInv

\* The handler is done without a change to the rows; some pairs may be taken
\* for unsure.
LEMMA GivesUpKeeps ==
  ASSUME IInv, NEW h \in Handlers, handler' = [handler EXCEPT ![h] = Idle],
         UNCHANGED <<rows, told, cmds, discs>>, connected' \in [Users -> BOOLEAN],
         unsure \subseteq unsure', unsure' \subseteq Pairs
  PROVE  RowInv'
<1>1. RowTypes' /\ RowsCount'
  BY DEF IInv, RowInv, RowTypes, RowsCount
<1>2. \A p \in Pairs : Spared(p)
  BY DEF Spared, Dailies, Saving, IInv, RowInv, RowTypes
<1>3. OneSaver' /\ DailyIsAsPicked'
  BY <1>2, PairByPair DEF IInv
<1> QED
  BY <1>1, <1>3 DEF RowInv

(* ---------------------------------------------------------------------- *)
(* The steps of scheduler-svc                                              *)

LEMMA FireTypes ==
  ASSUME LifeTypes, NEW s \in Slots, fire[s] # NoFire
  PROVE  /\ fire[s] \in Fires /\ fire[s].left \in 0 .. Searches
         /\ \A pc \in {"take", "read", "search", "say"} : [fire[s] EXCEPT !.pc = pc] \in Fires
         /\ fire[s].left > 0 =>
              /\ [fire[s] EXCEPT !.left = @ - 1] \in Fires
              /\ [fire[s] EXCEPT !.left = @ - 1, !.ok = TRUE] \in Fires
<1>1. fire[s] \in Fires
  BY DEF LifeTypes
<1>2. fire[s].left \in 0 .. 3
  BY <1>1 DEF Fires, Searches
<1>3. fire[s].left > 0 => fire[s].left - 1 \in 0 .. 3
  BY <1>2
<1>4. \A pc \in {"take", "read", "search", "say"} : [fire[s] EXCEPT !.pc = pc] \in Fires
  BY <1>1 DEF Fires
<1>5. \A n \in 0 .. 3 : [fire[s] EXCEPT !.left = n] \in Fires /\ [fire[s] EXCEPT !.left = n, !.ok = TRUE] \in Fires
  BY <1>1 DEF Fires, Searches
<1> QED
  BY <1>1, <1>2, <1>3, <1>4, <1>5 DEF Searches

\* A fire goes on.
LEMMA MoveKeeps ==
  ASSUME LifeInv, NEW s \in Slots, fire[s] # NoFire, NEW f \in Fires, fire' = [fire EXCEPT ![s] = f],
         UNCHANGED <<phase, mu, jobs, fired, answered, lost>>
  PROVE  LifeInv'
<1>1. fire' = [fire EXCEPT ![s] = f] /\ UNCHANGED <<fired, lost>>
  OBVIOUS
<1>2. LifeTypes' /\ JobsCount'
  BY <1>1 DEF LifeInv, LifeTypes, JobsCount
<1>3. Active' = Active
  BY <1>1 DEF Active, LifeInv, LifeTypes
<1>4. Conserved'
  BY <1>1, <1>3 DEF LifeInv, Conserved
<1> QED
  BY <1>2, <1>4 DEF LifeInv

\* A fire ends: it is answered or lost.
LEMMA EndKeeps ==
  ASSUME LifeInv, NEW s \in Slots, fire[s] # NoFire, fire' = [fire EXCEPT ![s] = NoFire],
         UNCHANGED <<phase, mu, jobs, fired>>,
         \/ answered' = answered + 1 /\ lost' = lost
         \/ answered' = answered /\ lost' = lost + 1
  PROVE  LifeInv'
<1>1. LifeTypes' /\ JobsCount'
  BY DEF LifeInv, LifeTypes, JobsCount
<1>2. Active' = Active \ {s} /\ s \in Active
  BY DEF Active, LifeInv, LifeTypes
<1>3. Cardinality(Active') = Cardinality(Active) - 1 /\ Cardinality(Active) \in Nat /\ Cardinality(Active') \in Nat
  <2>1. Cardinality(Active \ {s}) = Cardinality(Active) - 1 /\ IsFiniteSet(Active \ {s})
    BY <1>2, ActiveCount, FS_RemoveElement
  <2> QED
    BY <1>2, <2>1, ActiveCount, FS_CardinalityType
<1>4. Conserved'
  BY <1>3 DEF LifeInv, Conserved
<1> QED
  BY <1>1, <1>4 DEF LifeInv

LEMMA FireKeeps ==
  ASSUME LifeInv, NEW s \in Slots, NEW r \in jobs, Fire(s, r)
  PROVE  LifeInv'
<1>1. PICK f \in Fires : fire' = [fire EXCEPT ![s] = f]
  <2>1. r \in Jobs /\ SearchesOf(r) \in 0 .. Searches
    BY DEF LifeInv, LifeTypes, SearchesOf, Searches
  <2>2. [row |-> r, pc |-> "take", left |-> SearchesOf(r), ok |-> FALSE] \in Fires
    BY <2>1 DEF Fires
  <2> QED
    BY <2>2 DEF Fire
<1>2. /\ phase = "running" /\ fire[s] = NoFire /\ fired < MaxFires /\ fired' = fired + 1
      /\ UNCHANGED <<phase, mu, jobs, answered, lost>>
  BY DEF Fire
<1>3. LifeTypes' /\ JobsCount'
  BY <1>1, <1>2 DEF LifeInv, LifeTypes, JobsCount
<1>4. Active' = Active \union {s} /\ s \notin Active
  BY <1>1, <1>2 DEF Active, LifeInv, LifeTypes
<1>5. Cardinality(Active') = Cardinality(Active) + 1 /\ Cardinality(Active) \in Nat
  BY <1>4, ActiveCount, FS_AddElement
<1>6. Conserved'
  BY <1>2, <1>5, Bounds DEF LifeInv, Conserved
<1> QED
  BY <1>3, <1>6 DEF LifeInv

\* The searches, answers and failures of a fire.
LEMMA JobKeeps ==
  ASSUME IInv, NEW s \in Slots, Job(s)
  PROVE  LifeInv' /\ UNCHANGED <<rows, told, unsure, cmds, connected, discs, handler>> /\ troubles' \in 0 .. MaxTroubles
<1>1. fire[s] # NoFire /\ Beside
  BY DEF Job, TakeContext, ReadUser, Search, ExecuteReport, SendFails, At
<1>2. troubles' \in 0 .. MaxTroubles
  BY DEF Job, TakeContext, ReadUser, Search, ExecuteReport, SendFails, Trouble, IInv
<1>3. UNCHANGED <<phase, mu, jobs, rows, told, unsure, cmds, connected, discs, handler>>
  BY <1>1 DEF Beside, rowVars, userVars
<1>4. LifeInv /\ LifeTypes
  BY DEF IInv, LifeInv
<1> SUFFICES LifeInv'
  BY <1>2, <1>3
<1>5. ASSUME Say(s) PROVE LifeInv'
  <2>1. answered' = answered + 1 /\ fire' = [fire EXCEPT ![s] = NoFire] /\ fired' = fired /\ lost' = lost
    BY <1>5 DEF Say, Moves
  <2> QED
    BY <1>1, <1>3, <1>4, <2>1, EndKeeps
<1>6. ASSUME NEW f \in Fires, fire' = [fire EXCEPT ![s] = f], UNCHANGED <<fired, lost, answered>>
      PROVE  LifeInv'
  BY <1>1, <1>3, <1>4, <1>6, MoveKeeps
<1>7. CASE TakeContext(s)
  <2>1. PICK f : f = [fire[s] EXCEPT !.pc = "read"]
    OBVIOUS
  <2>2. f \in Fires
    BY <1>1, <1>4, <2>1, FireTypes
  <2>3. fire' = [fire EXCEPT ![s] = f] /\ UNCHANGED <<fired, lost, answered>>
    BY <1>7, <2>1 DEF TakeContext, Moves
  <2> QED
    BY <1>6, <2>2, <2>3
<1>8. CASE ReadUser(s)
  <2>1. CASE Say(s)
    BY <1>5, <2>1
  <2>2. CASE ~Say(s)
    <3>1. PICK f : f = [fire[s] EXCEPT !.pc = "search"]
      OBVIOUS
    <3>2. f \in Fires
      BY <1>1, <1>4, <3>1, FireTypes
    <3>3. fire' = [fire EXCEPT ![s] = f] /\ UNCHANGED <<fired, lost, answered>>
      BY <1>8, <2>2, <3>1 DEF ReadUser, Moves
    <3> QED
      BY <1>6, <3>2, <3>3
  <2> QED
    BY <2>1, <2>2
<1>9. CASE Search(s)
  <2>1. fire[s].left > 0
    BY <1>9 DEF Search
  <2>2. PICK f : f = [fire[s] EXCEPT !.left = fire[s].left - 1]
    OBVIOUS
  <2>3. PICK g : g = [fire[s] EXCEPT !.left = fire[s].left - 1, !.ok = TRUE]
    OBVIOUS
  <2>4. f \in Fires /\ g \in Fires
    BY <1>1, <1>4, <2>1, <2>2, <2>3, FireTypes
  <2>5. \/ fire' = [fire EXCEPT ![s] = f] /\ UNCHANGED <<fired, lost, answered>>
        \/ fire' = [fire EXCEPT ![s] = g] /\ UNCHANGED <<fired, lost, answered>>
    BY <1>9, <2>2, <2>3 DEF Search, Moves
  <2> QED
    BY <1>6, <2>4, <2>5
<1>10. CASE ExecuteReport(s)
  BY <1>5, <1>10 DEF ExecuteReport, Report
<1>11. CASE SendFails(s)
  <2>1. fire' = [fire EXCEPT ![s] = NoFire] /\ lost' = lost + 1 /\ UNCHANGED <<fired, answered>>
    BY <1>11 DEF SendFails
  <2> QED
    BY <1>1, <1>3, <1>4, <2>1, EndKeeps
<1> QED
  BY <1>7, <1>8, <1>9, <1>10, <1>11 DEF Job

\* Loading makes one job of each row.
LEMMA LoadKeeps ==
  ASSUME IInv, LoadSchedules
  PROVE  LifeInv'
<1>1. phase = "loading" /\ mu' = "free" /\ UNCHANGED <<fire, fired, answered, lost>>
  BY DEF LoadSchedules, fireVars
<1>2. Conserved'
  BY <1>1 DEF IInv, LifeInv, Conserved, Active
<1>3. CASE phase' = "running" /\ jobs' = {JobOf(r) : r \in rows}
  <2>1. \A r \in rows : JobOf(r) \in Jobs
    BY DEF IInv, RowInv, RowTypes, Rows, JobOf, Jobs
  <2>2. LifeTypes'
    BY <1>1, <1>3, <2>1 DEF IInv, LifeInv, LifeTypes
  <2>3. IsFiniteSet(jobs') /\ Cardinality(jobs') <= Cardinality(rows)
    <3>1. PICK f : f = [r \in rows |-> JobOf(r)]
      OBVIOUS
    <3>2. f \in Surjection(rows, jobs')
      BY <1>3, <3>1 DEF Surjection
    <3> QED
      BY <3>2, FS_Surjection DEF IInv, RowInv, RowsCount
  <2>4. JobsCount'
    BY <2>3, FS_CardinalityType, Bounds DEF IInv, RowInv, RowsCount, JobsCount
  <2> QED
    BY <1>2, <2>2, <2>4 DEF LifeInv
<1>4. CASE phase' = "down" /\ jobs' = jobs
  BY <1>1, <1>2, <1>4 DEF IInv, LifeInv, LifeTypes, JobsCount
<1> QED
  BY <1>3, <1>4 DEF LoadSchedules

\* The process starts, is stopped, ends or dies.
LEMMA PhaseKeeps ==
  ASSUME IInv, Start \/ Stop \/ Stopped \/ Crash
  PROVE  LifeInv'
<1>1. CASE Start \/ Stop
  BY <1>1 DEF Start, Stop, CronStop, fireVars, IInv, LifeInv, LifeTypes, JobsCount, Conserved, Active
<1>2. CASE Stopped \/ Crash
  <2>1. /\ phase' = "down" /\ mu' = "free" /\ jobs' = {} /\ fired' = fired /\ answered' = answered
        /\ fire' \in [Slots -> Fires \union {NoFire}]
        /\ \A s \in Slots : fire'[s] = NoFire
        /\ lost' = lost + Cardinality(Active)
    <3>1. CASE Stopped
      <4>1. Active = {}
        BY <3>1 DEF Stopped, Drained, Active
      <4>2. Cardinality(Active) = 0
        BY <4>1, FS_EmptySet
      <4> QED
        BY <3>1, <4>2 DEF Stopped, Drained, fireVars, IInv, LifeInv, LifeTypes, Conserved
    <3>2. CASE Crash
      BY <3>2 DEF Crash, Active
    <3> QED
      BY <1>2, <3>1, <3>2
  <2>2. LifeTypes'
    BY <2>1 DEF LifeTypes
  <2>3. JobsCount'
    BY <2>1, FS_EmptySet, Bounds DEF JobsCount
  <2>4. Active' = {} /\ Cardinality(Active') = 0
    <3>1. Active' = {}
      BY <2>1 DEF Active
    <3> QED
      BY <3>1, FS_EmptySet
  <2>5. Conserved'
    BY <2>1, <2>4, ActiveCount DEF IInv, LifeInv, Conserved
  <2> QED
    BY <2>2, <2>3, <2>5 DEF LifeInv
<1> QED
  BY <1>1, <1>2

(* ---------------------------------------------------------------------- *)
(* The invariant                                                           *)

LEMMA InvInit ==
  ASSUME Init
  PROVE  IInv
<1>1. IsFiniteSet({}) /\ Cardinality({}) = 0
  BY FS_EmptySet
<1>2. RowTypes /\ RowsCount
  BY <1>1, Bounds DEF Init, RowTypes, RowsCount
<1>3. OneSaver /\ DailyIsAsPicked
  BY DEF Init, OneSaver, Saving, DailyIsAsPicked, Dailies
<1>4. LifeTypes /\ JobsCount
  BY <1>1, Bounds DEF Init, LifeTypes, JobsCount
<1>5. Conserved
  <2>1. Active = {}
    BY DEF Init, Active
  <2> QED
    BY <1>1, <2>1, Bounds DEF Init, Conserved
<1> QED
  BY <1>2, <1>3, <1>4, <1>5, Bounds DEF Init, IInv, RowInv, LifeInv

\* Steps of the handlers leave the process alone, and it them.
LEMMA LifeApart ==
  ASSUME IInv, UNCHANGED <<phase, mu, jobs, fireVars>>
  PROVE  LifeInv'
BY DEF IInv, LifeInv, LifeTypes, JobsCount, Conserved, Active, fireVars

LEMMA RowsApart ==
  ASSUME IInv, UNCHANGED <<rows, told, unsure, cmds, connected, discs, handler>>
  PROVE  RowInv'
BY Untouched DEF IInv, RowInv, RowTypes

LEMMA InvNext ==
  ASSUME IInv, [Next]_vars
  PROVE  IInv'
<1>1. troubles \in 0 .. MaxTroubles /\ RowInv /\ RowTypes
  BY DEF IInv, RowInv
<1>2. ASSUME NEW p \in Pairs, Schedule(p) PROVE IInv'
  BY <1>1, <1>2, ScheduleKeeps, LifeApart DEF Schedule, IInv
<1>3. ASSUME NEW p \in Pairs, PressOff(p) PROVE IInv'
  <2>1. /\ UNCHANGED <<rows, told, unsure, handler, connected, discs>> /\ cmds' \in 0 .. MaxCmds
        /\ UNCHANGED <<phase, mu, jobs, fireVars, troubles>>
    BY <1>1, <1>3 DEF PressOff, Parts, Command, userVars, RowTypes
  <2>2. RowInv'
    BY <1>1, <2>1, Untouched DEF RowInv, RowTypes
  <2> QED
    BY <1>1, <2>1, <2>2, LifeApart DEF IInv
<1>4. ASSUME NEW c \in Chats, Unschedule(c) \/ UnscheduleFails(c) PROVE IInv'
  <2>1. RowInv'
    BY <1>4, UnscheduleKeeps, UnscheduleFailsKeeps
  <2>2. UNCHANGED <<phase, mu, jobs, fireVars>> /\ troubles' \in 0 .. MaxTroubles
    BY <1>1, <1>4 DEF Unschedule, UnscheduleFails, DeleteFails, Trouble
  <2> QED
    BY <2>1, <2>2, LifeApart DEF IInv
<1>5. ASSUME NEW h \in Handlers, NEW p \in Pairs, NEW t \in Times, PickTime(h, p, t) PROVE IInv'
  BY <1>1, <1>5, PickTimeKeeps, LifeApart DEF PickTime, IInv
<1>6. ASSUME NEW h \in Handlers, UpsertDaily(h) PROVE IInv'
  <2>1. UNCHANGED <<phase, mu, jobs, fireVars, troubles>>
    BY <1>6 DEF UpsertDaily, Saved
  <2> QED
    BY <1>1, <1>6, <2>1, UpsertKeeps, LifeApart DEF IInv
<1>7. ASSUME NEW h \in Handlers, InsertDaily(h) PROVE IInv'
  <2>1. PICK p \in Pairs, t \in Times : p = handler[h].pair /\ t = handler[h].at
    BY <1>1, <1>7, UpdateTypes DEF InsertDaily
  <2>2. /\ handler[h] # Idle /\ handler[h].op = "insert" /\ Create(p, "daily", t)
        /\ told' = [told EXCEPT ![p] = t] /\ unsure' = unsure /\ handler' = [handler EXCEPT ![h] = Idle]
        /\ UNCHANGED <<cmds, connected, discs, phase, mu, jobs, fireVars, troubles>>
    BY <1>7, <2>1 DEF InsertDaily, Saved, userVars
  <2>3. RowInv'
    BY <2>1, <2>2, InsertKeeps
  <2> QED
    BY <1>1, <2>2, <2>3, LifeApart DEF IInv
<1>8. ASSUME NEW h \in Handlers, SaveFails(h) PROVE IInv'
  <2>1. PICK p \in Pairs, t \in Times : p = handler[h].pair /\ t = handler[h].at
    BY <1>1, <1>8, UpdateTypes DEF SaveFails
  <2>2. /\ handler[h] # Idle /\ handler' = [handler EXCEPT ![h] = Idle] /\ troubles' \in 0 .. MaxTroubles
        /\ UNCHANGED <<told, cmds, connected, discs, phase, mu, jobs, fireVars>>
    BY <1>1, <1>8 DEF SaveFails, Trouble, userVars
  <2>3. CASE UNCHANGED <<rows, unsure>>
    <3>1. RowInv'
      BY <1>1, <2>2, <2>3, GivesUpKeeps DEF RowTypes
    <3> QED
      BY <2>2, <3>1, LifeApart DEF IInv
  <2>4. CASE handler[h].op = "insert" /\ Create(p, "daily", t) /\ unsure' = unsure \union {p}
    <3>1. RowInv'
      BY <2>1, <2>2, <2>4, InsertKeeps
    <3> QED
      BY <2>2, <3>1, LifeApart DEF IInv
  <2>5. ASSUME handler[h].op = "save", NEW r \in Dailies(p), Update(r, t), unsure' = unsure \union {p}
        PROVE  IInv'
    <3>1. RowInv'
      BY <2>1, <2>2, <2>5, UpdateKeeps
    <3> QED
      BY <2>2, <3>1, LifeApart DEF IInv
  <2> QED
    BY <1>8, <2>1, <2>3, <2>4, <2>5 DEF SaveFails
<1>9. ASSUME NEW h \in Handlers, NEW u \in Users, Disconnect(h, u) PROVE IInv'
  <2>1. UNCHANGED <<phase, mu, jobs, fireVars>> /\ troubles' \in 0 .. MaxTroubles
    BY <1>1, <1>9 DEF Disconnect, DeleteFails, Trouble
  <2> QED
    BY <1>9, <2>1, DisconnectKeeps, LifeApart DEF IInv
<1>10. ASSUME NEW h \in Handlers, ClearCredentials(h) \/ ClearFails(h) PROVE IInv'
  <2>1. /\ handler' = [handler EXCEPT ![h] = Idle] /\ connected' \in [Users -> BOOLEAN]
        /\ troubles' \in 0 .. MaxTroubles
        /\ UNCHANGED <<rows, told, cmds, discs, phase, mu, jobs, fireVars>>
    <3>1. CASE ClearCredentials(h)
      BY <1>1, <3>1 DEF ClearCredentials, rowVars, RowTypes
    <3>2. CASE ClearFails(h)
      <4>1. connected' \in [Users -> BOOLEAN]
        BY <1>1, <3>2 DEF ClearFails, RowTypes
      <4>2. troubles' \in 0 .. MaxTroubles
        BY <1>1, <3>2 DEF ClearFails, Trouble
      <4> QED
        BY <3>2, <4>1, <4>2 DEF ClearFails
    <3> QED
      BY <1>10, <3>1, <3>2
  <2>2. unsure \subseteq unsure' /\ unsure' \subseteq Pairs
    <3>1. handler[h] # Idle /\ handler[h].op = "creds" /\ handler[h].user \in Users
      BY <1>1, <1>10, UpdateTypes DEF ClearCredentials, ClearFails
    <3>2. Chats \X {handler[h].user} \subseteq Pairs
      BY <3>1 DEF Pairs
    <3> QED
      BY <1>1, <1>10, <3>2 DEF ClearCredentials, ClearFails, rowVars, RowTypes
  <2>3. RowInv'
    BY <2>1, <2>2, GivesUpKeeps
  <2> QED
    BY <2>1, <2>3, LifeApart DEF IInv
<1>11. ASSUME NEW u \in Users, Connect(u) PROVE IInv'
  <2>1. /\ connected' \in [Users -> BOOLEAN]
        /\ UNCHANGED <<rows, told, unsure, cmds, discs, handler, phase, mu, jobs, fireVars, troubles>>
    BY <1>1, <1>11 DEF Connect, rowVars, RowTypes
  <2>2. RowInv'
    BY <1>1, <2>1, Untouched DEF RowInv, RowTypes
  <2> QED
    BY <1>1, <2>1, <2>2, LifeApart DEF IInv
<1>12. CASE LoadSchedules \/ Start \/ Stop \/ Stopped \/ Crash
  <2>1. UNCHANGED <<rows, told, unsure, cmds, connected, discs, handler>> /\ troubles' \in 0 .. MaxTroubles
    BY <1>1, <1>12 DEF LoadSchedules, Start, Stop, Stopped, Crash, Trouble, rowVars, userVars
  <2> QED
    BY <1>12, <2>1, RowsApart, LoadKeeps, PhaseKeeps DEF IInv
<1>13. ASSUME NEW s \in Slots, NEW r \in jobs, Fire(s, r) PROVE IInv'
  <2>1. UNCHANGED <<rows, told, unsure, cmds, connected, discs, handler, troubles>>
    BY <1>13 DEF Fire, rowVars, userVars
  <2> QED
    BY <1>1, <1>13, <2>1, RowsApart, FireKeeps DEF IInv
<1>14. ASSUME NEW s \in Slots, Job(s) PROVE IInv'
  BY <1>14, JobKeeps, RowsApart DEF IInv
<1>15. CASE UNCHANGED vars
  <2>1. UNCHANGED <<rows, told, unsure, cmds, connected, discs, handler, phase, mu, jobs, fireVars, troubles>>
    BY <1>15 DEF vars, fireVars
  <2> QED
    BY <1>1, <2>1, RowsApart, LifeApart DEF IInv
<1> QED
  BY <1>2, <1>3, <1>4, <1>5, <1>6, <1>7, <1>8, <1>9, <1>10, <1>11, <1>12, <1>13, <1>14, <1>15 DEF Next

LEMMA Invariance == Spec => []IInv
<1>1. Init => IInv
  BY InvInit
<1>2. IInv /\ [Next]_vars => IInv'
  BY InvNext
<1> QED
  BY <1>1, <1>2, PTL DEF Spec

(* ---------------------------------------------------------------------- *)
(* Theorems                                                                *)

\* Type correctness, and with it: every fire of a job is under way, ended in
\* a message or is lost with its publish or the process, and a process that is
\* down has neither jobs nor fires.
THEOREM FiresAreAccounted == Spec => []TypeOK
<1>1. IInv => TypeOK
  BY TypesFollow
<1> QED
  BY <1>1, Invariance, PTL

\* The daily a user was last told of is stored, and no other one for him and
\* the chat, unless commands on it overlapped, or a write or delete of it failed
\* (as in a /disconnect that goes on), since the last one that removed all rows:
\* however many users share the chat, and however their updates interleave.
THEOREM OneDailyAsPicked == Spec => []DailyIsAsPicked
<1>1. IInv => DailyIsAsPicked
  BY DEF IInv, RowInv
<1> QED
  BY <1>1, Invariance, PTL

(***************************************************************************)
(* Part II.  NotifyPipeline: its states are well typed, a chat sees a      *)
(* notification twice only after a fault, and the pipeline implements      *)
(* NotifyContract.                                                         *)
(***************************************************************************)

USE MalformedAssumption, KeyOfAssumption, NoNoteAssumption, MaxDeliverAssumption,
    MaxRestartsAssumption

(* ---------------------------------------------------------------------- *)
(* Type correctness and the life of a notification                         *)

\* What a notification's status says about its tries: none before the first
\* delivery, one left while it waits for another.
Ledger ==
  \A n \in Notes :
    /\ n \in outbox \/ n \notin asked => status[n] = "absent"
    /\ status[n] \in {"absent", "new"} => tries[n] = 0
    /\ status[n] = "again" => tries[n] < MaxDeliver

\* A process holds only what the stream retains, and acks only what a chat
\* has seen.
Custody ==
  \A p \in Procs, n \in Notes :
    /\ n \in batch[p] => status[n] # "absent"
    /\ acking[p] = n => status[n] # "absent" /\ n \notin Malformed /\ shown[n] > 0

Base == PipelineTypeOK /\ Ledger /\ Custody

LEMMA BaseInit == PipelineInit => Base
<1> SUFFICES ASSUME PipelineInit PROVE Base
  OBVIOUS
<1>1. PipelineTypeOK
  <2>1. status \in [Notes -> Statuses] /\ tries \in [Notes -> 0 .. MaxDeliver]
    BY DEF PipelineInit, Statuses
  <2>2. shown \in [Notes -> Nat] /\ resets \in Nat /\ restarts \in 0 .. MaxRestarts
    BY DEF PipelineInit
  <2>3. up \in [Procs -> BOOLEAN] /\ creator \in [Procs -> BOOLEAN]
    BY DEF PipelineInit
  <2>4. batch \in [Procs -> SUBSET Notes] /\ acking \in [Procs -> Notes \union {NoNote}]
    BY DEF PipelineInit
  <2>5. /\ asked \subseteq Notes /\ outbox \subseteq asked /\ window \subseteq Keys
        /\ durable \in BOOLEAN /\ failed \subseteq Notes /\ blurred \subseteq Notes
    BY DEF PipelineInit
  <2> QED
    BY <2>1, <2>2, <2>3, <2>4, <2>5 DEF PipelineTypeOK
<1>2. Ledger /\ Custody
  BY DEF PipelineInit, Ledger, Custody
<1> QED
  BY <1>1, <1>2 DEF Base

\* Publishing: a message is stored at most once, and untried.
LEMMA BasePublishing ==
  ASSUME Base, NEW n \in Notes, Publishing(n)
  PROVE  Base'
<1>1. CASE Send(n)
  BY <1>1 DEF Send, Base, PipelineTypeOK, Ledger, Custody, server, procs, history
<1>2. CASE Store(n)
  BY <1>2 DEF Store, Base, PipelineTypeOK, Ledger, Custody, Statuses, procs, history
<1>3. CASE LosePublish(n)
  BY <1>3 DEF LosePublish, Base, PipelineTypeOK, Ledger, Custody, server, procs, history
<1> QED
  BY <1>1, <1>2, <1>3 DEF Publishing

LEMMA BaseAckWait ==
  ASSUME Base, NEW n \in Notes, AckWaitEnds(n)
  PROVE  Base'
BY DEF AckWaitEnds, Requeue, Base, PipelineTypeOK, Ledger, Custody, Statuses, procs

LEMMA BaseForget ==
  ASSUME Base, NEW k \in Keys, Forget(k)
  PROVE  Base'
BY DEF Forget, Base, PipelineTypeOK, Ledger, Custody, procs, history

\* A process starts, stops, dies, fetches or acks.
LEMMA BaseProcess ==
  ASSUME Base, NEW p \in Procs, Process(p)
  PROVE  Base'
<1>1. CASE PullSubscribe(p)
  <2>1. CASE durable
    BY <1>1, <2>1 DEF PullSubscribe, Base, PipelineTypeOK, Ledger, Custody, procs, history
  <2>2. CASE ~durable
    <3>1. PipelineTypeOK'
      BY <1>1, <2>2 DEF PullSubscribe, Base, PipelineTypeOK, Statuses, Delivered, Retained
    <3>2. Ledger' /\ Custody'
      BY <1>1, <2>2 DEF PullSubscribe, Base, PipelineTypeOK, Ledger, Custody, Retained
    <3> QED
      BY <3>1, <3>2 DEF Base
  <2> QED
    BY <2>1, <2>2 DEF Base, PipelineTypeOK
<1>2. CASE Shutdown(p)
  BY <1>2 DEF Shutdown, Base, PipelineTypeOK, Ledger, Custody
<1>3. CASE PipelineCrash(p)
  BY <1>3 DEF PipelineCrash, Base, PipelineTypeOK, Ledger, Custody, server
<1>4. CASE Fetch(p)
  <2>1. PICK S \in SUBSET {n \in Notes : status[n] \in {"new", "again"}} :
          /\ batch' = [batch EXCEPT ![p] = S]
          /\ status' = [n \in Notes |-> IF n \in S THEN "out" ELSE status[n]]
          /\ tries' = [n \in Notes |-> IF n \in S THEN tries[n] + 1 ELSE tries[n]]
    BY <1>4 DEF Fetch
  <2>2. \A n \in S : tries[n] \in Nat /\ tries[n] < MaxDeliver
    BY <2>1 DEF Base, PipelineTypeOK, Ledger
  <2>3. PipelineTypeOK'
    BY <1>4, <2>1, <2>2 DEF Fetch, Base, PipelineTypeOK, Statuses, history
  <2>4. Ledger' /\ Custody'
    BY <1>4, <2>1 DEF Fetch, Base, PipelineTypeOK, Ledger, Custody, history
  <2> QED
    BY <2>3, <2>4 DEF Base
<1>5. CASE Ack(p)
  BY <1>5 DEF Ack, Close, Base, PipelineTypeOK, Ledger, Custody, Statuses, history
<1> QED
  BY <1>1, <1>2, <1>3, <1>4, <1>5 DEF Process

\* A process handles a message of its batch.
LEMMA BaseHandle ==
  ASSUME Base, NEW p \in Procs, NEW n \in Notes, Handle(p, n)
  PROVE  Base'
<1>1. CASE Reject(p, n)
  BY <1>1 DEF Reject, Handling, Handled, Close, Base, PipelineTypeOK, Ledger, Custody, Statuses, history
<1>2. CASE SendOk(p, n)
  BY <1>2 DEF SendOk, Handling, Handled, Base, PipelineTypeOK, Ledger, Custody, server
<1>3. CASE Nak(p, n)
  BY <1>3 DEF Nak, Handling, Handled, Return, Requeue, Base, PipelineTypeOK, Ledger, Custody, Statuses
<1> QED
  BY <1>1, <1>2, <1>3 DEF Handle

LEMMA BaseNext == Base /\ [PipelineNext]_pipelineVars => Base'
<1> SUFFICES ASSUME Base, [PipelineNext]_pipelineVars PROVE Base'
  OBVIOUS
<1>1. CASE UNCHANGED pipelineVars
  BY <1>1 DEF pipelineVars, Base, PipelineTypeOK, Ledger, Custody
<1> QED
  BY <1>1, BasePublishing, BaseAckWait, BaseForget, BaseProcess, BaseHandle DEF PipelineNext

\* Every reachable state of the pipeline is well typed; no message is tried
\* more than MaxDeliver times by one durable.
THEOREM PipelineTypes == PipelineSpec => []PipelineTypeOK
<1>1. Base => PipelineTypeOK
  BY DEF Base
<1> QED
  BY <1>1, BaseInit, BaseNext, PTL DEF PipelineSpec

(* ---------------------------------------------------------------------- *)
(* Duplicates                                                              *)

\* At most one process has the notification, and the durable waits for it.
Alone(n) ==
  /\ \A p, q \in Procs : Holds(p, n) /\ Holds(q, n) => p = q
  /\ \A p \in Procs : Holds(p, n) => status[n] = "out" /\ tries[n] > 0
  /\ \A p \in Procs : n \in batch[p] => shown[n] = 0 /\ acking[p] # n

\* A chat has seen it at most once, and it is not handed out again unless the
\* durable is lost.
Once(n) ==
  /\ shown[n] \in {0, 1}
  /\ shown[n] = 1 => tries[n] > 0
  /\ shown[n] = 1 =>
       status[n] = "closed" \/ ~durable \/ \E p \in Procs : acking[p] = n

Quiet(n) == Alone(n) /\ Once(n)

\* Nothing goes wrong with a notification no fault has touched.
Clear == \A n \in Notes : n \notin blurred => Quiet(n)

LEMMA ClearPublishing ==
  ASSUME Base, Clear, NEW m \in Notes, Publishing(m),
         NEW n \in Notes, n \notin blurred'
  PROVE  Quiet(n)'
<1>1. Quiet(n)
  BY DEF Publishing, Send, Store, LosePublish, history, Clear
<1>2. UNCHANGED <<batch, acking, tries, shown, durable>>
  BY DEF Publishing, Send, Store, LosePublish, procs, history, server
<1>3. status'[n] = status[n] \/ (status[n] = "absent" /\ tries[n] = 0)
  BY DEF Publishing, Send, Store, LosePublish, server, Base, PipelineTypeOK, Ledger
<1> QED
  BY <1>1, <1>2, <1>3 DEF Quiet, Alone, Once, Holds

LEMMA ClearAckWait ==
  ASSUME Base, Clear, NEW m \in Notes, AckWaitEnds(m),
         NEW n \in Notes, n \notin blurred'
  PROVE  Quiet(n)'
<1>1. Quiet(n)
  BY DEF AckWaitEnds, Clear
<1>2. UNCHANGED <<batch, acking, tries, shown, durable>>
  BY DEF AckWaitEnds, procs
<1>3. CASE n = m
  <2>1. status[n] = "out" /\ \A p \in Procs : ~Holds(p, n)
    BY <1>3 DEF AckWaitEnds
  <2> QED
    BY <1>1, <1>2, <2>1 DEF Quiet, Alone, Once, Holds
<1>4. CASE n # m
  <2>1. status'[n] = status[n]
    BY <1>4 DEF AckWaitEnds, Base, PipelineTypeOK
  <2> QED
    BY <1>1, <1>2, <2>1 DEF Quiet, Alone, Once, Holds
<1> QED
  BY <1>3, <1>4

LEMMA ClearProcess ==
  ASSUME Base, Clear, NEW r \in Procs, Process(r),
         NEW n \in Notes, n \notin blurred'
  PROVE  Quiet(n)'
<1>1. Quiet(n)
  <2>1. n \notin blurred
    BY DEF Process, PullSubscribe, Shutdown, PipelineCrash, Fetch, Ack, history
  <2> QED
    BY <2>1 DEF Clear
<1>2. CASE PullSubscribe(r)
  <2>1. UNCHANGED <<batch, acking, shown>> /\ durable'
    BY <1>2 DEF PullSubscribe, history
  <2>2. CASE durable
    BY <1>1, <1>2, <2>1, <2>2 DEF PullSubscribe, Quiet, Alone, Once, Holds
  <2>3. CASE ~durable
    <3>1. tries[n] = 0
      BY <1>2, <2>3 DEF PullSubscribe, Delivered, Base, PipelineTypeOK
    <3>2. shown[n] = 0 /\ \A p \in Procs : ~Holds(p, n)
      BY <1>1, <3>1 DEF Quiet, Alone, Once
    <3> QED
      BY <2>1, <3>2 DEF Quiet, Alone, Once, Holds
  <2> QED
    BY <2>2, <2>3
<1>3. CASE Shutdown(r)
  BY <1>1, <1>3 DEF Shutdown, Quiet, Alone, Once, Holds
<1>4. CASE PipelineCrash(r)
  <2>1. UNCHANGED <<status, tries, durable, shown>> /\ acking[r] # n
    BY <1>4 DEF PipelineCrash, server
  <2>2. \A p \in Procs : /\ n \in batch'[p] => n \in batch[p]
                         /\ acking'[p] = n <=> acking[p] = n
    BY <1>4, <2>1, NoNoteAssumption DEF PipelineCrash, Base, PipelineTypeOK
  <2> QED
    BY <1>1, <2>1, <2>2 DEF Quiet, Alone, Once, Holds
<1>5. CASE Fetch(r)
  <2>1. PICK S \in SUBSET {m \in Notes : status[m] \in {"new", "again"}} :
          /\ batch' = [batch EXCEPT ![r] = S]
          /\ status' = [m \in Notes |-> IF m \in S THEN "out" ELSE status[m]]
          /\ tries' = [m \in Notes |-> IF m \in S THEN tries[m] + 1 ELSE tries[m]]
    BY <1>5 DEF Fetch
  <2>2. durable /\ batch[r] = {} /\ UNCHANGED <<acking, shown, durable>>
    BY <1>5 DEF Fetch, history
  <2>3. CASE n \in S
    <3>0. status[n] \in {"new", "again"}
      BY <2>3
    <3>1. shown[n] = 0 /\ \A p \in Procs : ~Holds(p, n)
      <4>1. \A p \in Procs : ~Holds(p, n)
        BY <1>1, <3>0 DEF Quiet, Alone
      <4> QED
        BY <1>1, <2>2, <3>0, <4>1 DEF Quiet, Once, Holds
    <3>2. status'[n] = "out" /\ tries'[n] > 0
      BY <2>1, <2>3 DEF Base, PipelineTypeOK
    <3>3. \A p \in Procs : Holds(p, n)' => p = r /\ acking'[p] # n
      BY <2>1, <2>2, <3>1 DEF Holds, Base, PipelineTypeOK
    <3> QED
      BY <2>2, <3>1, <3>2, <3>3 DEF Quiet, Alone, Once, Holds
  <2>4. CASE n \notin S
    <3>1. status'[n] = status[n] /\ tries'[n] = tries[n]
      BY <2>1, <2>4
    <3>2. \A p \in Procs : n \in batch'[p] <=> n \in batch[p]
      BY <2>1, <2>2, <2>4 DEF Base, PipelineTypeOK
    <3> QED
      BY <1>1, <2>2, <3>1, <3>2 DEF Quiet, Alone, Once, Holds
  <2> QED
    BY <2>3, <2>4
<1>6. CASE Ack(r)
  <2>1. UNCHANGED <<batch, tries, durable, shown>> /\ acking[r] # NoNote
    BY <1>6 DEF Ack, history
  <2>2. \A p \in Procs : acking'[p] = n <=> acking[p] = n /\ p # r
    BY <1>6, NoNoteAssumption DEF Ack, Base, PipelineTypeOK
  <2>3. CASE acking[r] = n
    <3>1. status[n] = "out" /\ \A p \in Procs : Holds(p, n) => p = r
      BY <1>1, <2>3 DEF Quiet, Alone, Holds
    <3>2. \A p \in Procs : ~Holds(p, n)'
      BY <1>1, <2>1, <2>2, <2>3, <3>1 DEF Quiet, Alone, Holds
    <3>3. status'[n] = "closed" \/ ~durable
      BY <1>6, <2>3, <3>1 DEF Ack, Close, Base, PipelineTypeOK
    <3> QED
      BY <1>1, <2>1, <3>2, <3>3 DEF Quiet, Alone, Once, Holds
  <2>4. CASE acking[r] # n
    <3>1. status'[n] = status[n]
      BY <1>6, <2>1, <2>4 DEF Ack, Close, Base, PipelineTypeOK
    <3>2. \A p \in Procs : acking'[p] = n <=> acking[p] = n
      BY <2>2, <2>4
    <3> QED
      BY <1>1, <2>1, <3>1, <3>2 DEF Quiet, Alone, Once, Holds
  <2> QED
    BY <2>3, <2>4
<1> QED
  BY <1>2, <1>3, <1>4, <1>5, <1>6 DEF Process

LEMMA ClearHandle ==
  ASSUME Base, Clear, NEW r \in Procs, NEW m \in Notes, Handle(r, m),
         NEW n \in Notes, n \notin blurred'
  PROVE  Quiet(n)'
<1>1. Quiet(n)
  <2>1. n \notin blurred
    BY DEF Handle, Reject, SendOk, Nak, history
  <2> QED
    BY <2>1 DEF Clear
<1>2. /\ m \in batch[r] /\ acking[r] = NoNote
      /\ UNCHANGED <<tries, durable>>
  BY DEF Handle, Reject, SendOk, Nak, Handling, server
<1>3. \A p \in Procs, l \in Notes :
         l \in batch'[p] <=> l \in batch[p] /\ ~(p = r /\ l = m)
  BY DEF Handle, Reject, SendOk, Nak, Handled, Base, PipelineTypeOK
<1>4. CASE n # m
  <2>1. status'[n] = status[n] /\ shown'[n] = shown[n]
    BY <1>4 DEF Handle, Reject, SendOk, Nak, Close, Return, server, history, Base, PipelineTypeOK
  <2>2. \A p \in Procs : acking'[p] = n <=> acking[p] = n
    BY <1>2, <1>4, NoNoteAssumption
    DEF Handle, Reject, SendOk, Nak, server, history, Base, PipelineTypeOK
  <2> QED
    BY <1>1, <1>2, <1>3, <2>1, <2>2 DEF Quiet, Alone, Once, Holds
<1>5. CASE n = m
  <2>1. /\ status[n] = "out" /\ tries[n] > 0 /\ shown[n] = 0
        /\ \A p \in Procs : Holds(p, n) => p = r
    BY <1>1, <1>2, <1>5 DEF Quiet, Alone, Holds
  <2>2. \A p \in Procs : n \notin batch'[p] /\ acking[p] # n
    BY <1>1, <1>2, <1>3, <1>5, <2>1 DEF Quiet, Alone, Holds
  <2>3. CASE Reject(r, m) \/ Nak(r, m)
    <3>1. UNCHANGED acking /\ shown'[n] = 0
      BY <1>5, <2>1, <2>3 DEF Reject, Nak, history, Base, PipelineTypeOK
    <3> QED
      BY <2>2, <3>1 DEF Quiet, Alone, Once, Holds
  <2>4. CASE SendOk(r, m)
    <3>1. UNCHANGED status /\ shown'[n] = 1
      BY <1>5, <2>1, <2>4 DEF SendOk, server, Base, PipelineTypeOK
    <3>2. \A p \in Procs : acking'[p] = n <=> p = r
      BY <1>5, <2>2, <2>4 DEF SendOk, Base, PipelineTypeOK
    <3> QED
      BY <1>2, <2>1, <2>2, <3>1, <3>2 DEF Quiet, Alone, Once, Holds
  <2> QED
    BY <2>3, <2>4 DEF Handle
<1> QED
  BY <1>4, <1>5

LEMMA ClearNext == Base /\ Clear /\ [PipelineNext]_pipelineVars => Clear'
<1> SUFFICES ASSUME Base, Clear, [PipelineNext]_pipelineVars, NEW n \in Notes, n \notin blurred'
             PROVE  Quiet(n)'
  BY DEF Clear
<1>1. CASE UNCHANGED pipelineVars
  BY <1>1 DEF pipelineVars, Clear, Quiet, Alone, Once, Holds
<1>2. CASE \E k \in Keys : Forget(k)
  BY <1>2 DEF Forget, procs, history, Clear, Quiet, Alone, Once, Holds
<1> QED
  BY <1>1, <1>2, ClearPublishing, ClearAckWait, ClearProcess, ClearHandle DEF PipelineNext

\* A chat sees a notification twice only after a fault: an ack wait that ended
\* with the message in hand, a death between the send and the ack, a lost
\* answer, or a durable created anew.
THEOREM DuplicatesNeedFaults == PipelineSpec => []DuplicateNeedsFault
<1>1. PipelineInit => Clear
  BY NoNoteAssumption DEF PipelineInit, Clear, Quiet, Alone, Once, Holds
<1>2. Base /\ Clear => DuplicateNeedsFault
  BY DEF Clear, Quiet, Once, DuplicateNeedsFault, Base, PipelineTypeOK
<1> QED
  BY <1>1, <1>2, BaseInit, BaseNext, ClearNext, PTL DEF PipelineSpec

(* ---------------------------------------------------------------------- *)
(* Refinement of the contract                                              *)

LEMMA ContractInit == PipelineInit => Contract!CInit
BY DEF PipelineInit, Contract!CInit

LEMMA ContractPublishing ==
  ASSUME Base, NEW n \in Notes, Publishing(n)
  PROVE  [Contract!CNext]_(Contract!cvars)
<1>1. CASE Store(n) /\ KeyOf[n] \notin window
  <2>1. status[n] = "absent"
    BY <1>1 DEF Store, Base, Ledger
  <2>2. Contract!Accept(n)
    BY <1>1, <2>1 DEF Store, procs, history, Base, PipelineTypeOK, Contract!Accept
  <2> QED
    BY <2>2 DEF Contract!CNext
<1>2. CASE UNCHANGED <<status, tries, shown>>
  BY <1>2 DEF Contract!cvars
<1> QED
  BY <1>1, <1>2 DEF Publishing, Send, Store, LosePublish, server, procs, history

LEMMA ContractAckWait ==
  ASSUME Base, NEW n \in Notes, AckWaitEnds(n)
  PROVE  [Contract!CNext]_(Contract!cvars)
<1>1. CASE tries[n] = MaxDeliver
  <2>1. Contract!Settle(n)
    BY <1>1 DEF AckWaitEnds, Requeue, procs, Base, PipelineTypeOK, Contract!Settle
  <2> QED
    BY <2>1 DEF Contract!CNext
<1>2. CASE tries[n] # MaxDeliver
  BY <1>2 DEF AckWaitEnds, Requeue, procs, Base, PipelineTypeOK, Contract!cvars
<1> QED
  BY <1>1, <1>2

LEMMA ContractProcess ==
  ASSUME Base, NEW p \in Procs, Process(p)
  PROVE  [Contract!CNext]_(Contract!cvars)
<1>1. CASE PullSubscribe(p) /\ ~durable
  <2>1. Contract!Reset
    BY <1>1 DEF PullSubscribe, Retained, Base, PipelineTypeOK, Statuses, Contract!Reset
  <2> QED
    BY <2>1 DEF Contract!CNext
<1>2. CASE Fetch(p)
  <2>1. PICK S \in SUBSET {n \in Notes : status[n] \in {"new", "again"}} :
          /\ status' = [n \in Notes |-> IF n \in S THEN "out" ELSE status[n]]
          /\ tries' = [n \in Notes |-> IF n \in S THEN tries[n] + 1 ELSE tries[n]]
    BY <1>2 DEF Fetch
  <2>2. \A n \in S : tries[n] < MaxDeliver
    BY <2>1 DEF Base, PipelineTypeOK, Ledger
  <2>3. Contract!Try(S)
    BY <1>2, <2>1, <2>2 DEF Fetch, history, Base, PipelineTypeOK, Contract!Try
  <2> QED
    BY <2>3 DEF Contract!CNext
<1>3. CASE Ack(p) /\ status' # status
  <2>1. PICK n \in Notes : n = acking[p] /\ shown[n] > 0
    BY <1>3 DEF Ack, Base, PipelineTypeOK, Custody
  <2>2. Contract!Settle(n)
    BY <1>3, <2>1 DEF Ack, Close, history, Base, PipelineTypeOK, Contract!Settle
  <2> QED
    BY <2>2 DEF Contract!CNext
<1>4. CASE UNCHANGED <<status, tries, shown>>
  BY <1>4 DEF Contract!cvars
<1>5. CASE (PullSubscribe(p) /\ durable) \/ Shutdown(p) \/ PipelineCrash(p)
  BY <1>4, <1>5 DEF PullSubscribe, Shutdown, PipelineCrash, server, history
<1>6. CASE Ack(p) /\ status' = status
  BY <1>4, <1>6 DEF Ack
<1> QED
  BY <1>1, <1>2, <1>3, <1>5, <1>6 DEF Process

LEMMA ContractHandle ==
  ASSUME Base, NEW p \in Procs, NEW n \in Notes, Handle(p, n)
  PROVE  [Contract!CNext]_(Contract!cvars)
<1>1. status[n] # "absent" /\ UNCHANGED tries
  BY DEF Handle, Reject, SendOk, Nak, Handling, server, Base, Custody
<1>2. CASE Reject(p, n)
  <2>1. CASE status' = status
    BY <1>1, <1>2, <2>1 DEF Reject, history, Contract!cvars
  <2>2. CASE status' # status
    <3>1. Contract!Settle(n)
      BY <1>1, <1>2, <2>2 DEF Reject, Close, history, Base, PipelineTypeOK, Contract!Settle
    <3> QED
      BY <3>1 DEF Contract!CNext
  <2> QED
    BY <2>1, <2>2
<1>3. CASE SendOk(p, n)
  <2>1. Contract!Show(n)
    BY <1>1, <1>3 DEF SendOk, server, Base, PipelineTypeOK, Contract!Show
  <2> QED
    BY <2>1 DEF Contract!CNext
<1>4. CASE Nak(p, n) /\ shown' = [shown EXCEPT ![n] = @ + 1]
  <2>1. n \notin Malformed /\ shown[n] \in Nat
    BY <1>4 DEF Nak, Base, PipelineTypeOK
  <2>2. {m \in Notes : shown'[m] > 0} = {m \in Notes : shown[m] > 0} \union {n}
    BY <1>4, <2>1 DEF Base, PipelineTypeOK
  <2>3. CASE status[n] = "out" /\ tries[n] = MaxDeliver /\ status' # status
    <3>1. status' = [status EXCEPT ![n] = "closed"]
      BY <1>4, <2>3 DEF Nak, Return, Requeue
    <3>2. Contract!Show(n)
      BY <1>1, <2>1, <2>2, <3>1 DEF Base, PipelineTypeOK, Contract!Show
    <3> QED
      BY <3>2 DEF Contract!CNext
  <2>4. CASE ~(status[n] = "out" /\ tries[n] = MaxDeliver /\ status' # status)
    <3>1. \A m \in Notes : status'[m] = status[m] \/ (status[m] = "out" /\ status'[m] = "again")
      BY <1>4, <2>4 DEF Nak, Return, Requeue, Base, PipelineTypeOK
    <3>2. Contract!Show(n)
      BY <1>1, <2>1, <2>2, <3>1 DEF Base, PipelineTypeOK, Contract!Show
    <3> QED
      BY <3>2 DEF Contract!CNext
  <2> QED
    BY <2>3, <2>4
<1>5. CASE Nak(p, n) /\ UNCHANGED shown
  <2>1. CASE status[n] = "out" /\ tries[n] = MaxDeliver /\ status' # status
    <3>1. status' = [status EXCEPT ![n] = "closed"]
      BY <1>5, <2>1 DEF Nak, Return, Requeue
    <3>2. Contract!Settle(n)
      BY <1>1, <1>5, <2>1, <3>1 DEF Nak, Base, PipelineTypeOK, Contract!Settle
    <3> QED
      BY <3>2 DEF Contract!CNext
  <2>2. CASE ~(status[n] = "out" /\ tries[n] = MaxDeliver /\ status' # status)
    BY <1>1, <1>5, <2>2 DEF Nak, Return, Requeue, Base, PipelineTypeOK, Contract!cvars
  <2> QED
    BY <2>1, <2>2
<1> QED
  BY <1>2, <1>3, <1>4, <1>5 DEF Handle, Nak

\* The pipeline keeps the contract: a notification the stream accepted is
\* given up only when its chat has seen it, when it is malformed, or when its
\* deliveries are used up.
THEOREM PipelineKeepsContract == PipelineSpec => ImplementsContract
<1>1. Base /\ [PipelineNext]_pipelineVars => [Contract!CNext]_(Contract!cvars)
  <2> SUFFICES ASSUME Base, [PipelineNext]_pipelineVars PROVE [Contract!CNext]_(Contract!cvars)
    OBVIOUS
  <2>1. CASE UNCHANGED pipelineVars
    BY <2>1 DEF pipelineVars, Contract!cvars
  <2>2. CASE \E k \in Keys : Forget(k)
    BY <2>2 DEF Forget, procs, history, Contract!cvars
  <2> QED
    BY <2>1, <2>2, ContractPublishing, ContractAckWait, ContractProcess, ContractHandle DEF PipelineNext
<1> QED
  BY <1>1, ContractInit, BaseInit, BaseNext, PTL DEF PipelineSpec, ImplementsContract, Contract!CSpec
=============================================================================
