------------------------ MODULE CalendarPollerProofs ------------------------
(***************************************************************************)
(* The properties of CalendarPoller hold for every set of calendars, every *)
(* lead time and every number of ticks, changes, edits and failures.       *)
(***************************************************************************)
EXTENDS CalendarPoller, TLAPS

Busy == pc # "idle"
InHand == pc \in {"new", "changed", "remind", "mark"} \union Telling
Fetched == pc = "next" \/ InHand
Expanded(evs) == InstancesOf(evs, at, at + Lookahead)
Currents == [inst : Instances, changed : BOOLEAN, reminded : BOOLEAN]

\* A cycle runs in a live process, on one calendar, and takes each of its
\* instances once.
Core ==
  /\ Busy => up /\ u.url \in Urls
  /\ Fetched => at <= now /\ fetched \in Feeds /\ todo \subseteq Expanded(fetched)
  /\ InHand => /\ cur \in Currents /\ cur.inst \in Expanded(fetched) \ todo
               /\ rows[Key] # NoRow => rows[Key].ver = cur.inst.ver
  /\ pc = "tell_reminder" => Due(cur.inst.start) /\ ~PrevSent

Dealt(k) == reminders[k] > 0 \/ k \in excused

\* Rows, the instance at hand and slots speak of reminders that were sent, or
\* are, or got lost, and what is near was dealt with or is still to come.
RowsReminded == \A k \in Keys : rows[k] # NoRow /\ rows[k].reminded => reminders[k] > 0
HandReminded == InHand /\ (cur.reminded \/ pc = "mark") => reminders[Key] > 0
SlotsDealt ==
  \A k \in Keys : <<"reminder", k>> \in slots =>
    reminders[k] > 0 \/ <<"reminder", k>> \in lost \/ (pc = "tell_reminder" /\ k = Key)
NearDealt ==
  Fetched => \A i \in Expanded(fetched) : Near(i.start) =>
    \/ i \in todo
    \/ InHand /\ pc # "mark" /\ i = cur.inst
    \/ Dealt(KeyOf(i))
Reminding == RowsReminded /\ HandReminded /\ SlotsDealt /\ NearDealt

\* The time decisions are made for: a cycle's own, which lags behind.
Clock == IF Fetched THEN at ELSE now

\* What was reminded of and is still to start has its mark, or gets it next.
Calm == troubles = 0 /\ ~wiped
Once == \A k \in Keys : reminders[k] <= 1
Marked ==
  \A k \in Keys : reminders[k] > 0 =>
    k[2] <= Clock \/ (rows[k] # NoRow /\ rows[k].reminded) \/ (pc = "mark" /\ k = Key)
HandHasRow == InHand => rows[Key] # NoRow /\ rows[Key].reminded = cur.reminded
MarkedOnce == Calm => Once /\ Marked /\ HandHasRow

\* What the calendar held from the start has its rows once a fetch is over.
Quiet == troubles = 0 /\ ~raced
HaveRows == \A k \in known : Clock < k[2] => rows[k] # NoRow
StillHeld == known # {} => user.url \in Urls /\ known \subseteq KeysIn(feed[user.url], now)
FetchedHasRows == (pc = "idle" /\ user.fetched) \/ (Busy /\ u.fetched) => HaveRows
SameCalendar == Busy /\ known # {} => u.url = user.url
RowsToCome ==
  Fetched /\ ~u.fetched =>
    \A k \in known : Clock < k[2] => rows[k] # NoRow \/ \E i \in todo : k = KeyOf(i)
NewIsNew ==
  /\ pc = "new" /\ u.fetched => Key \notin known \/ Key[2] <= at
  /\ pc = "tell_new" => Key \notin known
HeldHasRows ==
  Quiet => news = {} /\ StillHeld /\ FetchedHasRows /\ SameCalendar /\ RowsToCome /\ NewIsNew

\* Without failures the row at hand is the only one whose user is yet to be told.
ToBeTold == pc \in {"new", "tell_new", "tell_changed"} \/ (pc = "changed" /\ cur.changed)
RowsTold ==
  troubles = 0 =>
    \A k \in Keys : rows[k] # NoRow =>
      heard[k] = rows[k].ver \/ k \in swallowed \/ (ToBeTold /\ k = Key)

IInv == TypeOK /\ Core /\ Reminding /\ MarkedOnce /\ HeldHasRows /\ RowsTold

-----------------------------------------------------------------------------
(* What a feed expands to                                                  *)

\* Every instance comes from a VEVENT of the feed that starts there.
LEMMA Origin ==
  ASSUME NEW f \in Feeds, NEW a, NEW b, NEW i \in InstancesOf(f, a, b)
  PROVE  \E e \in f : e.uid = i.uid /\ i.start \in e.occ /\ e.ver = i.ver
<1>1. CASE i \in UNION {Expand(e, a, b) : e \in Masters(f)}
  <2>1. PICK e \in Masters(f) : i \in Expand(e, a, b)
    BY <1>1
  <2> QED
    BY <2>1 DEF Expand, Masters
<1>2. CASE i \in {[uid |-> o.uid, start |-> CHOOSE t \in o.occ : TRUE, ver |-> o.ver] : o \in Overrides(f)}
  <2>1. PICK o \in Overrides(f) : i = [uid |-> o.uid, start |-> CHOOSE t \in o.occ : TRUE, ver |-> o.ver]
    BY <1>2
  <2>2. o \in f /\ o.occ # {}
    BY FeedsAssumption DEF Overrides
  <2>3. (CHOOSE t \in o.occ : TRUE) \in o.occ
    BY <2>2
  <2> QED
    BY <2>1, <2>2, <2>3
<1> QED
  BY <1>1, <1>2 DEF InstancesOf, ApplyOverrides

LEMMA InstancesType ==
  ASSUME NEW f \in Feeds, NEW a, NEW b
  PROVE  InstancesOf(f, a, b) \subseteq Instances
<1>1. SUFFICES ASSUME NEW i \in InstancesOf(f, a, b) PROVE i \in Instances
  OBVIOUS
<1>2. PICK e \in f : e.uid = i.uid /\ i.start \in e.occ /\ e.ver = i.ver
  BY Origin
<1>3. e \in Vevents
  BY FeedsAssumption
<1>4. i.uid \in Uids /\ i.start \in Times /\ i.ver \in Versions
  BY <1>2, <1>3 DEF Vevents
<1>5. \E x, y, z : i = [uid |-> x, start |-> y, ver |-> z]
  BY DEF InstancesOf, ApplyOverrides, Expand
<1> QED
  BY <1>4, <1>5 DEF Instances

LEMMA ExpandedType ==
  ASSUME NEW f \in Feeds
  PROVE  Expanded(f) \subseteq Instances
BY InstancesType DEF Expanded

LEMMA KeyType ==
  ASSUME NEW i \in Instances
  PROVE  KeyOf(i) \in Keys /\ i.start \in Nat /\ i.ver \in Versions /\ KeyOf(i)[2] = i.start /\ KeyOf(i)[1] = i.uid
BY TimesAssumption DEF Instances, KeyOf, Keys, Times

LEMMA KeysType ==
  ASSUME NEW f \in Feeds, NEW t
  PROVE  KeysIn(f, t) \subseteq Keys
BY InstancesType, KeyType DEF KeysIn

\* An occurrence in the window that nothing overrides is an instance.
LEMMA OwnTime ==
  ASSUME NEW f \in Feeds, NEW e \in Masters(f), NEW t \in e.occ \ e.ex, NEW a, NEW b, a <= t, t <= b,
         ~\E o \in Overrides(f) : o.uid = e.uid /\ o.rid = t
  PROVE  [uid |-> e.uid, start |-> t, ver |-> e.ver] \in InstancesOf(f, a, b)
<1> DEFINE i == [uid |-> e.uid, start |-> t, ver |-> e.ver]
<1>1. i \in Expand(e, a, b)
  BY DEF Expand
<1>2. i \in UNION {Expand(d, a, b) : d \in Masters(f)}
  BY <1>1
<1>3. i.uid = e.uid /\ i.start = t
  OBVIOUS
<1> QED
  BY <1>2, <1>3 DEF InstancesOf, ApplyOverrides

-----------------------------------------------------------------------------
(* Types                                                                   *)

LEMMA FreshType == Fresh \in Users
BY DEF Fresh, Users

LEMMA CurrentType ==
  ASSUME TypeOK, Core, InHand
  PROVE  /\ Key \in Keys /\ cur.inst \in Instances /\ cur \in Currents
         /\ Key = KeyOf(cur.inst) /\ Key[2] = cur.inst.start /\ cur.inst.ver \in Versions
         /\ fetched \in Feeds /\ Fetched
BY KeyType DEF Core, Currents, Key, InHand, Fetched

LEMMA IdleType ==
  ASSUME EndPoll
  PROVE  /\ pc' = "idle" /\ u' \in Users /\ at' \in 0 .. MaxTime
         /\ fetched' \in Feeds \union {{}} /\ todo' = {} /\ todo' \subseteq Instances /\ cur' = NoInst
BY FreshType, TimesAssumption DEF EndPoll

LEMMA TypeSettings ==
  ASSUME TypeOK, NEW nu, nu \in Users, Set(nu),
         rows' = rows \/ rows' = [k \in Keys |-> NoRow],
         wiped' \in BOOLEAN, raced' \in BOOLEAN, known' \subseteq Keys, news' \subseteq Keys
  PROVE  TypeOK'
<1>1. ops' \in 0 .. MaxOps
  BY BoundsAssumption DEF Set, TypeOK
<1> QED
  BY <1>1 DEF Set, TypeOK, feedVars, procVars, guardVars

LEMMA TypeUser ==
  ASSUME TypeOK
  PROVE  /\ \A url \in Urls : SetURL(url) => TypeOK'
         /\ Remove => TypeOK'
         /\ Toggle => TypeOK'
         /\ \A m \in Inputs : SetLead(m) => TypeOK'
<1>1. ASSUME NEW url \in Urls, SetURL(url) PROVE TypeOK'
  <2>1. WithURL(url) \in Users
    BY DEF TypeOK, WithURL, Users
  <2>2. known' \subseteq Keys
    BY <1>1, KeysType DEF SetURL, TypeOK
  <2> QED
    BY <1>1, <2>1, <2>2, TypeSettings DEF SetURL, TypeOK
<1>2. ASSUME Remove PROVE TypeOK'
  BY <1>2, FreshType, TypeSettings DEF Remove, TypeOK
<1>3. ASSUME Toggle PROVE TypeOK'
  <2>1. [user EXCEPT !.enabled = ~@] \in Users
    BY DEF TypeOK, Users
  <2> QED
    BY <1>3, <2>1, TypeSettings DEF Toggle, TypeOK
<1>4. ASSUME NEW m \in Inputs, SetLead(m) PROVE TypeOK'
  <2>1. [user EXCEPT !.lead = m] \in Users
    BY <1>4 DEF TypeOK, Users, SetLead, LeadAllowed
  <2> QED
    BY <1>4, <2>1, TypeSettings DEF SetLead, TypeOK
<1> QED
  BY <1>1, <1>2, <1>3, <1>4

LEMMA TypeWorld ==
  ASSUME TypeOK
  PROVE  /\ \A url \in Urls : Edit(url) => TypeOK'
         /\ Tick => TypeOK'
         /\ Crash => TypeOK'
         /\ Restart => TypeOK'
<1>1. ASSUME NEW url \in Urls, Edit(url) PROVE TypeOK'
  <2>1. PICK f \in Feeds : feed' = [feed EXCEPT ![url] = f]
    BY <1>1 DEF Edit
  <2>2. known' \subseteq Keys /\ feed' \in [Urls -> Feeds]
    BY <1>1, <2>1 DEF Edit, TypeOK
  <2>3. edits' \in 0 .. MaxEdits
    BY BoundsAssumption, <1>1 DEF Edit, TypeOK
  <2> QED
    BY <1>1, <2>2, <2>3 DEF Edit, TypeOK, procVars, msgVars
<1>2. ASSUME Tick PROVE TypeOK'
  <2>1. now' \in 1 .. MaxTime
    BY <1>2, TimesAssumption DEF Tick, TypeOK
  <2>2. known' \subseteq Keys
    BY <1>2 DEF Tick, TypeOK
  <2> QED
    BY <1>2, <2>1, <2>2 DEF Tick, TypeOK, feedVars, msgVars
<1>3. ASSUME Crash PROVE TypeOK'
  <2>1. troubles' \in 0 .. MaxTroubles
    BY BoundsAssumption, <1>3 DEF Crash, TypeOK
  <2>2. slots' \subseteq Kinds \X Keys /\ lost' \subseteq slots'
    BY <1>3 DEF Crash, TypeOK
  <2> QED
    BY <1>3, <2>1, <2>2, IdleType DEF Crash, TypeOK, feedVars, userVars, toldVars
<1>4. ASSUME Restart PROVE TypeOK'
  BY <1>4 DEF Restart, TypeOK, feedVars, userVars, msgVars
<1> QED
  BY <1>1, <1>2, <1>3, <1>4

LEMMA TypeFetch ==
  ASSUME TypeOK, Core
  PROVE  /\ Poll => TypeOK'
         /\ FetchFails => TypeOK'
         /\ Fetch => TypeOK'
         /\ Finish => TypeOK'
<1>1. MarkFetched => user' \in Users
  BY DEF MarkFetched, TypeOK, Users
<1>2. ASSUME Poll PROVE TypeOK'
  BY <1>2 DEF Poll, TypeOK, feedVars, userVars, guardVars, toldVars
<1>3. ASSUME FetchFails PROVE TypeOK'
  <2>1. troubles' \in 0 .. MaxTroubles
    BY BoundsAssumption, <1>3 DEF FetchFails, TypeOK
  <2> QED
    BY <1>1, <1>3, <2>1, IdleType DEF FetchFails, TypeOK, feedVars, msgVars
<1>4. ASSUME Fetch PROVE TypeOK'
  <2>1. u.url \in Urls /\ feed[u.url] \in Feeds
    BY <1>4 DEF Core, Busy, Fetch, TypeOK
  <2>2. fetched' \in Feeds /\ todo' \subseteq Instances
    BY <1>4, <2>1, InstancesType DEF Fetch
  <2> QED
    BY <1>4, <2>2, TimesAssumption DEF Fetch, TypeOK, feedVars, userVars, msgVars
<1>5. ASSUME Finish PROVE TypeOK'
  <2>1. rows' \in [Keys -> [ver : Versions, reminded : BOOLEAN] \union {NoRow}]
    BY <1>5 DEF Finish, DropOldRows, TypeOK
  <2>2. troubles' \in 0 .. MaxTroubles /\ user' \in Users
    BY <1>1, <1>5, BoundsAssumption DEF Finish, TypeOK
  <2> QED
    BY <1>5, <2>1, <2>2, IdleType DEF Finish, TypeOK, feedVars, msgVars
<1> QED
  BY <1>2, <1>3, <1>4, <1>5

LEMMA TypeUpsert ==
  ASSUME TypeOK, NEW i \in todo
  PROVE  /\ UpsertState(i) => TypeOK'
         /\ UpsertFails(i) => TypeOK'
<1>1. i \in Instances /\ KeyOf(i) \in Keys /\ i.ver \in Versions
  BY KeyType DEF TypeOK
<1>2. ASSUME UpsertState(i) PROVE TypeOK'
  <2>1. PICK r : r = (rows[KeyOf(i)] # NoRow /\ rows[KeyOf(i)].reminded)
    OBVIOUS
  <2>2. r \in BOOLEAN
    BY <1>1, <2>1 DEF TypeOK
  <2>3. rows' = [rows EXCEPT ![KeyOf(i)] = [ver |-> i.ver, reminded |-> r]]
    BY <1>2, <2>1 DEF UpsertState
  <2>4. rows' \in [Keys -> [ver : Versions, reminded : BOOLEAN] \union {NoRow}]
    BY <1>1, <2>2, <2>3 DEF TypeOK
  <2>5. cur' = [inst |-> i, changed |-> rows[KeyOf(i)] # NoRow /\ Differs(KeyOf(i), i), reminded |-> r]
    BY <1>2, <2>1 DEF UpsertState
  <2>6. cur' \in [inst : Instances, changed : BOOLEAN, reminded : BOOLEAN]
    BY <1>1, <2>2, <2>5 DEF Differs
  <2>7. todo' \subseteq Instances /\ pc' \in {"new", "changed"}
    BY <1>2 DEF UpsertState, TypeOK
  <2> QED
    BY <1>2, <2>4, <2>6, <2>7 DEF UpsertState, TypeOK, feedVars, userVars, msgVars
<1>3. ASSUME UpsertFails(i) PROVE TypeOK'
  <2>1. troubles' \in 0 .. MaxTroubles
    BY BoundsAssumption, <1>3 DEF UpsertFails, TypeOK
  <2> QED
    BY <1>1, <1>3, <2>1 DEF UpsertFails, TypeOK, feedVars, userVars, guardVars, toldVars
<1> QED
  BY <1>2, <1>3

\* The steps on the instance at hand.
HandStep == New \/ Changed \/ Remind \/ Send \/ SendFails \/ MarkReminderSent

\* Where they lead.
Leads ==
  \/ pc = "new" /\ pc' \in {"tell_new", "remind"}
  \/ pc = "changed" /\ pc' \in {"tell_changed", "remind"}
  \/ pc = "remind" /\ pc' \in {"tell_reminder", "next"}
  \/ pc \in {"tell_new", "tell_changed"} /\ pc' = "remind"
  \/ pc = "tell_reminder" /\ pc' \in {"mark", "next"}
  \/ pc = "mark" /\ pc' = "next"

Marks == rows[Key] # NoRow /\ rows' = [rows EXCEPT ![Key].reminded = TRUE]

LEMMA Handling ==
  ASSUME HandStep
  PROVE  /\ InHand /\ Leads /\ Goto(pc')
         /\ rows' = rows \/ (pc = "mark" /\ Marks)
         /\ troubles' = troubles \/ (troubles' = troubles + 1 /\ troubles < MaxTroubles)
<1>1. CASE New \/ Changed \/ Remind
  BY <1>1 DEF New, Changed, Remind, InHand, Leads, Goto, Asks, Claims, GuardFails, Swallows, Withheld, Passes
<1>2. CASE Send \/ SendFails
  BY <1>2 DEF Send, SendFails, Telling, Kind, InHand, Leads, Goto
<1>3. CASE MarkReminderSent
  BY <1>3 DEF MarkReminderSent, InHand, Leads, Goto, Marks
<1> QED
  BY <1>1, <1>2, <1>3 DEF HandStep

LEMMA ToldType ==
  ASSUME TypeOK, Core, InHand, Told \/ UNCHANGED toldVars
  PROVE  /\ news' \subseteq Keys /\ swallowed' \subseteq Keys
         /\ reminders' \in [Keys -> 0 .. 2] /\ heard' \in [Keys -> Versions \union {NoRow}]
<1>1. Key \in Keys /\ cur.inst.ver \in Versions
  BY CurrentType
<1>2. Reminds => reminders' \in [Keys -> 0 .. 2]
  BY <1>1 DEF Reminds, TypeOK
<1>3. Tells => heard' \in [Keys -> Versions \union {NoRow}] /\ swallowed' \subseteq Keys
  BY <1>1 DEF Tells, TypeOK
<1> QED
  BY <1>2, <1>3 DEF Told, toldVars, TypeOK

LEMMA MessagesType ==
  ASSUME TypeOK, Core, HandStep
  PROVE  /\ slots' \subseteq Kinds \X Keys /\ lost' \subseteq slots' /\ excused' \subseteq Keys
         /\ news' \subseteq Keys /\ swallowed' \subseteq Keys
         /\ reminders' \in [Keys -> 0 .. 2] /\ heard' \in [Keys -> Versions \union {NoRow}]
<1>1. InHand /\ Key \in Keys
  BY Handling, CurrentType
<1>2. ASSUME NEW kind \in Kinds, NEW tell, NEW next, Asks(kind, tell, next)
      PROVE  slots' \subseteq Kinds \X Keys /\ lost' \subseteq slots' /\ excused' \subseteq Keys /\ UNCHANGED toldVars
  BY <1>1, <1>2 DEF Asks, Claims, GuardFails, guardVars, TypeOK
<1>3. CASE New
  <2>1. "new" \in Kinds
    BY DEF Kinds
  <2>2. CASE Asks("new", "tell_new", "remind")
    BY <1>2, <2>1, <2>2 DEF TypeOK, toldVars
  <2>3. CASE Swallows("new")
    BY <1>1, <2>3 DEF Swallows, TypeOK, guardVars
  <2>4. CASE Tells /\ UNCHANGED <<guardVars, news, reminders, excused>>
    <3>1. heard' \in [Keys -> Versions \union {NoRow}] /\ swallowed' \subseteq Keys
      BY <1>1, <2>4, CurrentType DEF Tells, TypeOK
    <3> QED
      BY <2>4, <3>1 DEF TypeOK, guardVars
  <2> QED
    BY <1>3, <2>2, <2>3, <2>4 DEF New
<1>4. CASE Changed
  <2>1. "changed" \in Kinds
    BY DEF Kinds
  <2>2. CASE Asks("changed", "tell_changed", "remind")
    BY <1>2, <2>1, <2>2 DEF TypeOK, toldVars
  <2>3. CASE Swallows("changed")
    BY <1>1, <2>3 DEF Swallows, TypeOK, guardVars
  <2>4. CASE Passes("remind")
    BY <2>4 DEF Passes, msgVars, TypeOK
  <2> QED
    BY <1>4, <2>2, <2>3, <2>4 DEF Changed
<1>5. CASE Remind
  <2>1. "reminder" \in Kinds
    BY DEF Kinds
  <2>2. CASE Asks("reminder", "tell_reminder", "next")
    BY <1>2, <2>1, <2>2 DEF TypeOK, toldVars
  <2>3. CASE Withheld
    BY <1>1, <2>3 DEF Withheld, TypeOK, guardVars, toldVars
  <2>4. CASE Passes("next")
    BY <2>4 DEF Passes, msgVars, TypeOK
  <2> QED
    BY <1>5, <2>2, <2>3, <2>4 DEF Remind
<1>6. CASE Send
  BY <1>1, <1>6, ToldType DEF Send, TypeOK, guardVars
<1>7. CASE SendFails
  <2>1. excused' \subseteq Keys /\ slots' \subseteq Kinds \X Keys /\ lost' \subseteq slots'
    BY <1>1, <1>7 DEF SendFails, TypeOK
  <2> QED
    BY <1>1, <1>7, <2>1, ToldType DEF SendFails
<1>8. CASE MarkReminderSent
  BY <1>8 DEF MarkReminderSent, msgVars, TypeOK
<1> QED
  BY <1>3, <1>4, <1>5, <1>6, <1>7, <1>8 DEF HandStep

LEMMA MarksType ==
  ASSUME TypeOK, Core, InHand, Marks
  PROVE  /\ rows' \in [Keys -> [ver : Versions, reminded : BOOLEAN] \union {NoRow}]
         /\ rows'[Key] # NoRow /\ rows'[Key].reminded /\ rows'[Key].ver = rows[Key].ver
         /\ \A k \in Keys \ {Key} : rows'[k] = rows[k]
<1>1. Key \in Keys
  BY CurrentType
<1>2. PICK r \in [ver : Versions, reminded : BOOLEAN] : r = rows[Key]
  BY <1>1 DEF Marks, TypeOK
<1>3. [r EXCEPT !.reminded = TRUE] \in [ver : Versions, reminded : BOOLEAN]
  OBVIOUS
<1> QED
  BY <1>1, <1>2, <1>3, NoRowAssumption DEF Marks, TypeOK

LEMMA TypeHand ==
  ASSUME TypeOK, Core, HandStep
  PROVE  TypeOK'
<1>1. rows' \in [Keys -> [ver : Versions, reminded : BOOLEAN] \union {NoRow}]
  BY Handling, MarksType DEF TypeOK
<1>2. troubles' \in 0 .. MaxTroubles
  BY Handling, BoundsAssumption DEF TypeOK
<1>3. cur' = NoInst \/ cur' \in [inst : Instances, changed : BOOLEAN, reminded : BOOLEAN]
  BY Handling, CurrentType DEF Goto, Currents
<1>4. pc' \in {"idle", "fetch", "next", "new", "changed", "remind", "mark"} \union Telling
  BY Handling DEF Leads, Telling
<1> QED
  BY <1>1, <1>2, <1>3, <1>4, Handling, MessagesType DEF Goto, TypeOK, feedVars, userVars

LEMMA TypeNext == TypeOK /\ Core /\ [Next]_vars => TypeOK'
<1> SUFFICES ASSUME TypeOK, Core, [Next]_vars PROVE TypeOK'
  OBVIOUS
<1>1. CASE UNCHANGED vars
  BY <1>1 DEF TypeOK, vars
<1> QED
  BY <1>1, TypeUser, TypeWorld, TypeFetch, TypeUpsert, TypeHand DEF Next, HandStep

-----------------------------------------------------------------------------
(* The cycle                                                               *)

\* What the steps of the user and of the owner of the feeds leave alone.
Aside == UNCHANGED <<now, procVars, troubles>>

LEMMA AsideSteps ==
  /\ \A url \in Urls : SetURL(url) \/ Edit(url) => Aside /\ rows' = rows
  /\ Toggle \/ (\E m \in Inputs : SetLead(m)) => Aside /\ rows' = rows
  /\ Remove => Aside /\ (rows' = rows \/ rows' = [k \in Keys |-> NoRow])
BY DEF Aside, SetURL, Edit, Toggle, SetLead, Remove, Set, procVars

LEMMA CoreAside ==
  ASSUME TypeOK, Core, Aside, rows' = rows \/ rows' = [k \in Keys |-> NoRow]
  PROVE  Core'
<1>1. UNCHANGED <<now, up, pc, u, at, fetched, todo, cur>>
  BY DEF Aside, procVars
<1>2. Expanded(fetched)' = Expanded(fetched) /\ Key' = Key
  BY <1>1 DEF Expanded, Key
<1>3. InHand /\ rows'[Key] # NoRow => rows'[Key].ver = cur.inst.ver
  BY CurrentType DEF Core
<1> QED
  BY <1>1, <1>2, <1>3 DEF Core, Busy, Fetched, InHand, Due, Lead, PrevSent

LEMMA CoreIdle ==
  ASSUME pc' \in {"idle", "fetch"}, pc' # "idle" => up' /\ u'.url \in Urls
  PROVE  Core'
BY DEF Core, Busy, Fetched, InHand, Telling

LEMMA CoreUpsert ==
  ASSUME TypeOK, Core, NEW i \in todo, UpsertState(i) \/ UpsertFails(i)
  PROVE  Core'
<1>1. UNCHANGED <<now, up, u, at, fetched>> /\ todo' = todo \ {i} /\ pc = "next"
  BY DEF UpsertState, UpsertFails
<1>2. /\ fetched \in Feeds /\ todo \subseteq Expanded(fetched) /\ up /\ u.url \in Urls /\ at <= now
      /\ Expanded(fetched)' = Expanded(fetched)
  BY <1>1 DEF Core, Busy, Fetched, Expanded
<1>3. CASE UpsertFails(i)
  BY <1>1, <1>2, <1>3 DEF UpsertFails, Core, Busy, Fetched, InHand, Telling
<1>4. CASE UpsertState(i)
  <2>1. KeyOf(i) \in Keys /\ i \in Instances
    BY KeyType DEF TypeOK
  <2>2. cur'.inst = i /\ rows'[KeyOf(i)].ver = i.ver
    BY <1>4, <2>1 DEF UpsertState, TypeOK
  <2>3. cur' \in Currents
    <3>1. PICK r : r = (rows[KeyOf(i)] # NoRow /\ rows[KeyOf(i)].reminded)
      OBVIOUS
    <3>2. r \in BOOLEAN
      BY <2>1, <3>1 DEF TypeOK
    <3> QED
      BY <1>4, <2>1, <3>1, <3>2 DEF UpsertState, Currents, Differs
  <2> QED
    BY <1>1, <1>2, <1>4, <2>2, <2>3 DEF Core, Busy, Fetched, InHand, Telling, Key, UpsertState
<1> QED
  BY <1>3, <1>4

LEMMA CoreHand ==
  ASSUME TypeOK, Core, HandStep
  PROVE  Core'
<1>1. InHand /\ Fetched /\ Busy /\ Leads /\ Goto(pc') /\ UNCHANGED <<now, up, u, at, fetched, todo>>
  BY Handling DEF Goto, InHand, Telling, Fetched, Busy
<1>2. Expanded(fetched)' = Expanded(fetched)
  BY <1>1 DEF Expanded
<1>3. CASE pc' = "next"
  BY <1>1, <1>2, <1>3 DEF Core, Busy, Fetched, InHand, Telling
<1>4. CASE pc' # "next"
  <2>1. cur' = cur /\ Key' = Key /\ rows' = rows /\ pc' \in {"tell_new", "tell_changed", "tell_reminder", "remind", "mark"}
    BY <1>1, <1>4, Handling DEF Goto, Key, Leads
  <2>2. pc' = "tell_reminder" => Due(cur.inst.start) /\ ~PrevSent
    BY <1>1, <2>1 DEF HandStep, New, Changed, Remind, Send, SendFails, MarkReminderSent, Leads, Goto, Asks, Claims,
       GuardFails, Swallows, Withheld, Passes
  <2>3. (Due(cur.inst.start) /\ ~PrevSent)' <=> Due(cur.inst.start) /\ ~PrevSent
    BY <1>1, <2>1 DEF Due, Lead, PrevSent
  <2> QED
    BY <1>1, <1>2, <2>1, <2>2, <2>3 DEF Core, Busy, Fetched, InHand, Telling
<1> QED
  BY <1>3, <1>4

LEMMA CoreNext == TypeOK /\ Core /\ [Next]_vars => Core'
<1> SUFFICES ASSUME TypeOK, Core, [Next]_vars PROVE Core'
  OBVIOUS
<1>1. ASSUME NEW url \in Urls, SetURL(url) \/ Edit(url) PROVE Core'
  BY <1>1, AsideSteps, CoreAside
<1>2. CASE Remove \/ Toggle \/ \E m \in Inputs : SetLead(m)
  BY <1>2, AsideSteps, CoreAside
<1>3. CASE Tick
  <2>1. now' \in Nat /\ now <= now' /\ now \in Nat /\ at \in Nat
    BY <1>3, TimesAssumption DEF Tick, TypeOK
  <2>2. UNCHANGED <<up, pc, u, at, fetched, todo, cur, rows>>
    BY <1>3 DEF Tick
  <2>3. Expanded(fetched)' = Expanded(fetched) /\ Key' = Key
    BY <2>2 DEF Expanded, Key
  <2> QED
    BY <2>1, <2>2, <2>3 DEF Core, Busy, Fetched, InHand, Due, Lead, PrevSent
<1>4. CASE Poll
  <2>1. Listed => user.url \in Urls
    BY DEF Listed, TypeOK, Users
  <2> QED
    BY <1>4, <2>1, CoreIdle DEF Poll
<1>5. CASE FetchFails \/ Finish \/ Crash
  BY <1>5, CoreIdle DEF FetchFails, Finish, Crash, EndPoll
<1>6. CASE Fetch
  <2>1. u.url \in Urls /\ feed[u.url] \in Feeds /\ up /\ at' = now /\ now' = now /\ now \in Nat
    BY <1>6, TimesAssumption DEF Core, Busy, Fetch, TypeOK
  <2> QED
    BY <1>6, <2>1 DEF Fetch, Core, Busy, Fetched, InHand, Telling, Expanded
<1>7. CASE Restart
  <2>1. pc = "idle"
    BY <1>7 DEF Restart, Core, Busy
  <2> QED
    BY <1>7, <2>1, CoreIdle DEF Restart
<1>8. ASSUME NEW i \in todo, UpsertState(i) \/ UpsertFails(i) PROVE Core'
  BY <1>8, CoreUpsert
<1>9. CASE UNCHANGED vars
  BY <1>9, CoreAside DEF vars, Aside, procVars
<1> QED
  BY <1>1, <1>2, <1>3, <1>4, <1>5, <1>6, <1>7, <1>8, <1>9, CoreHand DEF Next, HandStep

-----------------------------------------------------------------------------
(* Every occurrence in the lead time is reminded of                        *)

LEMMA RemindingAside ==
  ASSUME TypeOK, Core, Reminding, UNCHANGED <<pc, u, at, fetched, todo, cur, slots, lost, excused, reminders>>,
         rows' = rows \/ rows' = [k \in Keys |-> NoRow]
  PROVE  Reminding'
<1>1. RowsReminded'
  BY DEF Reminding, RowsReminded
<1>2. HandReminded'
  BY DEF Reminding, HandReminded, InHand, Key
<1>3. SlotsDealt'
  BY DEF Reminding, SlotsDealt, Key
<1>4. NearDealt'
  BY DEF Reminding, NearDealt, Dealt, Fetched, InHand, Expanded, Near, Lead
<1> QED
  BY <1>1, <1>2, <1>3, <1>4 DEF Reminding

\* Between two cycles, or before the fetch: rows and slots may go.
LEMMA RemindingIdle ==
  ASSUME TypeOK, Reminding, pc' \in {"idle", "fetch"}, reminders' = reminders,
         slots' \in {{}, slots}, slots' \intersect lost \subseteq lost',
         pc = "tell_reminder" => slots' \intersect {<<"reminder", Key>>} \subseteq lost',
         \A k \in Keys : rows'[k] = rows[k] \/ rows'[k] = NoRow
  PROVE  Reminding'
<1>1. RowsReminded'
  BY DEF Reminding, RowsReminded
<1>2. HandReminded' /\ NearDealt'
  BY DEF HandReminded, InHand, Telling, NearDealt, Fetched
<1>3. SlotsDealt'
  BY DEF Reminding, SlotsDealt
<1> QED
  BY <1>1, <1>2, <1>3 DEF Reminding

LEMMA RemindingFetch ==
  ASSUME TypeOK, Core, Reminding, Fetch
  PROVE  Reminding'
<1>1. UNCHANGED <<rows, reminders, slots, lost>> /\ todo' = Expanded(fetched)' /\ pc = "fetch" /\ pc' = "next"
  BY DEF Fetch, msgVars, Expanded
<1>2. RowsReminded' /\ SlotsDealt'
  BY <1>1 DEF Reminding, RowsReminded, SlotsDealt
<1>3. HandReminded' /\ NearDealt'
  BY <1>1 DEF HandReminded, InHand, Telling, NearDealt
<1> QED
  BY <1>2, <1>3 DEF Reminding

LEMMA RemindingUpsert ==
  ASSUME TypeOK, Core, Reminding, NEW i \in todo, UpsertState(i) \/ UpsertFails(i)
  PROVE  Reminding'
<1>1. i \in Instances /\ KeyOf(i) \in Keys
  BY KeyType DEF TypeOK
<1>2. /\ pc = "next" /\ todo' = todo \ {i}
      /\ UNCHANGED <<u, at, fetched, slots, lost, reminders>> /\ Fetched /\ ~InHand
      /\ Expanded(fetched)' = Expanded(fetched)
  BY DEF UpsertState, UpsertFails, msgVars, guardVars, toldVars, Fetched, InHand, Telling, Expanded
<1>3. excused' = excused \/ excused' = excused \union {KeyOf(i)}
  BY DEF UpsertState, UpsertFails, msgVars
<1>4. \A t : Near(t)' <=> Near(t)
  BY <1>2 DEF Near, Lead
<1>5. SlotsDealt'
  BY <1>2 DEF Reminding, SlotsDealt
<1>6. CASE UpsertState(i)
  <2>1. PICK r : r = (rows[KeyOf(i)] # NoRow /\ rows[KeyOf(i)].reminded)
    OBVIOUS
  <2>2. /\ rows' = [rows EXCEPT ![KeyOf(i)] = [ver |-> i.ver, reminded |-> r]]
        /\ cur'.inst = i /\ cur'.reminded = r /\ pc' \in {"new", "changed"} /\ excused' = excused
    BY <1>6, <2>1 DEF UpsertState, msgVars
  <2>3. RowsReminded'
    BY <1>1, <1>2, <2>1, <2>2 DEF Reminding, RowsReminded, TypeOK
  <2>4. HandReminded'
    BY <1>1, <1>2, <2>1, <2>2 DEF Reminding, RowsReminded, HandReminded, Key
  <2>5. NearDealt'
    BY <1>2, <1>4, <2>2 DEF Reminding, NearDealt, Dealt, Fetched, InHand
  <2> QED
    BY <1>5, <2>3, <2>4, <2>5 DEF Reminding
<1>7. CASE UpsertFails(i)
  <2>1. rows' = rows /\ pc' = "next" /\ excused' = excused \union {KeyOf(i)}
    BY <1>2, <1>7 DEF UpsertFails
  <2>2. RowsReminded' /\ HandReminded'
    BY <1>2, <2>1 DEF Reminding, RowsReminded, HandReminded, InHand, Telling
  <2>3. NearDealt'
    BY <1>2, <1>4, <2>1 DEF Reminding, NearDealt, Dealt, Fetched, InHand
  <2> QED
    BY <1>5, <2>2, <2>3 DEF Reminding
<1> QED
  BY <1>6, <1>7

\* What a step on the instance at hand does to its reminder.
LEMMA HandDeals ==
  ASSUME TypeOK, Core, Reminding, HandStep
  PROVE  /\ \A k \in Keys : reminders[k] > 0 => reminders'[k] > 0
         /\ excused \subseteq excused'
         /\ <<"reminder", Key>> \in slots' => <<"reminder", Key>> \in slots \union lost' \/ pc' = "tell_reminder"
         /\ slots' \subseteq slots \union (Kinds \X {Key})
         /\ \A k \in Keys : k # Key /\ <<"reminder", k>> \in lost => <<"reminder", k>> \in lost'
         /\ <<"reminder", Key>> \in lost => <<"reminder", Key>> \in lost' \/ pc' = "tell_reminder"
         /\ pc = "tell_reminder" => reminders'[Key] > 0 \/ (<<"reminder", Key>> \in slots => <<"reminder", Key>> \in lost')
         /\ pc' \in {"next", "mark"} /\ pc # "mark" /\ Near(cur.inst.start) => reminders'[Key] > 0 \/ Key \in excused'
         /\ pc' = "mark" => reminders'[Key] > 0
<1>1. InHand /\ Key \in Keys /\ \A k \in Keys : reminders[k] \in Nat
  BY Handling, CurrentType DEF TypeOK
<1>2. CASE New \/ Changed
  <2>1. /\ pc \in {"new", "changed"} /\ pc' \notin {"next", "mark"} /\ pc # "tell_reminder"
        /\ UNCHANGED <<reminders, excused>>
    BY <1>2 DEF New, Changed, Asks, Claims, GuardFails, Swallows, Passes, Goto, msgVars, toldVars
  <2>2. PICK kind \in {"new", "changed"} :
          slots' \subseteq slots \union {<<kind, Key>>} /\ lost \ {<<kind, Key>>} \subseteq lost'
    BY <1>2 DEF New, Changed, Asks, Claims, GuardFails, Swallows, Passes, msgVars, guardVars
  <2> QED
    BY <2>1, <2>2 DEF Kinds
<1>3. CASE Remind
  <2>1. CASE Claims("reminder", "tell_reminder")
    BY <1>1, <1>3, <2>1 DEF Remind, Claims, Goto, toldVars, Kinds
  <2>2. CASE Withheld
    <3>1. reminders[Key] > 0 \/ <<"reminder", Key>> \in lost
      BY <1>1, <1>3, <2>2 DEF Remind, Withheld, Held, Reminding, SlotsDealt
    <3> QED
      BY <1>1, <1>3, <2>2, <3>1 DEF Remind, Withheld, Goto, guardVars, toldVars
  <2>3. CASE Passes("next") /\ ~(Due(cur.inst.start) /\ ~PrevSent)
    <3>1. Near(cur.inst.start) => Due(cur.inst.start)
      BY DEF Near, Due
    <3>2. PrevSent => reminders[Key] > 0
      BY <1>1 DEF Reminding, HandReminded, PrevSent
    <3> QED
      BY <1>1, <1>3, <2>3, <3>1, <3>2 DEF Remind, Passes, Goto, msgVars
  <2>4. CASE GuardFails("reminder", "next")
    BY <1>1, <1>3, <2>4 DEF Remind, GuardFails, Goto, guardVars, toldVars, Kinds
  <2> QED
    BY <1>3, <2>1, <2>2, <2>3, <2>4 DEF Remind, Asks
<1>4. CASE Send \/ SendFails
  <2>1. /\ pc \in Telling /\ slots' = slots /\ lost \subseteq lost' /\ excused \subseteq excused'
        /\ Told \/ UNCHANGED toldVars
    BY <1>4 DEF Send, SendFails, guardVars
  <2>2. Reminds => reminders'[Key] > 0 /\ \A k \in Keys : reminders[k] > 0 => reminders'[k] > 0
    BY <1>1 DEF Reminds, TypeOK
  <2>3. \A k \in Keys : reminders[k] > 0 => reminders'[k] > 0
    BY <2>1, <2>2 DEF Told, toldVars
  <2>4. CASE pc # "tell_reminder"
    BY <1>4, <2>1, <2>3, <2>4 DEF Send, SendFails, Goto, Kind, Telling
  <2>5. CASE pc = "tell_reminder" /\ Send
    BY <2>1, <2>2, <2>3, <2>5 DEF Send, Told, Goto, Kind
  <2>6. CASE pc = "tell_reminder" /\ SendFails
    BY <2>1, <2>3, <2>6 DEF SendFails, Goto, Kind
  <2> QED
    BY <1>4, <2>4, <2>5, <2>6
<1>5. CASE MarkReminderSent
  BY <1>1, <1>5 DEF MarkReminderSent, Goto, msgVars
<1> QED
  BY <1>2, <1>3, <1>4, <1>5 DEF HandStep

LEMMA RemindingHand ==
  ASSUME TypeOK, Core, Reminding, HandStep
  PROVE  Reminding'
<1>1. /\ InHand /\ Fetched /\ Key \in Keys /\ Key = KeyOf(cur.inst) /\ Leads
      /\ UNCHANGED <<u, at, fetched, todo>> /\ (pc' # "next" => cur' = cur /\ Key' = Key)
  BY Handling, CurrentType DEF Goto, Key
<1>2. RowsReminded'
  <2>1. CASE rows' = rows
    BY <2>1, HandDeals DEF Reminding, RowsReminded
  <2>2. CASE pc = "mark" /\ Marks
    <3>1. reminders[Key] > 0
      BY <1>1, <2>2 DEF Reminding, HandReminded
    <3> QED
      BY <1>1, <2>2, <3>1, HandDeals, MarksType DEF Reminding, RowsReminded
  <2> QED
    BY <2>1, <2>2, Handling
<1>3. HandReminded'
  BY <1>1, HandDeals DEF Reminding, HandReminded, InHand, Telling
<1>4. SlotsDealt'
  <2>1. ASSUME NEW k \in Keys, <<"reminder", k>> \in slots', k # Key
        PROVE  reminders'[k] > 0 \/ <<"reminder", k>> \in lost'
    BY <1>1, <2>1, HandDeals DEF Reminding, SlotsDealt
  <2>2. ASSUME <<"reminder", Key>> \in slots', pc' # "tell_reminder"
        PROVE  reminders'[Key] > 0 \/ <<"reminder", Key>> \in lost'
    <3>1. <<"reminder", Key>> \in slots \union lost'
      BY <2>2, HandDeals
    <3> QED
      BY <1>1, <2>2, <3>1, HandDeals DEF Reminding, SlotsDealt
  <2>3. pc' = "tell_reminder" => Key' = Key
    BY <1>1
  <2> QED
    BY <2>1, <2>2, <2>3 DEF SlotsDealt
<1>5. NearDealt'
  <2>1. ASSUME NEW i \in Expanded(fetched), Near(i.start), i \notin todo, ~((InHand /\ pc # "mark")' /\ i = cur.inst)
        PROVE  reminders'[KeyOf(i)] > 0 \/ KeyOf(i) \in excused'
    <3>1. KeyOf(i) \in Keys
      BY <1>1, ExpandedType, KeyType DEF Core
    <3>2. CASE reminders[KeyOf(i)] > 0 \/ KeyOf(i) \in excused
      BY <3>1, <3>2, HandDeals
    <3>3. CASE pc # "mark" /\ i = cur.inst
      <4>1. pc' \in {"next", "mark"}
        BY <1>1, <2>1, <3>3 DEF Leads, InHand, Telling
      <4> QED
        BY <1>1, <2>1, <3>3, <4>1, HandDeals
    <3> QED
      BY <1>1, <2>1, <3>2, <3>3 DEF Reminding, NearDealt, Dealt
  <2>2. Expanded(fetched)' = Expanded(fetched) /\ (\A t : Near(t)' <=> Near(t)) /\ (pc' \in {"next", "mark"} \/ cur' = cur)
    BY <1>1 DEF Expanded, Near, Lead
  <2>3. pc' = "next" => ~InHand'
    BY DEF InHand, Telling
  <2> QED
    BY <1>1, <2>1, <2>2, <2>3 DEF NearDealt, Dealt
<1> QED
  BY <1>2, <1>3, <1>4, <1>5 DEF Reminding

LEMMA RemindingNext == TypeOK /\ Core /\ Reminding /\ [Next]_vars => Reminding'
<1> SUFFICES ASSUME TypeOK, Core, Reminding, [Next]_vars PROVE Reminding'
  OBVIOUS
<1>1. ASSUME NEW url \in Urls, SetURL(url) \/ Edit(url) PROVE Reminding'
  BY <1>1, RemindingAside DEF SetURL, Edit, Set, procVars, guardVars, msgVars
<1>2. CASE Remove \/ Toggle \/ \E m \in Inputs : SetLead(m)
  BY <1>2, RemindingAside DEF Remove, Toggle, SetLead, Set, procVars, guardVars
<1>3. CASE Tick
  BY <1>3, RemindingAside DEF Tick, msgVars
<1>4. CASE Poll
  BY <1>4, RemindingIdle DEF Poll, guardVars, toldVars
<1>5. CASE FetchFails
  BY <1>5, RemindingIdle DEF FetchFails, EndPoll, msgVars
<1>6. CASE Finish
  <2>1. \A k \in Keys : rows'[k] = rows[k] \/ rows'[k] = NoRow
    BY <1>6 DEF Finish, DropOldRows
  <2> QED
    BY <1>6, <2>1, RemindingIdle DEF Finish, DropOldRows, EndPoll, msgVars
<1>7. CASE Crash
  BY <1>7, RemindingIdle DEF Crash, EndPoll, toldVars, Telling, Kind
<1>8. CASE Restart
  BY <1>8, RemindingAside DEF Restart, msgVars
<1>9. ASSUME NEW i \in todo, UpsertState(i) \/ UpsertFails(i) PROVE Reminding'
  BY <1>9, RemindingUpsert
<1>10. CASE UNCHANGED vars
  BY <1>10, RemindingAside DEF vars
<1> QED
  BY <1>1, <1>2, <1>3, <1>4, <1>5, <1>6, <1>7, <1>8, <1>9, <1>10,
     RemindingFetch, RemindingHand DEF Next, HandStep

\* An occurrence that nothing overrides is an instance, and what is near was
\* dealt with once nothing is left to do.
LEMMA ReminderDealt == TypeOK /\ Core /\ Reminding => OwnTimeIsReminded
<1> SUFFICES ASSUME TypeOK, Core, Reminding, CycleEnds,
                    NEW e \in Masters(fetched), NEW t \in e.occ \ e.ex, Near(t),
                    ~\E o \in Overrides(fetched) : o.uid = e.uid /\ o.rid = t
             PROVE  Dealt(<<e.uid, t>>)
  BY DEF OwnTimeIsReminded, Dealt
<1> DEFINE i == [uid |-> e.uid, start |-> t, ver |-> e.ver]
<1>1. fetched \in Feeds /\ Fetched /\ pc = "next" /\ todo = {}
  BY DEF CycleEnds, Core, Fetched
<1>2. at <= t /\ t <= at + Lookahead
  <2>1. e \in Vevents
    BY <1>1, FeedsAssumption DEF Masters
  <2>2. t \in Nat /\ at \in Nat
    BY <2>1, TimesAssumption DEF Vevents, Times, TypeOK
  <2> QED
    BY <2>2 DEF Near
<1>3. i \in Expanded(fetched)
  BY <1>1, <1>2, OwnTime DEF Expanded
<1>4. Near(i.start) /\ KeyOf(i) = <<e.uid, t>>
  BY DEF KeyOf
<1> QED
  BY <1>1, <1>3, <1>4 DEF Reminding, NearDealt, InHand, Telling

-----------------------------------------------------------------------------
(* No reminder comes twice                                                 *)

\* Trouble and the removal of the calendar are remembered.
LEMMA CalmBefore == TypeOK /\ [Next]_vars /\ Calm' => Calm
<1> SUFFICES ASSUME TypeOK, [Next]_vars PROVE troubles' >= troubles /\ (wiped => wiped')
  BY BoundsAssumption DEF Calm, TypeOK
<1>0. troubles \in Nat
  BY BoundsAssumption DEF TypeOK
<1>1. ASSUME NEW url \in Urls, SetURL(url) \/ Edit(url) PROVE troubles' >= troubles /\ (wiped => wiped')
  BY <1>0, <1>1 DEF SetURL, Edit, Set
<1>2. CASE Remove \/ Toggle \/ \E m \in Inputs : SetLead(m)
  BY <1>0, <1>2 DEF Remove, Toggle, SetLead, Set
<1>3. CASE Tick \/ Poll \/ FetchFails \/ Fetch \/ Finish \/ Crash \/ Restart
  BY <1>0, <1>3 DEF Tick, Poll, FetchFails, Fetch, Finish, Crash, Restart, userVars
<1>4. ASSUME NEW i \in todo, UpsertState(i) \/ UpsertFails(i) PROVE troubles' >= troubles /\ (wiped => wiped')
  BY <1>0, <1>4 DEF UpsertState, UpsertFails, userVars
<1>5. CASE HandStep
  BY <1>0, <1>5, Handling DEF Goto, userVars
<1>6. CASE UNCHANGED vars
  BY <1>0, <1>6 DEF vars
<1> QED
  BY <1>1, <1>2, <1>3, <1>4, <1>5, <1>6 DEF Next, HandStep

\* The clock never goes back.
LEMMA ClockRuns ==
  ASSUME TypeOK, Core, at' \in Nat, now' \in Nat, now <= now',
         Fetched => ~Fetched' \/ at' = at,
         Fetched' => Fetched \/ at' = now'
  PROVE  Clock \in Nat /\ Clock' \in Nat /\ Clock <= Clock'
<1>1. now \in Nat /\ at \in Nat
  BY TimesAssumption DEF TypeOK
<1> QED
  BY <1>1 DEF Clock, Core

LEMMA MarkedAside ==
  ASSUME TypeOK, Core, MarkedOnce, Calm, UNCHANGED <<pc, at, cur, rows, reminders>>, now' \in Nat, now <= now'
  PROVE  MarkedOnce'
<1>1. Clock \in Nat /\ Clock' \in Nat /\ Clock <= Clock'
  BY ClockRuns, TimesAssumption DEF Fetched, InHand, TypeOK
<1>2. \A k \in Keys : k[2] \in Nat
  BY TimesAssumption DEF Keys, Times
<1>3. Once' /\ HandHasRow' /\ Key' = Key
  BY DEF MarkedOnce, Once, HandHasRow, InHand, Key
<1>4. Marked'
  BY <1>1, <1>2, <1>3 DEF MarkedOnce, Marked
<1> QED
  BY <1>3, <1>4 DEF MarkedOnce

\* Outside the instances what has started may be dropped.
LEMMA MarkedIdle ==
  ASSUME TypeOK, Core, MarkedOnce, Calm, reminders' = reminders, now' = now, at' \in Nat,
         pc # "mark", pc' \in {"idle", "fetch"} \/ (pc' = "next" /\ at' = IF Fetched THEN at ELSE now),
         \A k \in Keys : rows'[k] = rows[k] \/ k[2] <= Clock
  PROVE  MarkedOnce'
<1>1. Once' /\ HandHasRow'
  BY DEF MarkedOnce, Once, HandHasRow, InHand, Telling
<1>2. \A k \in Keys : k[2] \in Nat
  BY TimesAssumption DEF Keys, Times
<1>3. Clock \in Nat /\ Clock' \in Nat /\ Clock <= Clock'
  BY ClockRuns, TimesAssumption DEF Fetched, InHand, Telling, TypeOK
<1>4. Marked'
  BY <1>2, <1>3 DEF MarkedOnce, Marked
<1> QED
  BY <1>1, <1>4 DEF MarkedOnce

LEMMA MarkedUpsert ==
  ASSUME TypeOK, MarkedOnce, Calm, NEW i \in todo, UpsertState(i)
  PROVE  MarkedOnce'
<1>1. KeyOf(i) \in Keys
  BY KeyType DEF TypeOK
<1>2. PICK r : r = (rows[KeyOf(i)] # NoRow /\ rows[KeyOf(i)].reminded)
  OBVIOUS
<1>3. r \in BOOLEAN /\ i.ver \in Versions
  BY <1>1, <1>2, KeyType DEF TypeOK
<1>4. /\ rows' = [rows EXCEPT ![KeyOf(i)] = [ver |-> i.ver, reminded |-> r]]
      /\ cur'.inst = i /\ cur'.reminded = r /\ pc = "next" /\ pc' \in {"new", "changed"}
      /\ reminders' = reminders /\ now' = now /\ at' = at /\ Clock' = Clock
  BY <1>2 DEF UpsertState, msgVars, Clock, Fetched, InHand
<1>5. rows'[KeyOf(i)] = [ver |-> i.ver, reminded |-> r] /\ \A k \in Keys \ {KeyOf(i)} : rows'[k] = rows[k]
  BY <1>1, <1>4 DEF TypeOK
<1>6. rows'[KeyOf(i)] # NoRow /\ rows'[KeyOf(i)].reminded = r
  BY <1>3, <1>5, NoRowAssumption
<1>7. Marked'
  BY <1>2, <1>4, <1>5, <1>6 DEF MarkedOnce, Marked
<1>8. HandHasRow'
  BY <1>4, <1>6 DEF HandHasRow, Key
<1>9. Once'
  BY <1>4 DEF MarkedOnce, Once
<1> QED
  BY <1>7, <1>8, <1>9 DEF MarkedOnce

\* The only reminder of an instance is sent before its row is marked.
LEMMA MarkedHand ==
  ASSUME TypeOK, Core, MarkedOnce, Calm, Calm', HandStep
  PROVE  MarkedOnce'
<1>1. /\ InHand /\ Fetched /\ Leads /\ Key \in Keys /\ Key[2] = cur.inst.start /\ Key[2] \in Nat /\ at \in Nat
      /\ now' = now /\ at' = at /\ Fetched' /\ Clock = at /\ Clock' = at
      /\ pc' # "next" => cur' = cur /\ Key' = Key
  BY Handling, CurrentType, KeyType, TimesAssumption DEF Goto, Key, Fetched, InHand, Leads, Telling, Clock, TypeOK
<1>2. rows' = rows \/ (pc = "mark" /\ Marks)
  BY Handling
<1>3. HandHasRow'
  <2>1. CASE pc' = "next"
    BY <2>1 DEF HandHasRow, InHand, Telling
  <2>2. CASE pc' # "next"
    BY <1>1, <1>2, <2>2 DEF HandHasRow, MarkedOnce, Leads
  <2> QED
    BY <2>1, <2>2
<1>4. CASE reminders' = reminders
  <2>1. Once'
    BY <1>4 DEF MarkedOnce, Once
  <2>2. CASE pc # "mark" /\ rows' = rows
    BY <1>1, <1>3, <1>4, <2>1, <2>2 DEF MarkedOnce, Marked
  <2>3. CASE pc = "mark" /\ Marks
    BY <1>1, <1>3, <1>4, <2>1, <2>3, MarksType DEF MarkedOnce, Marked
  <2>4. CASE pc = "mark" /\ rows' = rows
    <3>1. troubles' # troubles + 1 /\ rows[Key] # NoRow
      BY <1>1 DEF Calm, MarkedOnce, HandHasRow
    <3>2. Marks
      BY <2>4, <3>1 DEF HandStep, New, Changed, Remind, Send, SendFails, Telling, MarkReminderSent, Marks
    <3> QED
      BY <2>3, <2>4, <3>2, <2>1, <1>3 DEF MarkedOnce
  <2> QED
    BY <1>2, <1>3, <2>1, <2>2, <2>3, <2>4 DEF MarkedOnce
<1>5. CASE reminders' # reminders
  <2>1. pc = "tell_reminder" /\ Send
    <3>1. ~SendFails
      BY DEF SendFails, Calm
    <3> QED
      BY <1>5, <3>1 DEF HandStep, New, Changed, Remind, MarkReminderSent, Asks, Claims, GuardFails, Swallows, Withheld, Passes,
         msgVars, toldVars, Send, Told
  <2>2. Reminds /\ pc' = "mark" /\ Key' = Key /\ rows' = rows
    BY <1>1, <2>1 DEF Send, Told, Kind, Goto
  <2>3. Due(cur.inst.start) /\ ~cur.reminded /\ rows[Key] # NoRow /\ rows[Key].reminded = cur.reminded
    BY <1>1, <2>1 DEF Core, MarkedOnce, HandHasRow, PrevSent
  <2>4. reminders[Key] \in 0 .. 2 /\ ~(reminders[Key] > 0)
    BY <1>1, <2>1, <2>3 DEF MarkedOnce, Marked, Due, TypeOK
  <2>5. reminders'[Key] = 1 /\ \A k \in Keys \ {Key} : reminders'[k] = reminders[k]
    BY <1>1, <2>2, <2>4 DEF Reminds, TypeOK
  <2>6. Once'
    BY <2>5 DEF MarkedOnce, Once
  <2>7. Marked'
    BY <1>1, <2>1, <2>2, <2>5 DEF MarkedOnce, Marked
  <2> QED
    BY <1>3, <2>6, <2>7 DEF MarkedOnce
<1> QED
  BY <1>4, <1>5

LEMMA MarkedNext == TypeOK /\ Core /\ MarkedOnce /\ [Next]_vars => MarkedOnce'
<1> SUFFICES ASSUME TypeOK, Core, MarkedOnce, [Next]_vars, Calm' PROVE MarkedOnce'
  BY DEF MarkedOnce
<1>0. Calm /\ now \in Nat /\ troubles \in Nat
  BY CalmBefore, BoundsAssumption, TimesAssumption DEF TypeOK
<1>1. troubles' = 0 /\ troubles = 0 /\ ~wiped'
  BY <1>0 DEF Calm
<1>2. ASSUME NEW url \in Urls, SetURL(url) \/ Edit(url) PROVE MarkedOnce'
  BY <1>0, <1>2, MarkedAside DEF SetURL, Edit, Set, procVars, msgVars
<1>3. CASE Toggle \/ \E m \in Inputs : SetLead(m)
  BY <1>0, <1>3, MarkedAside DEF Toggle, SetLead, Set, procVars
<1>4. CASE Remove
  BY <1>1, <1>4 DEF Remove
<1>5. CASE Tick
  BY <1>0, <1>5, MarkedAside DEF Tick, msgVars
<1>6. CASE Poll
  BY <1>0, <1>6, MarkedIdle, TimesAssumption DEF Poll, toldVars, TypeOK
<1>7. CASE Fetch
  BY <1>0, <1>7, MarkedIdle DEF Fetch, msgVars, Fetched, InHand, Telling
<1>8. CASE Finish
  <2>1. \A k \in Keys : rows'[k] = rows[k] \/ k[2] <= Clock
    <3>1. \A k \in Keys : k[2] \in Nat /\ Lookback \in Nat
      BY TimesAssumption DEF Keys, Times
    <3>2. Clock = at /\ at \in Nat
      BY <1>8, TimesAssumption DEF Finish, DropOldRows, Clock, Fetched, TypeOK
    <3> QED
      BY <1>8, <3>1, <3>2 DEF Finish, DropOldRows
  <2> QED
    BY <1>0, <1>8, <2>1, MarkedIdle DEF Finish, DropOldRows, EndPoll, msgVars
<1>9. CASE FetchFails \/ Crash
  BY <1>1, <1>9 DEF FetchFails, Crash
<1>10. CASE Restart
  BY <1>0, <1>10, MarkedAside DEF Restart, msgVars
<1>11. ASSUME NEW i \in todo, UpsertState(i) PROVE MarkedOnce'
  BY <1>0, <1>11, MarkedUpsert
<1>12. ASSUME NEW i \in todo, UpsertFails(i) PROVE MarkedOnce'
  BY <1>1, <1>12 DEF UpsertFails
<1>13. CASE HandStep
  BY <1>0, <1>13, MarkedHand
<1>14. CASE UNCHANGED vars
  BY <1>0, <1>14, MarkedAside DEF vars
<1> QED
  BY <1>2, <1>3, <1>4, <1>5, <1>6, <1>7, <1>8, <1>9, <1>10, <1>11, <1>12, <1>13, <1>14 DEF Next, HandStep

-----------------------------------------------------------------------------
(* What the calendar held is not announced                                 *)

LEMMA HeldSetURL ==
  ASSUME TypeOK, Core, HeldHasRows, NEW url \in Urls, SetURL(url)
  PROVE  HeldHasRows'
<1>1. SUFFICES ASSUME Quiet' PROVE HeldHasRows'
  BY DEF HeldHasRows
<1>2. pc = "idle" /\ pc' = "idle" /\ news' = {} /\ now' = now /\ feed' = feed
  BY <1>1 DEF SetURL, Set, procVars, feedVars, Quiet
<1>3. user' = [user EXCEPT !.url = url, !.fetched = FALSE, !.enabled = @ \/ user.url = NoUrl]
  BY DEF SetURL, Set, WithURL
<1>4. user'.url = url /\ ~user'.fetched
  BY <1>3 DEF TypeOK, Users
<1>5. StillHeld'
  BY <1>2, <1>4 DEF StillHeld, SetURL, KeysIn
<1>6. FetchedHasRows' /\ SameCalendar' /\ RowsToCome' /\ NewIsNew'
  BY <1>2, <1>4 DEF FetchedHasRows, SameCalendar, RowsToCome, NewIsNew, Busy, Fetched, InHand, Telling
<1> QED
  BY <1>2, <1>5, <1>6 DEF HeldHasRows

\* Every other step leaves raced alone.
LEMMA QuietBefore ==
  ASSUME TypeOK, Quiet', raced' = raced, troubles' = troubles \/ troubles' = troubles + 1
  PROVE  Quiet /\ troubles' = troubles
BY BoundsAssumption DEF Quiet, TypeOK

\* The settings but for the URL; the feeds; nothing.
LEMMA HeldAside ==
  ASSUME TypeOK, HeldHasRows, raced' = raced, troubles' = troubles,
         UNCHANGED <<now, pc, u, at, todo, cur, rows, news>>,
         known' \subseteq known, user'.url = user.url, user'.fetched = user.fetched,
         feed' = feed \/ (user.url \in Urls => known' \subseteq KeysIn(feed'[user.url], now))
  PROVE  HeldHasRows'
<1>1. SUFFICES ASSUME Quiet' PROVE HeldHasRows'
  BY DEF HeldHasRows
<1>2. Quiet
  BY <1>1, QuietBefore
<1>3. StillHeld'
  <2>1. CASE feed' = feed
    BY <1>2, <2>1 DEF HeldHasRows, StillHeld, KeysIn
  <2>2. CASE user.url \in Urls => known' \subseteq KeysIn(feed'[user.url], now)
    BY <1>2, <2>2 DEF HeldHasRows, StillHeld, KeysIn
  <2> QED
    BY <2>1, <2>2
<1>4. FetchedHasRows'
  BY <1>2 DEF HeldHasRows, FetchedHasRows, HaveRows, Busy, Clock, Fetched, InHand
<1>5. SameCalendar' /\ RowsToCome' /\ NewIsNew'
  BY <1>2 DEF HeldHasRows, SameCalendar, RowsToCome, NewIsNew, Busy, Fetched, InHand, Clock, Key
<1> QED
  BY <1>2, <1>3, <1>4, <1>5 DEF HeldHasRows

\* Nothing is held: nothing to show.
LEMMA HeldNothing ==
  ASSUME known' = {}, Quiet' => news' = {}
  PROVE  HeldHasRows'
BY DEF HeldHasRows, StillHeld, FetchedHasRows, HaveRows, SameCalendar, RowsToCome, NewIsNew

LEMMA HeldEdit ==
  ASSUME TypeOK, HeldHasRows, NEW url \in Urls, Edit(url)
  PROVE  HeldHasRows'
<1>1. PICK f \in Feeds :
        /\ feed' = [feed EXCEPT ![url] = f]
        /\ known' = IF url = user.url THEN known \intersect KeysIn(f, now) ELSE known
  BY DEF Edit
<1>2. feed'[url] = f /\ \A v \in Urls \ {url} : feed'[v] = feed[v]
  BY <1>1 DEF TypeOK
<1>3. CASE url = user.url
  BY <1>1, <1>2, <1>3, HeldAside DEF Edit, procVars, msgVars
<1>4. CASE url # user.url /\ ~(Quiet')
  BY <1>4 DEF HeldHasRows
<1>5. CASE url # user.url /\ Quiet'
  <2>1. Quiet
    BY <1>5 DEF Quiet, Edit
  <2>2. user.url \in Urls => known \subseteq KeysIn(feed'[user.url], now)
    <3>1. known = {} \/ (user.url \in Urls => known \subseteq KeysIn(feed[user.url], now))
      BY <2>1 DEF HeldHasRows, StillHeld
    <3> QED
      BY <1>2, <1>5, <3>1
  <2> QED
    BY <1>1, <1>5, <2>2, HeldAside DEF Edit, procVars, msgVars
<1> QED
  BY <1>3, <1>4, <1>5

LEMMA HeldTick ==
  ASSUME TypeOK, Core, HeldHasRows, Tick
  PROVE  HeldHasRows'
<1>1. SUFFICES ASSUME Quiet' PROVE HeldHasRows'
  BY DEF HeldHasRows
<1>2. Quiet /\ UNCHANGED <<user, feed, rows, news, pc, u, at, todo, cur>> /\ now' \in Nat /\ now <= now'
  BY <1>1, TimesAssumption DEF Tick, Quiet, feedVars, msgVars, TypeOK
<1>3. known' \subseteq known /\ (user.url # NoUrl => known' \subseteq KeysIn(feed[user.url], now'))
  BY DEF Tick
<1>4. StillHeld'
  <2>1. known' = {} \/ user.url \in Urls
    BY <1>2, <1>3 DEF HeldHasRows, StillHeld
  <2>2. CASE user.url # NoUrl
    BY <1>2, <1>3, <2>1, <2>2 DEF StillHeld, KeysIn
  <2>3. CASE user.url = NoUrl /\ known' # {}
    BY <2>1, <2>3, NoUrlAssumption
  <2> QED
    BY <1>2, <2>2, <2>3 DEF StillHeld
<1>5. /\ Clock \in Nat /\ Clock' \in Nat /\ Clock <= Clock'
      /\ \A k \in known : k[2] \in Nat
      /\ Key' = Key
  BY <1>2, ClockRuns, TimesAssumption DEF Fetched, InHand, TypeOK, Keys, Times, Key
<1>6. FetchedHasRows'
  BY <1>2, <1>3, <1>5 DEF HeldHasRows, FetchedHasRows, HaveRows, Busy
<1>7. RowsToCome'
  BY <1>2, <1>3, <1>5 DEF HeldHasRows, RowsToCome, Fetched, InHand
<1>8. SameCalendar' /\ NewIsNew'
  BY <1>2, <1>3, <1>5 DEF HeldHasRows, SameCalendar, NewIsNew, Busy
<1> QED
  BY <1>2, <1>4, <1>6, <1>7, <1>8 DEF HeldHasRows

LEMMA HeldPoll ==
  ASSUME TypeOK, Core, HeldHasRows, Poll
  PROVE  HeldHasRows'
<1>1. SUFFICES ASSUME Quiet' PROVE HeldHasRows'
  BY DEF HeldHasRows
<1>2. /\ Quiet /\ pc = "idle" /\ UNCHANGED <<now, feed, user, known, rows, news>>
      /\ pc' = "idle" \/ (pc' = "fetch" /\ u' = user)
  BY <1>1 DEF Poll, Quiet, feedVars, userVars, toldVars
<1>3. StillHeld'
  BY <1>2 DEF HeldHasRows, StillHeld, KeysIn
<1>4. FetchedHasRows' /\ SameCalendar' /\ RowsToCome' /\ NewIsNew'
  BY <1>2 DEF HeldHasRows, FetchedHasRows, HaveRows, SameCalendar, RowsToCome, NewIsNew, Busy, Clock,
     Fetched, InHand, Telling
<1> QED
  BY <1>2, <1>3, <1>4 DEF HeldHasRows

LEMMA HeldFetch ==
  ASSUME TypeOK, Core, HeldHasRows, Fetch
  PROVE  HeldHasRows'
<1>1. SUFFICES ASSUME Quiet' PROVE HeldHasRows'
  BY DEF HeldHasRows
<1>2. /\ Quiet /\ pc = "fetch" /\ pc' = "next" /\ UNCHANGED <<now, feed, user, known, rows, news, u>>
      /\ todo' = InstancesOf(feed[u.url], now, now + Lookahead) /\ at' = now
  BY <1>1 DEF Fetch, Quiet, feedVars, userVars, msgVars
<1>3. StillHeld'
  BY <1>2 DEF HeldHasRows, StillHeld, KeysIn
<1>4. FetchedHasRows' /\ SameCalendar' /\ NewIsNew'
  BY <1>2 DEF HeldHasRows, FetchedHasRows, HaveRows, SameCalendar, NewIsNew, Busy, Clock, Fetched, InHand, Telling
<1>5. RowsToCome'
  <2>1. \A k \in known : \E i \in InstancesOf(feed[u.url], now, now + Lookahead) : k = KeyOf(i)
    BY <1>2 DEF HeldHasRows, StillHeld, SameCalendar, Busy, KeysIn
  <2> QED
    BY <1>2, <2>1 DEF RowsToCome
<1> QED
  BY <1>2, <1>3, <1>4, <1>5 DEF HeldHasRows

LEMMA HeldUpsert ==
  ASSUME TypeOK, Core, HeldHasRows, NEW i \in todo, UpsertState(i)
  PROVE  HeldHasRows'
<1>1. SUFFICES ASSUME Quiet' PROVE HeldHasRows'
  BY DEF HeldHasRows
<1>2. /\ Quiet /\ pc = "next" /\ UNCHANGED <<now, feed, user, known, news, u>> /\ todo' = todo \ {i}
      /\ pc' = (IF rows[KeyOf(i)] = NoRow THEN "new" ELSE "changed") /\ cur'.inst = i /\ Key' = KeyOf(i)
      /\ at' = at /\ Clock = at /\ Clock' = at
  BY <1>1 DEF UpsertState, Quiet, feedVars, userVars, msgVars, Key, Clock, Fetched, InHand
<1>3. KeyOf(i) \in Keys /\ i.ver \in Versions /\ KeyOf(i)[2] \in Nat /\ at \in Nat
  BY KeyType, TimesAssumption DEF TypeOK
<1>4. rows'[KeyOf(i)] # NoRow /\ \A k \in Keys \ {KeyOf(i)} : rows'[k] = rows[k]
  <2>1. PICK r : r = (rows[KeyOf(i)] # NoRow /\ rows[KeyOf(i)].reminded)
    OBVIOUS
  <2>2. r \in BOOLEAN
    BY <1>3, <2>1 DEF TypeOK
  <2>3. rows' = [rows EXCEPT ![KeyOf(i)] = [ver |-> i.ver, reminded |-> r]]
    BY <2>1 DEF UpsertState
  <2> QED
    BY <1>3, <2>2, <2>3, NoRowAssumption DEF TypeOK
<1>5. StillHeld'
  BY <1>2 DEF HeldHasRows, StillHeld, KeysIn
<1>6. known \subseteq Keys
  BY DEF TypeOK
<1>7. FetchedHasRows'
  BY <1>2, <1>4, <1>6 DEF HeldHasRows, FetchedHasRows, HaveRows, Busy
<1>8. SameCalendar'
  BY <1>2 DEF HeldHasRows, SameCalendar, Busy
<1>9. RowsToCome'
  BY <1>2, <1>4, <1>6 DEF HeldHasRows, RowsToCome, Fetched
<1>10. NewIsNew'
  BY <1>2, <1>3 DEF HeldHasRows, NewIsNew, FetchedHasRows, HaveRows, Busy
<1> QED
  BY <1>2, <1>5, <1>7, <1>8, <1>9, <1>10 DEF HeldHasRows

\* The rest of an instance announces nothing that was held, and keeps rows.
LEMMA HeldHand ==
  ASSUME TypeOK, Core, HeldHasRows, HandStep
  PROVE  HeldHasRows'
<1>1. SUFFICES ASSUME Quiet' PROVE HeldHasRows'
  BY DEF HeldHasRows
<1>2. /\ UNCHANGED <<now, feed, user, known, u, at, todo, raced>> /\ InHand /\ Leads /\ Key \in Keys
      /\ pc' # "next" => Key' = Key
      /\ Fetched /\ Busy /\ Fetched' /\ Busy' /\ Clock = at /\ Clock' = at
  BY Handling, CurrentType DEF Goto, feedVars, userVars, InHand, Telling, Fetched, Busy, Clock, Leads, Key
<1>3. Quiet /\ troubles' = troubles
  BY <1>1, <1>2, Handling, QuietBefore
<1>4. \A k \in Keys : rows[k] # NoRow => rows'[k] # NoRow
  BY <1>2, Handling, MarksType
<1>5. NewIsNew'
  <2>1. pc' = "tell_new" => pc = "new" /\ ~First /\ InHorizon
    BY <1>2 DEF Leads, HandStep, New, Changed, Remind, Send, SendFails, MarkReminderSent, Telling, Goto
  <2>2. at \in Nat /\ Key[2] \in Nat /\ Key[2] = cur.inst.start
    BY <1>2, CurrentType, KeyType, TimesAssumption DEF TypeOK
  <2>3. pc' = "tell_new" => Key \notin known
    BY <1>3, <2>1, <2>2 DEF HeldHasRows, NewIsNew, First, InHorizon
  <2> QED
    BY <1>2, <2>3 DEF NewIsNew, Leads
<1>6. news' = {}
  <2>1. news = {}
    BY <1>3 DEF HeldHasRows
  <2>2. pc = "tell_new" => Key \notin known
    BY <1>3 DEF HeldHasRows, NewIsNew
  <2>3. Told => news' = news
    BY <2>1, <2>2 DEF Told
  <2> QED
    BY <2>1, <2>3 DEF HandStep, New, Changed, Remind, Send, SendFails, MarkReminderSent, Asks, Claims, GuardFails, Swallows,
       Withheld, Passes, msgVars, toldVars
<1>7. known \subseteq Keys
  BY DEF TypeOK
<1>8. StillHeld'
  BY <1>2, <1>3 DEF HeldHasRows, StillHeld, KeysIn
<1>9. FetchedHasRows'
  BY <1>2, <1>3, <1>4, <1>7 DEF HeldHasRows, FetchedHasRows, HaveRows, Busy
<1>10. SameCalendar'
  BY <1>2, <1>3 DEF HeldHasRows, SameCalendar, Busy
<1>11. RowsToCome'
  BY <1>2, <1>3, <1>4, <1>7 DEF HeldHasRows, RowsToCome
<1> QED
  BY <1>5, <1>6, <1>8, <1>9, <1>10, <1>11 DEF HeldHasRows

\* The end of a cycle: everything that was to come has its row.
LEMMA HeldFinish ==
  ASSUME TypeOK, Core, HeldHasRows, Finish
  PROVE  HeldHasRows'
<1>1. SUFFICES ASSUME Quiet' PROVE HeldHasRows'
  BY DEF HeldHasRows
<1>0. Quiet
  BY <1>1, QuietBefore DEF Finish
<1>2. /\ Quiet /\ pc = "next" /\ todo = {} /\ pc' = "idle" /\ UNCHANGED <<now, feed, known, news>>
      /\ Fetched /\ Busy /\ Clock = at /\ Clock' = now
  BY <1>0 DEF Finish, EndPoll, feedVars, msgVars, Fetched, Busy, Clock, InHand, Telling
<1>3. user'.url = user.url
  BY DEF Finish, DropOldRows, MarkFetched, TypeOK, Users
<1>4. HaveRows
  BY <1>2 DEF HeldHasRows, FetchedHasRows, RowsToCome, HaveRows
<1>5. \A k \in Keys : now < k[2] => rows'[k] = rows[k] /\ at < k[2]
  <2>1. \A k \in Keys : k[2] \in Nat /\ Lookback \in Nat /\ now \in Nat /\ at \in Nat /\ at <= now
    BY <1>2, TimesAssumption DEF Keys, Times, TypeOK, Core
  <2> QED
    BY <2>1 DEF Finish, DropOldRows
<1>6. StillHeld'
  BY <1>2, <1>3 DEF HeldHasRows, StillHeld, KeysIn
<1>7. FetchedHasRows'
  <2>1. known \subseteq Keys
    BY DEF TypeOK
  <2> QED
    BY <1>2, <1>4, <1>5, <2>1 DEF FetchedHasRows, HaveRows
<1>8. SameCalendar' /\ RowsToCome' /\ NewIsNew'
  BY <1>2 DEF SameCalendar, RowsToCome, NewIsNew, Busy, Fetched, InHand, Telling
<1> QED
  BY <1>2, <1>6, <1>7, <1>8 DEF HeldHasRows

LEMMA HeldNext == TypeOK /\ Core /\ HeldHasRows /\ [Next]_vars => HeldHasRows'
<1> SUFFICES ASSUME TypeOK, Core, HeldHasRows, [Next]_vars PROVE HeldHasRows'
  OBVIOUS
<1>1. CASE Toggle \/ \E m \in Inputs : SetLead(m)
  <2>1. user'.url = user.url /\ user'.fetched = user.fetched
    BY <1>1 DEF Toggle, SetLead, Set, TypeOK, Users
  <2> QED
    BY <1>1, <2>1, HeldAside DEF Toggle, SetLead, Set, procVars, feedVars
<1>2. CASE Remove
  <2>1. Quiet' => Quiet
    BY <1>2 DEF Quiet, Remove, Set
  <2> QED
    BY <1>2, <2>1, HeldNothing DEF Remove, HeldHasRows
<1>3. CASE FetchFails \/ Crash \/ \E i \in todo : UpsertFails(i)
  <2>1. troubles' = troubles + 1
    BY <1>3 DEF FetchFails, Crash, UpsertFails
  <2>2. ~(Quiet')
    BY <2>1, BoundsAssumption DEF Quiet, TypeOK
  <2> QED
    BY <2>2 DEF HeldHasRows
<1>4. CASE Restart
  BY <1>4, HeldAside DEF Restart, feedVars, userVars, msgVars
<1>5. CASE UNCHANGED vars
  BY <1>5, HeldAside DEF vars
<1> QED
  BY <1>1, <1>2, <1>3, <1>4, <1>5, HeldSetURL, HeldEdit, HeldTick, HeldPoll, HeldFetch, HeldUpsert,
     HeldHand, HeldFinish DEF Next, HandStep

-----------------------------------------------------------------------------
(* The rows say what the user was told                                     *)

LEMMA UntroubledBefore == TypeOK /\ [Next]_vars /\ troubles' = 0 => troubles = 0
<1> SUFFICES ASSUME TypeOK, [Next]_vars, troubles # 0 PROVE troubles' # 0
  OBVIOUS
<1>0. troubles \in Nat
  BY BoundsAssumption DEF TypeOK
<1>1. ASSUME NEW url \in Urls, SetURL(url) \/ Edit(url) PROVE troubles' # 0
  BY <1>1 DEF SetURL, Edit, Set
<1>2. CASE Remove \/ Toggle \/ \E m \in Inputs : SetLead(m)
  BY <1>2 DEF Remove, Toggle, SetLead, Set
<1>3. CASE Tick \/ Poll \/ FetchFails \/ Fetch \/ Finish \/ Crash \/ Restart
  BY <1>0, <1>3 DEF Tick, Poll, FetchFails, Fetch, Finish, Crash, Restart
<1>4. ASSUME NEW i \in todo, UpsertState(i) \/ UpsertFails(i) PROVE troubles' # 0
  BY <1>0, <1>4 DEF UpsertState, UpsertFails
<1>5. CASE HandStep
  BY <1>0, <1>5, Handling
<1>6. CASE UNCHANGED vars
  BY <1>6 DEF vars
<1> QED
  BY <1>1, <1>2, <1>3, <1>4, <1>5, <1>6 DEF Next, HandStep

LEMMA RowsToldAside ==
  ASSUME TypeOK, RowsTold, troubles = 0, UNCHANGED <<heard, swallowed>>,
         ToBeTold => ToBeTold' /\ cur' = cur,
         \A k \in Keys : rows'[k] = rows[k] \/ rows'[k] = NoRow
  PROVE  RowsTold'
BY DEF RowsTold, Key

LEMMA RowsToldUpsert ==
  ASSUME TypeOK, Core, RowsTold, troubles = 0, NEW i \in todo, UpsertState(i)
  PROVE  RowsTold'
<1>1. /\ pc = "next" /\ UNCHANGED <<heard, swallowed>> /\ ~ToBeTold
      /\ pc' = (IF rows[KeyOf(i)] = NoRow THEN "new" ELSE "changed")
      /\ Key' = KeyOf(i)
  BY DEF UpsertState, msgVars, Key, ToBeTold
<1>2. KeyOf(i) \in Keys
  BY KeyType DEF TypeOK
<1>3. /\ rows'[KeyOf(i)].ver = i.ver /\ \A k \in Keys \ {KeyOf(i)} : rows'[k] = rows[k]
      /\ pc' = "changed" /\ rows[KeyOf(i)].ver # i.ver => cur'.changed
  BY <1>1, <1>2 DEF UpsertState, TypeOK, Differs
<1> QED
  BY <1>1, <1>2, <1>3 DEF RowsTold, ToBeTold

\* The row at hand holds the version at hand: the user is told of it, or the
\* message is swallowed.
LEMMA RowsToldHand ==
  ASSUME TypeOK, Core, RowsTold, troubles = 0, troubles' = 0, HandStep
  PROVE  RowsTold'
<1>1. /\ InHand /\ Leads /\ Key \in Keys /\ (pc' # "next" => Key' = Key /\ cur' = cur)
      /\ rows[Key] # NoRow => rows[Key].ver = cur.inst.ver
  BY Handling, CurrentType DEF Core, Goto, Key
<1>2. \A k \in Keys : rows'[k] = NoRow \/ (rows'[k].ver = rows[k].ver /\ rows[k] # NoRow)
  BY <1>1, Handling, MarksType DEF Marks
<1>3. CASE Tells
  <2>1. heard'[Key] = cur.inst.ver /\ swallowed' = swallowed \ {Key} /\ \A k \in Keys \ {Key} : heard'[k] = heard[k]
    BY <1>1, <1>3 DEF Tells, TypeOK
  <2> QED
    BY <1>1, <1>2, <2>1 DEF RowsTold
<1>4. CASE heard' = heard /\ swallowed' = swallowed \union {Key}
  BY <1>1, <1>2, <1>4 DEF RowsTold
<1>5. CASE heard' = heard /\ swallowed' = swallowed /\ (ToBeTold => ToBeTold' /\ pc' # "next")
  BY <1>1, <1>2, <1>5 DEF RowsTold
<1>6. CASE New
  BY <1>3, <1>4, <1>5, <1>6 DEF New, Asks, Claims, GuardFails, Swallows, Goto, toldVars, ToBeTold
<1>7. CASE Changed
  BY <1>3, <1>4, <1>5, <1>7 DEF Changed, Asks, Claims, GuardFails, Swallows, Passes, Goto, msgVars, toldVars, ToBeTold
<1>8. CASE Remind \/ MarkReminderSent
  BY <1>5, <1>8 DEF Remind, MarkReminderSent, Asks, Claims, GuardFails, Withheld, Passes, msgVars, toldVars, ToBeTold
<1>9. CASE Send
  <2>1. CASE pc \in {"tell_new", "tell_changed"}
    BY <1>3, <1>9, <2>1 DEF Send, Told
  <2>2. CASE pc = "tell_reminder"
    BY <1>5, <1>9, <2>2 DEF Send, Told, ToBeTold
  <2> QED
    BY <1>9, <2>1, <2>2 DEF Send, Telling
<1>10. ~SendFails
  BY DEF SendFails
<1> QED
  BY <1>6, <1>7, <1>8, <1>9, <1>10 DEF HandStep

LEMMA RowsToldNext == TypeOK /\ Core /\ RowsTold /\ [Next]_vars => RowsTold'
<1> SUFFICES ASSUME TypeOK, Core, RowsTold, [Next]_vars, troubles' = 0 PROVE RowsTold'
  BY DEF RowsTold
<1>0. troubles = 0
  BY UntroubledBefore
<1>1. ASSUME NEW url \in Urls, SetURL(url) \/ Edit(url) PROVE RowsTold'
  BY <1>0, <1>1, RowsToldAside DEF SetURL, Edit, Set, procVars, msgVars, ToBeTold
<1>2. CASE Remove \/ Toggle \/ \E m \in Inputs : SetLead(m)
  <2>1. UNCHANGED <<pc, cur, heard, swallowed>> /\ \A k \in Keys : rows'[k] = rows[k] \/ rows'[k] = NoRow
    BY <1>2 DEF Remove, Toggle, SetLead, Set, procVars
  <2> QED
    BY <1>0, <2>1, RowsToldAside DEF ToBeTold
<1>3. CASE Tick \/ Restart
  BY <1>0, <1>3, RowsToldAside DEF Tick, Restart, msgVars, ToBeTold
<1>4. CASE Poll \/ Fetch
  BY <1>0, <1>4, RowsToldAside DEF Poll, Fetch, msgVars, toldVars, ToBeTold
<1>5. CASE Finish
  <2>1. \A k \in Keys : rows'[k] = rows[k] \/ rows'[k] = NoRow
    BY <1>5 DEF Finish, DropOldRows
  <2> QED
    BY <1>0, <1>5, <2>1, RowsToldAside DEF Finish, DropOldRows, msgVars, ToBeTold
<1>6. CASE FetchFails \/ Crash \/ \E i \in todo : UpsertFails(i)
  BY <1>0, <1>6 DEF FetchFails, Crash, UpsertFails
<1>7. CASE UNCHANGED vars
  BY <1>0, <1>7, RowsToldAside DEF vars, ToBeTold
<1> QED
  BY <1>0, <1>1, <1>2, <1>3, <1>4, <1>5, <1>6, <1>7, RowsToldUpsert, RowsToldHand DEF Next, HandStep

-----------------------------------------------------------------------------
(* Results                                                                 *)

LEMMA IInvInit == Init => IInv
<1> SUFFICES ASSUME Init PROVE IInv
  OBVIOUS
<1>1. pc = "idle" /\ up /\ troubles = 0 /\ slots = {} /\ known = {} /\ news = {} /\ rows = [k \in Keys |-> NoRow]
  BY DEF Init
<1>2. TypeOK
  <2>1. now \in 1 .. MaxTime
    BY TimesAssumption DEF Init
  <2>2. /\ rows \in [Keys -> [ver : Versions, reminded : BOOLEAN] \union {NoRow}]
        /\ reminders \in [Keys -> 0 .. 2] /\ heard \in [Keys -> Versions \union {NoRow}]
    BY DEF Init
  <2>3. 0 \in 0 .. MaxOps /\ 0 \in 0 .. MaxEdits /\ 0 \in 0 .. MaxTroubles
    BY BoundsAssumption
  <2>4. 0 \in 0 .. MaxTime
    BY TimesAssumption
  <2> QED
    BY <2>1, <2>2, <2>3, <2>4, FreshType DEF Init, TypeOK
<1>3. Core /\ Reminding
  BY <1>1 DEF Core, Busy, Fetched, InHand, Telling, Reminding, RowsReminded, HandReminded, SlotsDealt, NearDealt
<1>4. MarkedOnce
  BY <1>1 DEF Init, MarkedOnce, Once, Marked, HandHasRow, InHand, Telling
<1>5. HeldHasRows
  BY <1>1 DEF HeldHasRows, StillHeld, FetchedHasRows, HaveRows, SameCalendar, RowsToCome, NewIsNew, Busy,
     Fetched, InHand, Telling
<1>6. RowsTold
  BY <1>1 DEF RowsTold
<1> QED
  BY <1>2, <1>3, <1>4, <1>5, <1>6 DEF IInv

LEMMA IInvNext == IInv /\ [Next]_vars => IInv'
BY TypeNext, CoreNext, RemindingNext, MarkedNext, HeldNext, RowsToldNext DEF IInv

LEMMA IInvAlways == Spec => []IInv
BY IInvInit, IInvNext, PTL DEF Spec

\* The variables keep their types; a lead time the code refuses is never stored.
THEOREM CalendarTypes == Spec => []TypeOK
<1>1. IInv => TypeOK
  BY DEF IInv
<1> QED
  BY IInvAlways, <1>1, PTL

\* What the calendar held when its URL was set, and still holds, is announced
\* as new only after a failure or when a cycle with the old settings was under way.
THEOREM BackfillIsSilent == Spec => []BackfillNeedsFailure
<1>1. IInv => BackfillNeedsFailure
  <2>1. TypeOK /\ troubles # 0 => troubles > 0
    BY BoundsAssumption DEF TypeOK
  <2> QED
    BY <2>1 DEF IInv, HeldHasRows, Quiet, BackfillNeedsFailure
<1> QED
  BY IInvAlways, <1>1, PTL

\* At the end of a cycle every occurrence in the lead time and the look-ahead
\* was reminded of, unless an override moved it, its write or send failed, or
\* an earlier reminder that was not sent held its slot.
THEOREM NearIsReminded == Spec => []OwnTimeIsReminded
<1>1. IInv => OwnTimeIsReminded
  BY ReminderDealt DEF IInv
<1> QED
  BY IInvAlways, <1>1, PTL

\* Without failures, and unless the calendar was removed, no reminder comes twice.
THEOREM RemindedOnce == Spec => []RepeatNeedsTrouble
<1>1. IInv => RepeatNeedsTrouble
  <2>1. TypeOK => troubles \in Nat /\ \A k \in Keys : reminders[k] \in 0 .. 2
    BY BoundsAssumption DEF TypeOK
  <2> QED
    BY <2>1 DEF IInv, MarkedOnce, Calm, Once, RepeatNeedsTrouble
<1> QED
  BY IInvAlways, <1>1, PTL

\* Without failures the user was told of the version that a row holds, unless
\* the slot of an earlier message held the message back.
THEOREM RowsAreTold == Spec => []RowsAreHeard
<1>1. IInv => RowsAreHeard
  BY DEF IInv, RowsTold, ToBeTold, RowsAreHeard, CycleEnds
<1> QED
  BY IInvAlways, <1>1, PTL
=============================================================================
