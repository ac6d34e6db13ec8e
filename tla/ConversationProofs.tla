--------------------------- MODULE ConversationProofs ---------------------------
(***************************************************************************)
(* Proofs about Conversation for any workers, keys, projects, pickers,     *)
(* queries, settings and bounds: steps, settings and jobs are well typed,  *)
(* the stored step is that of the last prompt, a setting is the one that   *)
(* was confirmed, and two subscriptions alike need a race.                 *)
(***************************************************************************)
EXTENDS Conversation, FiniteSetTheorems, TLAPS

(* ---------------------------------------------------------------------- *)
(* Steps and settings                                                      *)

\* Which values each kind of setting has.
LEMMA ValuesOf ==
  /\ \A x \in Kinds : Values(x) = UNION {SUBSET TableOf(p) : p \in Projects}
  /\ \A x \in Blocks : Values(x) = Queried
  /\ \A x \in Plain : Values(x) = Choices \union {Nothing}
  /\ Values("defaults") = {<<Nothing, Nothing>>} \union UNION {{p} \X (BoardsOf[p] \union {Nothing}) : p \in Projects}
<1> USE SettingsAssumption DEF Values
<1>1. \A x \in Kinds : Values(x) = UNION {SUBSET TableOf(p) : p \in Projects}
  OBVIOUS
<1>2. \A x \in Blocks : Values(x) = Queried
  OBVIOUS
<1>3. \A x \in Plain : Values(x) = Choices \union {Nothing}
  OBVIOUS
<1>4. Values("defaults") = {<<Nothing, Nothing>>} \union UNION {{p} \X (BoardsOf[p] \union {Nothing}) : p \in Projects}
  OBVIOUS
<1> QED BY <1>1, <1>2, <1>3, <1>4

\* What a step's name says of its argument.
LEMMA StepParts ==
  ASSUME NEW s \in Steps
  PROVE  /\ s.name \in {"defaults_issue_type", "defaults_board", "sprint_board"} => s.arg \in Projects
         /\ s.name = "sprint_sprint" => s.arg \in Boards
         /\ s.name = "project" => s.of \in Kinds
         /\ s.name = "jql" => s.of \in Blocks
         /\ s.name = "select" => /\ s.of \in Kinds /\ s.arg \in Projects /\ s.marks \subseteq TableOf(s.arg)
                                 /\ s = St("select", s.of, s.arg, s.marks)
<1>1. CASE s \in PlainSteps
  BY <1>1 DEF PlainSteps
<1>2. CASE s \in ArgSteps
  BY <1>2 DEF ArgSteps
<1>3. CASE s \in Pickers
  BY <1>3 DEF Pickers, St
<1> QED BY <1>1, <1>2, <1>3 DEF Steps

\* The steps the handlers make.
LEMMA StepsMade ==
  /\ \A n \in {"", "lookup", "comment_key", "sub_project", "sub_issue", "defaults_project", "sprint_project"} :
       Step(n) \in Steps
  /\ \A k \in Keys : St("comment_text", "", k, {}) \in Steps
  /\ \A n \in {"defaults_issue_type", "defaults_board", "sprint_board"}, p \in Projects : St(n, "", p, {}) \in Steps
  /\ \A b \in Boards : St("sprint_sprint", "", b, {}) \in Steps
  /\ \A k \in Kinds : St("project", k, Nothing, {}) \in Steps
  /\ \A b \in Blocks : St("jql", b, Nothing, {}) \in Steps
<1>1. PlainSteps \subseteq Steps /\ ArgSteps \subseteq Steps
  BY DEF Steps
<1>2. \A n \in {"", "lookup", "comment_key", "sub_project", "sub_issue", "defaults_project", "sprint_project"} :
       Step(n) \in PlainSteps
  BY DEF PlainSteps, Step, St
<1>3. \A k \in Keys : St("comment_text", "", k, {}) \in ArgSteps
  BY DEF ArgSteps, St
<1>4. \A n \in {"defaults_issue_type", "defaults_board", "sprint_board"}, p \in Projects : St(n, "", p, {}) \in ArgSteps
  BY DEF ArgSteps, St
<1>5. \A b \in Boards : St("sprint_sprint", "", b, {}) \in ArgSteps
  BY DEF ArgSteps, St
<1>6. \A k \in Kinds : St("project", k, Nothing, {}) \in ArgSteps
  BY DEF ArgSteps, St
<1>7. \A b \in Blocks : St("jql", b, Nothing, {}) \in ArgSteps
  BY DEF ArgSteps, St
<1> QED BY <1>1, <1>2, <1>3, <1>4, <1>5, <1>6, <1>7

LEMMA PickerMade ==
  ASSUME NEW k \in Kinds, NEW p \in Projects, NEW m \in SUBSET TableOf(p)
  PROVE  St("select", k, p, m) \in Steps
<1>1. St("select", k, p, m) \in [name : {"select"}, of : Kinds, arg : {p}, marks : SUBSET TableOf(p)]
  BY DEF St
<1> QED BY <1>1 DEF Steps, Pickers

(* ---------------------------------------------------------------------- *)
(* Jobs                                                                    *)

\* What a job's pc says of its fields.
LEMMA ErrandKinds ==
  ASSUME NEW j \in Errands
  PROVE  /\ j.pc \in {"start", "save", "text", "type", "types", "defaults", "default", "full", "boards", "match",
                      "sprints", "hinted", "sprint", "kanban", "unwatch", "tell"}
         /\ j.pc \in {"start", "save"} => j.arg \in Kinds
         /\ j.pc = "text" => j.arg \in Texts
         /\ j.pc = "type" => j.arg \in Choices \union {Nothing}
         /\ j.pc \in {"types", "defaults", "default", "full", "boards", "match"} => j.arg \in Projects
         /\ j.pc \in {"sprints", "hinted"} => j.arg \in Boards
<1> QED BY DEF Errands

LEMMA PuttingKinds ==
  ASSUME NEW j \in Putting
  PROVE  /\ j.pc = "post" /\ j.then \in Errands \union {NoJob}
         /\ \E x \in Settings : /\ j.puts \in [{x} -> Values(x)] /\ j.says = {x}
<1>1. PICK x \in Settings :
        j \in [pc : {"post"}, puts : [{x} -> Values(x)], says : {{x}}, failed : {"tells", "silent", "confirms"},
               then : Errands \union {NoJob}]
  BY DEF Putting
<1> QED BY <1>1

LEMMA NextKinds ==
  ASSUME NEW j \in Nexts
  PROVE  /\ j.pc \notin {"set", "show", "clear", "toggle", "create"}
         /\ j.pc = "picker" => j.kind \in Kinds /\ j.project \in Projects
         /\ j.pc = "jql" => j.block \in Blocks /\ j.text \in Queried
         /\ j.pc = "check" => j \in Checking
         /\ j.pc = "post" => j \in Putting
         /\ j.pc \notin {"picker", "jql", "check", "post"} => j \in Errands
<1>1. CASE j \in Errands
  BY <1>1, ErrandKinds
<1>2. CASE j \in Picking
  BY <1>2 DEF Picking
<1>3. CASE j \in Querying
  BY <1>3 DEF Querying
<1>4. CASE j \in Checking
  BY <1>4 DEF Checking
<1>5. CASE j \in Putting
  BY <1>5, PuttingKinds
<1> QED BY <1>1, <1>2, <1>3, <1>4, <1>5 DEF Nexts

LEMMA JobKinds ==
  ASSUME NEW j \in Jobs
  PROVE  /\ j.pc \in {"set", "show"} => j \in Asking
         /\ j.pc = "toggle" => j \in Toggling
         /\ j.pc = "create" => j \in Creating
         /\ j.pc = "clear" => j \in Clearing
         /\ j.pc = "post" => j \in Putting \union PuttingQueries
         /\ j.pc \notin {"set", "show", "toggle", "create", "clear", "post"} => j \in Nexts
<1>1. CASE j \in Nexts
  BY <1>1, NextKinds
<1>2. CASE j \in Asking
  BY <1>2 DEF Asking
<1>3. CASE j \in Toggling
  BY <1>3 DEF Toggling
<1>4. CASE j \in Creating
  BY <1>4 DEF Creating
<1>5. CASE j \in PuttingQueries
  BY <1>5 DEF PuttingQueries
<1>6. CASE j \in Clearing
  BY <1>6 DEF Clearing
<1> QED BY <1>1, <1>2, <1>3, <1>4, <1>5, <1>6 DEF Jobs

\* The jobs the handlers make.
LEMMA ErrandsMade ==
  /\ \A k \in Kinds : Does("start", k) \in Errands /\ Does("save", k) \in Errands
  /\ \A t \in Texts : Does("text", t) \in Errands
  /\ \A v \in Choices \union {Nothing} : Does("type", v) \in Errands
  /\ \A p \in Projects : /\ Does("types", p) \in Errands /\ Does("defaults", p) \in Errands
                         /\ Does("default", p) \in Errands /\ Does("full", p) \in Errands
                         /\ Does("boards", p) \in Errands /\ Does("match", p) \in Errands
  /\ \A b \in Boards : Does("sprints", b) \in Errands /\ Does("hinted", b) \in Errands
  /\ Does("sprint", Nothing) \in Errands /\ Does("kanban", Nothing) \in Errands
  /\ Does("unwatch", Nothing) \in Errands /\ Does("tell", Nothing) \in Errands
<1> QED BY DEF Errands, Does

LEMMA PutMade ==
  ASSUME NEW x \in Settings, NEW v \in Values(x), NEW f \in {"tells", "silent", "confirms"},
         NEW then \in Errands \union {NoJob}
  PROVE  Put(x, v, f, then) \in Putting
<1>1. [y \in {x} |-> v] \in [{x} -> Values(x)]
  OBVIOUS
<1>2. Put(x, v, f, then) \in [pc : {"post"}, puts : [{x} -> Values(x)], says : {{x}},
                              failed : {"tells", "silent", "confirms"}, then : Errands \union {NoJob}]
  BY <1>1 DEF Put, Posts
<1> QED BY <1>2 DEF Putting

LEMMA DefaultsMade ==
  ASSUME NEW p \in Projects, NEW b \in BoardsOf[p] \union {Nothing}, NEW then \in Errands \union {NoJob}
  PROVE  PutDefaults(p, b, then) \in Putting
<1>1. <<p, b>> \in Values("defaults") /\ "defaults" \in Settings
  BY ValuesOf DEF Settings
<1>2. PICK v \in Values("defaults") : v = <<p, b>>
  BY <1>1
<1> QED BY <1>1, <1>2, PutMade DEF PutDefaults

LEMMA NoDefaultsMade == PutDefaults(Nothing, Nothing, NoJob) \in Putting
<1>1. <<Nothing, Nothing>> \in Values("defaults") /\ "defaults" \in Settings
  BY ValuesOf DEF Settings
<1> QED BY <1>1, PutMade DEF PutDefaults

LEMMA OthersMade ==
  /\ \A s \in Steps : Asks(s) \in Asking /\ Asks(s).pc = "set"
  /\ \A x \in Subs : Checks(x) \in Checking
  /\ \A then \in Nexts \union {NoJob} : Clears(then) \in Clearing
  /\ Errands \subseteq Nexts /\ Picking \subseteq Nexts /\ Querying \subseteq Nexts
  /\ Checking \subseteq Nexts /\ Putting \subseteq Nexts
<1>1. \A s \in Steps : Asks(s) \in Asking /\ Asks(s).pc = "set"
  BY DEF Asks, Asking
<1>2. \A x \in Subs : Checks(x) \in Checking
  BY DEF Checks, Checking
<1>3. \A then \in Nexts \union {NoJob} : Clears(then) \in Clearing
  BY DEF Clears, Clearing
<1> QED BY <1>1, <1>2, <1>3 DEF Nexts
(* ---------------------------------------------------------------------- *)
(* The inductive invariant                                                 *)

\* Whoever was always alone is alone now.
Alone ==
  \A w \in Workers : job[w] # NoJob /\ w \notin mixed => \A v \in Workers \ {w} : job[v] = NoJob

\* Every subscription and every job has had an update of its own.
Counted == IsFiniteSet(Busy) /\ \A x \in Subs : subs[x] + Cardinality(Busy) <= inputs

\* Outside the moment between a step's storing and its showing the stored step
\* is that of the last prompt, or none; in it, a handler alone stored its own.
InStep ==
  disorder \/ /\ (\E w \in Workers : At(w, "show")) \/ conv \in {NoStep, asked}
              /\ \A w \in Workers : At(w, "show") /\ w \notin mixed =>
                   ~job[w].old /\ conv \in {NoStep, job[w].step}

\* A handler alone carries settings it does not confirm as they are stored.
Carries(j) == \A s \in DOMAIN j.puts \ j.says : j.puts[s] = prefs[s]
Carried == \A w \in Workers : At(w, "post") /\ w \notin mixed => Carries(job[w])

\* Who is about to create a subscription still finds none, or raced.
Unrivalled == \A w \in Workers : At(w, "create") => subs[job[w].sub] = 0 \/ job[w].sub \in raced

IInv ==
  TypeOK /\ Alone /\ Counted /\ InStep /\ Carried /\ SettingsAsTold /\ Unrivalled /\ DuplicateNeedsRace
(* ---------------------------------------------------------------------- *)
(* Steps of two kinds: an update is taken, a handler reads and goes on     *)

\* Jobs that are no danger to what the invariant says, whatever the state.
Harmless == Nexts \union Toggling \union Clearing \union {j \in Asking : j.pc = "set"} \union {NoJob}

\* Jobs that are none in this state.
Mild(j) ==
  j # NoJob => /\ j.pc # "show"
               /\ j.pc = "create" => subs[j.sub] = 0
               /\ j.pc = "post" => Carries(j)

\* A handler goes on with j and has changed nothing else, but for a message.
Moves(w, j) ==
  /\ job[w] # NoJob /\ Becomes(w, j) /\ (UNCHANGED covered \/ Covers)
  /\ UNCHANGED <<conv, asked, disorder, prefs, told, unsure, subs, raced, inputs>>
  /\ troubles' \in 0 .. MaxTroubles

LEMMA HarmlessIsMild ==
  ASSUME NEW j \in Harmless
  PROVE  Mild(j) /\ j \in Jobs \union {NoJob}
<1>1. j \in Jobs \union {NoJob}
  BY DEF Harmless, Jobs
<1>2. CASE j = NoJob
  BY <1>1, <1>2 DEF Mild
<1>3. CASE j \in Nexts
  <2>1. j.pc = "post" => Carries(j)
    <3>1. SUFFICES ASSUME j.pc = "post" PROVE Carries(j)
      OBVIOUS
    <3>2. PICK x \in Settings : j.puts \in [{x} -> Values(x)] /\ j.says = {x}
      BY <1>3, <3>1, NextKinds, PuttingKinds
    <3> QED BY <3>2 DEF Carries
  <2> QED BY <1>1, <1>3, <2>1, NextKinds DEF Mild
<1>4. CASE j \in Toggling
  BY <1>1, <1>4 DEF Mild, Toggling
<1>5. CASE j \in Clearing
  BY <1>1, <1>5 DEF Mild, Clearing
<1>6. CASE j \in Asking /\ j.pc = "set"
  BY <1>1, <1>6 DEF Mild
<1> QED BY <1>2, <1>3, <1>4, <1>5, <1>6 DEF Harmless

LEMMA HarmlessMade ==
  /\ \A s \in Steps : Asks(s) \in Harmless
  /\ \A then \in Nexts \union {NoJob} : Clears(then) \in Harmless
  /\ Nexts \subseteq Harmless /\ NoJob \in Harmless /\ Errands \subseteq Harmless /\ Putting \subseteq Harmless
<1> QED BY OthersMade DEF Harmless

LEMMA Troubled ==
  ASSUME TypeOK, UNCHANGED troubles \/ Trouble
  PROVE  troubles' \in 0 .. MaxTroubles
<1> QED BY BoundsAssumption DEF TypeOK, Trouble

\* What a read gives is a step.
LEMMA Got ==
  ASSUME TypeOK, NEW s, s \in {conv, NoStep}, Gets(s)
  PROVE  s \in Steps /\ troubles' \in 0 .. MaxTroubles
<1>1. s \in Steps
  BY StepsMade DEF TypeOK, NoStep
<1>2. UNCHANGED troubles \/ Trouble
  BY DEF Gets
<1> QED BY <1>1, <1>2, Troubled

LEMMA Going ==
  ASSUME TypeOK, NEW w \in Workers, job[w] # NoJob, NEW j \in Harmless, Goes(w, j),
         troubles' \in 0 .. MaxTroubles,
         UNCHANGED <<chatVars, prefVars, subVars, inputs>>
  PROVE  \E i \in Harmless : Moves(w, i)
<1> QED BY DEF Moves, Goes, chatVars, prefVars, subVars

LEMMA Saying ==
  ASSUME TypeOK, NEW w \in Workers, job[w] # NoJob, Says(w),
         troubles' \in 0 .. MaxTroubles,
         UNCHANGED <<chatVars, prefVars, subVars, inputs>>
  PROVE  \E i \in Harmless : Moves(w, i)
<1> QED BY DEF Moves, Says, Harmless, chatVars, prefVars, subVars

\* The job in hand, by its pc.
LEMMA AtKind ==
  ASSUME TypeOK, NEW w \in Workers, NEW pc, At(w, pc)
  PROVE  job[w] # NoJob /\ job[w] \in Jobs /\ job[w].pc = pc
<1> QED BY DEF TypeOK, At

(* ---------------------------------------------------------------------- *)
(* Handlers that read and go on                                            *)

\* What a text is an answer to.
LEMMA Answered ==
  ASSUME NEW s \in Steps, NEW t \in Texts
  PROVE  AnswerTo(s, t) \in Harmless
<1>1. CASE s.name \in {"lookup", "comment_text"}
  BY <1>1, HarmlessMade DEF AnswerTo
<1>2. CASE s.name = "comment_key"
  BY <1>2, HarmlessMade, StepsMade DEF AnswerTo, IsKey
<1>3. CASE s.name = "sub_issue"
  <2>1. KeyedSub(IsKey(t), t) \in Nexts \union {NoJob}
    BY OthersMade DEF KeyedSub, IsKey, Subs
  <2> QED BY <1>3, <2>1, HarmlessMade DEF AnswerTo
<1>4. CASE s.name = "sub_project"
  <2>1. KeyedSub(IsProject(t), t) \in Nexts \union {NoJob}
    BY OthersMade DEF KeyedSub, IsProject, Subs
  <2> QED BY <1>4, <2>1, HarmlessMade DEF AnswerTo
<1>5. CASE s.name = "defaults_project"
  <2>1. IsProject(t) => PutDefaults(t, Nothing, Does("types", t)) \in Nexts
    BY OthersMade, ErrandsMade, DefaultsMade DEF IsProject
  <2>2. PutDefaults(Nothing, Nothing, NoJob) \in Nexts
    BY OthersMade, NoDefaultsMade
  <2> QED BY <1>5, <2>1, <2>2, HarmlessMade DEF AnswerTo
<1>6. CASE s.name = "defaults_board"
  <2>1. Does("default", s.arg) \in Nexts
    BY <1>6, StepParts, ErrandsMade, OthersMade
  <2> QED BY <1>6, <2>1, HarmlessMade DEF AnswerTo
<1>7. CASE s.name = "sprint_project"
  <2>1. IsProject(t) => Does("full", t) \in Nexts
    BY ErrandsMade, OthersMade DEF IsProject
  <2> QED BY <1>7, <2>1, HarmlessMade DEF AnswerTo
<1>8. CASE s.name = "sprint_board"
  <2>1. Does("match", s.arg) \in Nexts
    BY <1>8, StepParts, ErrandsMade, OthersMade
  <2> QED BY <1>8, <2>1, HarmlessMade DEF AnswerTo
<1>9. CASE s.name = "sprint_sprint"
  <2>1. Does("hinted", s.arg) \in Nexts
    BY <1>9, StepParts, ErrandsMade, OthersMade
  <2> QED BY <1>9, <2>1, HarmlessMade DEF AnswerTo
<1>10. CASE s.name = "project"
  <2>1. IsProject(t) => [pc |-> "picker", kind |-> s.of, project |-> t] \in Nexts
    BY <1>10, StepParts, OthersMade DEF IsProject, Picking
  <2> QED BY <1>10, <2>1, HarmlessMade DEF AnswerTo
<1>11. CASE s.name = "jql"
  <2>1. SavesQuery(s.of, t) \in Nexts \union {NoJob}
    BY <1>11, StepParts, OthersMade DEF SavesQuery, Querying, Queried, Texts
  <2> QED BY <1>11, <2>1, HarmlessMade DEF AnswerTo
<1>12. CASE s.name \notin {"lookup", "comment_text", "comment_key", "sub_issue", "sub_project", "defaults_project",
                           "defaults_board", "sprint_project", "sprint_board", "sprint_sprint", "project", "jql"}
  BY <1>12, HarmlessMade DEF AnswerTo
<1> QED BY <1>1, <1>2, <1>3, <1>4, <1>5, <1>6, <1>7, <1>8, <1>9, <1>10, <1>11, <1>12

LEMMA TextMoves ==
  ASSUME TypeOK, NEW w \in Workers, Text(w)
  PROVE  \E j \in Harmless : Moves(w, j)
<1>1. job[w] # NoJob /\ job[w] \in Jobs /\ job[w].pc = "text"
  BY AtKind DEF Text
<1>2. job[w].arg \in Texts
  BY <1>1, JobKinds, NextKinds, ErrandKinds
<1>3. PICK s \in {conv, NoStep} : Gets(s) /\ (Says(w) \/ Goes(w, AnswerTo(s, job[w].arg)))
  BY DEF Text
<1>4. s \in Steps /\ troubles' \in 0 .. MaxTroubles
  BY <1>3, Got
<1>5. PICK t \in Texts : t = job[w].arg
  BY <1>2
<1>6. AnswerTo(s, t) \in Harmless
  BY <1>4, Answered
<1>7. Says(w) \/ Goes(w, AnswerTo(s, t))
  BY <1>3, <1>5
<1>8. UNCHANGED <<chatVars, prefVars, subVars, inputs>>
  BY DEF Text
<1> QED BY <1>1, <1>4, <1>6, <1>7, <1>8, Going, Saying
\* A project or a board in hand.
LEMMA ArgInHand ==
  ASSUME TypeOK, NEW w \in Workers, NEW pc, At(w, pc),
         pc \in {"types", "defaults", "default", "full", "boards", "match", "sprints", "hinted"}
  PROVE  /\ job[w] # NoJob
         /\ pc \in {"types", "defaults", "default", "full", "boards", "match"} => job[w].arg \in Projects
         /\ pc \in {"sprints", "hinted"} => job[w].arg \in Boards
<1>1. job[w] # NoJob /\ job[w] \in Jobs /\ job[w].pc = pc
  BY AtKind
<1>2. job[w] \in Errands
  BY <1>1, JobKinds, NextKinds
<1> QED BY <1>1, <1>2, ErrandKinds

\* The default project and board, where there are any.
LEMMA DefaultsKind ==
  ASSUME TypeOK, NEW d, d = prefs["defaults"], d[1] # Nothing
  PROVE  d[1] \in Projects /\ (d[2] # Nothing => d[2] \in Boards)
<1>1. d \in Values("defaults")
  BY DEF TypeOK, Sound, Settings
<1>2. d \in {<<Nothing, Nothing>>} \union UNION {{p} \X (BoardsOf[p] \union {Nothing}) : p \in Projects}
  BY <1>1, ValuesOf
<1>3. PICK p \in Projects : d \in {p} \X (BoardsOf[p] \union {Nothing})
  BY <1>2
<1> QED BY <1>3 DEF Boards

LEMMA PickerStartMoves ==
  ASSUME TypeOK, NEW w \in Workers, PickerStart(w)
  PROVE  \E j \in Harmless : Moves(w, j)
<1>1. job[w] # NoJob /\ job[w] \in Jobs /\ job[w].pc = "start"
  BY AtKind DEF PickerStart
<1>2. PICK k \in Kinds : k = job[w].arg
  BY <1>1, JobKinds, NextKinds, ErrandKinds
<1>3. PICK d : d = prefs["defaults"]
  OBVIOUS
<1>4. UNCHANGED <<chatVars, prefVars, subVars, inputs>> /\ troubles' \in 0 .. MaxTroubles
  BY Troubled DEF PickerStart
<1>5. CASE d[1] = Nothing /\ Goes(w, Asks(St("project", k, Nothing, {})))
  BY <1>1, <1>4, <1>5, Going, HarmlessMade, StepsMade
<1>6. CASE d[1] # Nothing /\ Goes(w, [pc |-> "picker", kind |-> k, project |-> d[1]])
  <2>1. PICK j : j = [pc |-> "picker", kind |-> k, project |-> d[1]]
    OBVIOUS
  <2>2. j \in Harmless
    BY <1>3, <1>6, <2>1, DefaultsKind, OthersMade, HarmlessMade DEF Picking
  <2> QED BY <1>1, <1>4, <1>6, <2>1, <2>2, Going
<1>7. CASE Says(w)
  BY <1>1, <1>4, <1>7, Saying
<1> QED BY <1>2, <1>3, <1>5, <1>6, <1>7 DEF PickerStart

LEMMA ShowPickerMoves ==
  ASSUME TypeOK, NEW w \in Workers, showPicker(w)
  PROVE  \E j \in Harmless : Moves(w, j)
<1>1. job[w] # NoJob /\ job[w] \in Jobs /\ job[w].pc = "picker"
  BY AtKind DEF showPicker
<1>2. PICK k \in Kinds, p \in Projects : k = job[w].kind /\ p = job[w].project
  BY <1>1, JobKinds, NextKinds
<1>3. PICK m : m = Selected(k, p)
  OBVIOUS
<1>4. St("select", k, p, m) \in Steps
  BY <1>3, PickerMade DEF Selected
<1>5. UNCHANGED <<chatVars, prefVars, subVars, inputs>> /\ troubles' \in 0 .. MaxTroubles
  BY Troubled DEF showPicker
<1>6. CASE Goes(w, Asks(St("select", k, p, m)))
  BY <1>1, <1>4, <1>5, <1>6, Going, HarmlessMade
<1>7. CASE Says(w)
  BY <1>1, <1>5, <1>7, Saying
<1> QED BY <1>2, <1>3, <1>6, <1>7 DEF showPicker

LEMMA ToggleMoves ==
  ASSUME TypeOK, NEW w \in Workers, ToggleJob(w)
  PROVE  \E j \in Harmless : Moves(w, j)
<1>1. job[w] # NoJob /\ job[w] \in Jobs /\ job[w].pc = "toggle"
  BY AtKind DEF ToggleJob
<1>2. PICK k \in Kinds, i \in Indices, o \in BOOLEAN : k = job[w].kind /\ i = job[w].index /\ o = job[w].old
  BY <1>1, JobKinds DEF Toggling
<1>3. PICK s \in {conv, NoStep} :
        /\ Gets(s)
        /\ IF IsPicker(s, k) /\ i \in DOMAIN NamesOf[s.arg]
           THEN Goes(w, [pc |-> "set", old |-> o,
                         step |-> [s EXCEPT !.marks = Flip(@, NamesOf[s.arg][i])]])
           ELSE Ends(w)
  BY <1>2 DEF ToggleJob
<1>4. s \in Steps /\ troubles' \in 0 .. MaxTroubles
  BY <1>3, Got
<1>5. UNCHANGED <<chatVars, prefVars, subVars, inputs>>
  BY DEF ToggleJob
<1>6. CASE IsPicker(s, k) /\ i \in DOMAIN NamesOf[s.arg]
  <2>1. /\ s.of \in Kinds /\ s.arg \in Projects /\ s.marks \subseteq TableOf(s.arg)
        /\ s = St("select", s.of, s.arg, s.marks)
    BY <1>4, <1>6, StepParts DEF IsPicker
  <2>2. PICK m : m = Flip(s.marks, NamesOf[s.arg][i])
    OBVIOUS
  <2>3. m \subseteq TableOf(s.arg)
    BY <1>6, <2>1, <2>2 DEF Flip, TableOf
  <2>4. [s EXCEPT !.marks = Flip(@, NamesOf[s.arg][i])] = St("select", s.of, s.arg, m)
    BY <2>1, <2>2 DEF St
  <2>5. PICK t \in Steps : t = [s EXCEPT !.marks = Flip(@, NamesOf[s.arg][i])]
    BY <2>1, <2>3, <2>4, PickerMade
  <2>6. PICK j : j = [pc |-> "set", old |-> o, step |-> t]
    OBVIOUS
  <2>7. j \in Harmless
    BY <2>6 DEF Harmless, Asking
  <2> QED BY <1>1, <1>3, <1>4, <1>5, <1>6, <2>5, <2>6, <2>7, Going
<1>7. CASE Ends(w)
  BY <1>1, <1>4, <1>5, <1>7, Going, HarmlessMade DEF Ends
<1> QED BY <1>3, <1>6, <1>7

LEMMA SaveMoves ==
  ASSUME TypeOK, NEW w \in Workers, SaveJob(w)
  PROVE  \E j \in Harmless : Moves(w, j)
<1>1. job[w] # NoJob /\ job[w] \in Jobs /\ job[w].pc = "save"
  BY AtKind DEF SaveJob
<1>2. PICK k \in Kinds : k = job[w].arg
  BY <1>1, JobKinds, NextKinds, ErrandKinds
<1>3. PICK s \in {conv, NoStep} :
        Gets(s) /\ Goes(w, IF IsPicker(s, k) THEN Clears(Put(s.of, s.marks, "tells", NoJob)) ELSE NoJob)
  BY <1>2 DEF SaveJob
<1>4. s \in Steps /\ troubles' \in 0 .. MaxTroubles
  BY <1>3, Got
<1>5. UNCHANGED <<chatVars, prefVars, subVars, inputs>>
  BY DEF SaveJob
<1>6. CASE IsPicker(s, k)
  <2>1. s.of \in Kinds /\ s.arg \in Projects /\ s.marks \subseteq TableOf(s.arg)
    BY <1>4, <1>6, StepParts DEF IsPicker
  <2>2. s.marks \in Values(s.of) /\ s.of \in Settings
    BY <2>1, ValuesOf DEF Settings
  <2>3. Put(s.of, s.marks, "tells", NoJob) \in Nexts
    BY <2>2, PutMade, OthersMade
  <2> QED BY <1>1, <1>3, <1>4, <1>5, <1>6, <2>3, Going, HarmlessMade
<1>7. CASE ~IsPicker(s, k)
  BY <1>1, <1>3, <1>4, <1>5, <1>7, Going, HarmlessMade
<1> QED BY <1>6, <1>7
LEMMA TypesMoves ==
  ASSUME TypeOK, NEW w \in Workers, defaultsTypes(w)
  PROVE  \E j \in Harmless : Moves(w, j)
<1>1. job[w] # NoJob /\ job[w].arg \in Projects
  BY ArgInHand DEF defaultsTypes
<1>2. PICK p \in Projects : p = job[w].arg
  BY <1>1
<1>3. Asks(St("defaults_issue_type", "", p, {})) \in Harmless /\ Does("defaults", p) \in Harmless
  BY HarmlessMade, StepsMade, ErrandsMade
<1>4. UNCHANGED <<chatVars, prefVars, subVars, inputs>> /\ troubles' \in 0 .. MaxTroubles
  BY Troubled DEF defaultsTypes
<1> QED BY <1>1, <1>2, <1>3, <1>4, Going DEF defaultsTypes

LEMMA TypeChosenMoves ==
  ASSUME TypeOK, NEW w \in Workers, defaultsTypeChosen(w)
  PROVE  \E j \in Harmless : Moves(w, j)
<1>1. job[w] # NoJob /\ job[w] \in Jobs /\ job[w].pc = "type"
  BY AtKind DEF defaultsTypeChosen
<1>2. PICK v \in Choices \union {Nothing} : v = job[w].arg
  BY <1>1, JobKinds, NextKinds, ErrandKinds
<1>3. PICK s \in {conv, NoStep} :
        /\ Gets(s)
        /\ \/ s.name = "defaults_issue_type" /\ v = Nothing /\ Goes(w, Does("defaults", s.arg))
           \/ /\ s.name = "defaults_issue_type" /\ v # Nothing
              /\ Goes(w, Put("itype", v, "silent", Does("defaults", s.arg)))
           \/ s.name # "defaults_issue_type" /\ Ends(w)
  BY <1>2 DEF defaultsTypeChosen
<1>4. s \in Steps /\ troubles' \in 0 .. MaxTroubles
  BY <1>3, Got
<1>5. UNCHANGED <<chatVars, prefVars, subVars, inputs>>
  BY DEF defaultsTypeChosen
<1>6. ASSUME s.name = "defaults_issue_type"
      PROVE  /\ Does("defaults", s.arg) \in Harmless
             /\ v # Nothing => Put("itype", v, "silent", Does("defaults", s.arg)) \in Harmless
  <2>1. Does("defaults", s.arg) \in Errands
    BY <1>4, <1>6, StepParts, ErrandsMade
  <2>2. v \in Values("itype") /\ "itype" \in Settings
    BY SettingsAssumption, ValuesOf DEF Settings
  <2> QED BY <2>1, <2>2, PutMade, HarmlessMade
<1> QED BY <1>1, <1>3, <1>4, <1>5, <1>6, Going, HarmlessMade DEF Ends

\* One board is saved, several are asked.
LEMMA BoardsMade ==
  ASSUME NEW p \in Projects
  PROVE  /\ \A b \in BoardsOf[p] : PutDefaults(p, b, NoJob) \in Harmless
         /\ \A b \in BoardsOf[p] : Does("sprints", b) \in Harmless /\ Does("hinted", b) \in Harmless
         /\ Asks(St("defaults_board", "", p, {})) \in Harmless /\ Asks(St("sprint_board", "", p, {})) \in Harmless
<1>1. \A b \in BoardsOf[p] : PutDefaults(p, b, NoJob) \in Harmless
  BY DefaultsMade, HarmlessMade
<1>2. \A b \in BoardsOf[p] : b \in Boards
  BY DEF Boards
<1> QED BY <1>1, <1>2, ErrandsMade, StepsMade, HarmlessMade

LEMMA ShowBoardsMoves ==
  ASSUME TypeOK, NEW w \in Workers, defaultsShowBoards(w)
  PROVE  \E j \in Harmless : Moves(w, j)
<1>1. job[w] # NoJob /\ job[w].arg \in Projects
  BY ArgInHand DEF defaultsShowBoards
<1>2. PICK p \in Projects : p = job[w].arg
  BY <1>1
<1>3. UNCHANGED <<chatVars, prefVars, subVars, inputs>> /\ troubles' \in 0 .. MaxTroubles
  BY Troubled DEF defaultsShowBoards
<1> QED BY <1>1, <1>2, <1>3, Going, Saying, BoardsMade DEF defaultsShowBoards

LEMMA DefaultsBoardMoves ==
  ASSUME TypeOK, NEW w \in Workers, handleDefaultsBoard(w)
  PROVE  \E j \in Harmless : Moves(w, j)
<1>1. job[w] # NoJob /\ job[w].arg \in Projects
  BY ArgInHand DEF handleDefaultsBoard
<1>2. PICK p \in Projects : p = job[w].arg
  BY <1>1
<1>3. UNCHANGED <<chatVars, prefVars, subVars, inputs>> /\ troubles' \in 0 .. MaxTroubles
  BY Troubled DEF handleDefaultsBoard
<1> QED BY <1>1, <1>2, <1>3, Going, Saying, BoardsMade DEF handleDefaultsBoard

LEMMA SprintStartMoves ==
  ASSUME TypeOK, NEW w \in Workers, SprintStart(w)
  PROVE  \E j \in Harmless : Moves(w, j)
<1>1. job[w] # NoJob
  BY AtKind DEF SprintStart
<1>2. PICK d : d = prefs["defaults"]
  OBVIOUS
<1>3. UNCHANGED <<chatVars, prefVars, subVars, inputs>> /\ troubles' \in 0 .. MaxTroubles
  BY Troubled DEF SprintStart
<1>4. Asks(Step("sprint_project")) \in Harmless
  BY StepsMade, HarmlessMade
<1>5. d[1] # Nothing /\ d[2] # Nothing => Does("sprints", d[2]) \in Harmless
  BY <1>2, DefaultsKind, ErrandsMade, HarmlessMade
<1>6. d[1] # Nothing => Does("boards", d[1]) \in Harmless
  BY <1>2, DefaultsKind, ErrandsMade, HarmlessMade
<1> QED BY <1>1, <1>2, <1>3, <1>4, <1>5, <1>6, Going DEF SprintStart

LEMMA KanbanStartMoves ==
  ASSUME TypeOK, NEW w \in Workers, KanbanStart(w)
  PROVE  \E j \in Harmless : Moves(w, j)
<1>1. job[w] # NoJob
  BY AtKind DEF KanbanStart
<1>2. UNCHANGED <<chatVars, prefVars, subVars, inputs>> /\ troubles' \in 0 .. MaxTroubles
  BY Troubled DEF KanbanStart
<1>3. Asks(Step("lookup")) \in Harmless
  BY StepsMade, HarmlessMade
<1> QED BY <1>1, <1>2, <1>3, Going, Saying DEF KanbanStart

LEMMA TellMoves ==
  ASSUME TypeOK, NEW w \in Workers, Tell(w)
  PROVE  \E j \in Harmless : Moves(w, j)
<1>1. job[w] # NoJob
  BY AtKind DEF Tell
<1>2. UNCHANGED <<chatVars, prefVars, subVars, inputs>> /\ troubles' \in 0 .. MaxTroubles
  BY Troubled DEF Tell
<1> QED BY <1>1, <1>2, Saying DEF Tell

LEMMA SprintFullMoves ==
  ASSUME TypeOK, NEW w \in Workers, SprintFull(w)
  PROVE  \E j \in Harmless : Moves(w, j)
<1>1. job[w] # NoJob /\ job[w].arg \in Projects
  BY ArgInHand DEF SprintFull
<1>2. PICK p \in Projects : p = job[w].arg
  BY <1>1
<1>3. UNCHANGED <<chatVars, prefVars, subVars, inputs>> /\ troubles' \in 0 .. MaxTroubles
  BY Troubled DEF SprintFull
<1>4. Does("boards", p) \in Harmless /\ Does("match", p) \in Harmless
  BY ErrandsMade, HarmlessMade
<1>5. Goes(w, Does("boards", p)) \/ Goes(w, Does("match", p))
  BY <1>2 DEF SprintFull
<1> QED BY <1>1, <1>3, <1>4, <1>5, Going

LEMMA SprintBoardsMoves ==
  ASSUME TypeOK, NEW w \in Workers, SprintBoards(w)
  PROVE  \E j \in Harmless : Moves(w, j)
<1>1. job[w] # NoJob /\ job[w].arg \in Projects
  BY ArgInHand DEF SprintBoards
<1>2. PICK p \in Projects : p = job[w].arg
  BY <1>1
<1>3. UNCHANGED <<chatVars, prefVars, subVars, inputs>> /\ troubles' \in 0 .. MaxTroubles
  BY Troubled DEF SprintBoards
<1> QED BY <1>1, <1>2, <1>3, Going, Saying, BoardsMade DEF SprintBoards

LEMMA SprintMatchMoves ==
  ASSUME TypeOK, NEW w \in Workers, SprintMatch(w)
  PROVE  \E j \in Harmless : Moves(w, j)
<1>1. job[w] # NoJob /\ job[w].arg \in Projects
  BY ArgInHand DEF SprintMatch
<1>2. PICK p \in Projects : p = job[w].arg
  BY <1>1
<1>3. UNCHANGED <<chatVars, prefVars, subVars, inputs>> /\ troubles' \in 0 .. MaxTroubles
  BY Troubled DEF SprintMatch
<1>4. CASE \E b \in BoardsOf[p], pc \in {"sprints", "hinted"} : Goes(w, Does(pc, b))
  <2>1. PICK b \in BoardsOf[p] : Goes(w, Does("sprints", b)) \/ Goes(w, Does("hinted", b))
    BY <1>4
  <2> QED BY <1>1, <1>3, <2>1, Going, BoardsMade
<1>5. CASE Says(w)
  BY <1>1, <1>3, <1>5, Saying
<1>6. CASE Goes(w, Asks(St("sprint_board", "", p, {})))
  BY <1>1, <1>3, <1>6, Going, BoardsMade
<1> QED BY <1>2, <1>4, <1>5, <1>6 DEF SprintMatch

LEMMA SprintSprintsMoves ==
  ASSUME TypeOK, NEW w \in Workers, SprintSprints(w) \/ SprintHinted(w)
  PROVE  \E j \in Harmless : Moves(w, j)
<1>1. job[w] # NoJob /\ job[w].arg \in Boards
  BY ArgInHand DEF SprintSprints, SprintHinted
<1>2. PICK b \in Boards : b = job[w].arg
  BY <1>1
<1>3. UNCHANGED <<chatVars, prefVars, subVars, inputs>> /\ troubles' \in 0 .. MaxTroubles
  BY Troubled DEF SprintSprints, SprintHinted
<1>4. Says(w) \/ Goes(w, Asks(St("sprint_sprint", "", b, {})))
  BY <1>2 DEF SprintSprints, SprintHinted
<1>5. Asks(St("sprint_sprint", "", b, {})) \in Harmless
  BY StepsMade, HarmlessMade
<1> QED BY <1>1, <1>3, <1>4, <1>5, Going, Saying
\* A query is saved with the others as they were read.
LEMMA QuerySaveMoves ==
  ASSUME TypeOK, NEW w \in Workers, handleDailyJQLSave(w)
  PROVE  \E j \in Jobs \union {NoJob} : Moves(w, j) /\ Mild(j)
<1>1. job[w] # NoJob /\ job[w] \in Jobs /\ job[w].pc = "jql"
  BY AtKind DEF handleDailyJQLSave
<1>2. PICK b \in Blocks, v \in Queried : b = job[w].block /\ v = job[w].text
  BY <1>1, JobKinds, NextKinds
<1>3. UNCHANGED <<chatVars, prefVars, subVars, inputs>> /\ troubles' \in 0 .. MaxTroubles
  BY Troubled DEF handleDailyJQLSave
<1>4. CASE Goes(w, Posts(Queries(b, v), {b}, "tells", NoJob))
  <2>1. PICK q : q = Queries(b, v)
    OBVIOUS
  <2>2. \A x \in Blocks : prefs[x] \in Queried
    BY ValuesOf DEF TypeOK, Sound, Settings
  <2>3. q \in [Blocks -> Queried] /\ \A x \in Blocks \ {b} : q[x] = prefs[x]
    BY <2>1, <2>2 DEF Queries
  <2>4. PICK j : j = Posts(q, {b}, "tells", NoJob)
    OBVIOUS
  <2>5. j \in PuttingQueries /\ j.puts = q /\ j.says = {b} /\ j.pc = "post"
    BY <2>3, <2>4 DEF PuttingQueries, Posts
  <2>6. Mild(j)
    BY <2>3, <2>5 DEF Mild, Carries
  <2>7. Moves(w, j)
    BY <1>1, <1>3, <1>4, <2>1, <2>4 DEF Moves, Goes, chatVars, prefVars, subVars
  <2> QED BY <2>5, <2>6, <2>7 DEF Jobs
<1>5. CASE Says(w)
  <2>1. Moves(w, NoJob) /\ Mild(NoJob)
    BY <1>1, <1>3, <1>5 DEF Moves, chatVars, prefVars, subVars, Mild, Says
  <2> QED BY <2>1
<1> QED BY <1>2, <1>4, <1>5 DEF handleDailyJQLSave

LEMMA CheckMoves ==
  ASSUME TypeOK, NEW w \in Workers, CheckSub(w)
  PROVE  \E j \in Jobs \union {NoJob} : Moves(w, j) /\ Mild(j)
<1>1. job[w] # NoJob /\ job[w] \in Jobs /\ job[w].pc = "check"
  BY AtKind DEF CheckSub
<1>2. job[w] \in Checking
  BY <1>1, JobKinds, NextKinds
<1>3. UNCHANGED <<chatVars, prefVars, subVars, inputs>> /\ troubles' \in 0 .. MaxTroubles
  BY Troubled DEF CheckSub
<1>4. CASE ~Exists(job[w].sub) /\ Goes(w, [job[w] EXCEPT !.pc = "create"])
  <2>1. PICK j : j = [job[w] EXCEPT !.pc = "create"]
    OBVIOUS
  <2>2. j \in Creating /\ j.sub = job[w].sub /\ j.pc = "create"
    BY <1>2, <2>1 DEF Checking, Creating
  <2>3. subs[j.sub] = 0
    BY <1>4, <2>2 DEF Exists, TypeOK, Creating
  <2>4. Moves(w, j) /\ Mild(j)
    BY <1>1, <1>3, <1>4, <2>1, <2>2, <2>3 DEF Moves, Goes, chatVars, prefVars, subVars, Mild
  <2> QED BY <2>2, <2>4 DEF Jobs
<1>5. CASE Says(w)
  <2>1. Moves(w, NoJob) /\ Mild(NoJob)
    BY <1>1, <1>3, <1>5 DEF Moves, chatVars, prefVars, subVars, Mild, Says
  <2> QED BY <2>1
<1> QED BY <1>4, <1>5 DEF CheckSub

\* The handlers that read and go on.
Reads(w) ==
  \/ Text(w) \/ handleDailyJQLSave(w) \/ PickerStart(w) \/ showPicker(w) \/ ToggleJob(w) \/ SaveJob(w)
  \/ defaultsTypes(w) \/ defaultsTypeChosen(w) \/ defaultsShowBoards(w) \/ handleDefaultsBoard(w)
  \/ SprintStart(w) \/ KanbanStart(w) \/ Tell(w) \/ SprintFull(w) \/ SprintBoards(w) \/ SprintMatch(w)
  \/ SprintSprints(w) \/ SprintHinted(w) \/ CheckSub(w)

LEMMA ReadsMove ==
  ASSUME TypeOK, NEW w \in Workers, Reads(w)
  PROVE  \E j \in Jobs \union {NoJob} : Moves(w, j) /\ Mild(j)
<1>1. (\E j \in Harmless : Moves(w, j)) => \E j \in Jobs \union {NoJob} : Moves(w, j) /\ Mild(j)
  BY HarmlessIsMild
<1>2. CASE handleDailyJQLSave(w) \/ CheckSub(w)
  BY <1>2, QuerySaveMoves, CheckMoves
<1>3. CASE Text(w) \/ PickerStart(w) \/ showPicker(w) \/ ToggleJob(w) \/ SaveJob(w)
  BY <1>1, <1>3, TextMoves, PickerStartMoves, ShowPickerMoves, ToggleMoves, SaveMoves
<1>4. CASE \/ defaultsTypes(w) \/ defaultsTypeChosen(w) \/ defaultsShowBoards(w) \/ handleDefaultsBoard(w)
  BY <1>1, <1>4, TypesMoves, TypeChosenMoves, ShowBoardsMoves, DefaultsBoardMoves
<1>5. CASE \/ SprintStart(w) \/ KanbanStart(w) \/ Tell(w) \/ SprintFull(w) \/ SprintBoards(w) \/ SprintMatch(w)
           \/ SprintSprints(w) \/ SprintHinted(w)
  BY <1>1, <1>5, SprintStartMoves, KanbanStartMoves, TellMoves, SprintFullMoves, SprintBoardsMoves, SprintMatchMoves,
     SprintSprintsMoves
<1> QED BY <1>2, <1>3, <1>4, <1>5 DEF Reads

(* ---------------------------------------------------------------------- *)
(* Updates                                                                 *)

\* An update that is taken starts a job of no danger.
Starts(w) == \E j \in Jobs : Mild(j) /\ Free(w) /\ Takes(w, j)

LEMMA Starting ==
  ASSUME NEW w \in Workers, NEW j \in Harmless \ {NoJob}, Free(w), Takes(w, j)
  PROVE  Starts(w)
<1> QED BY HarmlessIsMild DEF Starts

LEMMA ButtonsMade ==
  /\ \A s \in Prompts : Asks(s) \in Harmless \ {NoJob}
  /\ \A k \in Keys : Asks(St("comment_text", "", k, {})) \in Harmless \ {NoJob}
  /\ \A n \in {"sub_project", "sub_issue"} : Asks(Step(n)) \in Harmless \ {NoJob}
  /\ \A then \in Nexts \union {NoJob} : Clears(then) \in Harmless \ {NoJob}
  /\ \A x \in Subs : Checks(x) \in Harmless \ {NoJob}
  /\ Errands \subseteq Harmless \ {NoJob} /\ Putting \subseteq Harmless \ {NoJob} /\ Toggling \subseteq Harmless \ {NoJob}
<1>1. \A s \in Prompts : s \in Steps
  BY StepsMade DEF Prompts
<1>2. \A s \in Steps : Asks(s) \in Harmless /\ Asks(s) \in Jobs
  BY HarmlessMade, OthersMade DEF Jobs
<1>3. \A then \in Nexts \union {NoJob} : Clears(then) \in Harmless /\ Clears(then) \in Jobs
  BY HarmlessMade, OthersMade DEF Jobs
<1>4. Nexts \subseteq Jobs /\ Toggling \subseteq Jobs /\ Toggling \subseteq Harmless
  BY DEF Jobs, Harmless
<1> QED BY <1>1, <1>2, <1>3, <1>4, NoJobAssumption, StepsMade, OthersMade, HarmlessMade
LEMMA PromptStarts ==
  ASSUME NEW w \in Workers, handleActionCallback(w) \/ handleIssueAction(w) \/ handleMenuCallback(w) \/ handleKeyboard(w)
  PROVE  Starts(w)
<1>1. CASE handleActionCallback(w)
  BY <1>1, ButtonsMade, Starting DEF handleActionCallback
<1>2. CASE handleIssueAction(w)
  BY <1>2, ButtonsMade, Starting DEF handleIssueAction, Subs
<1>3. CASE handleMenuCallback(w)
  BY <1>3, ButtonsMade, Starting DEF handleMenuCallback
<1>4. CASE handleKeyboard(w)
  BY <1>4, ErrandsMade, ButtonsMade, Starting DEF handleKeyboard
<1> QED BY <1>1, <1>2, <1>3, <1>4

LEMMA PickerStarts ==
  ASSUME TypeOK, NEW w \in Workers,
         handlePickerStart(w) \/ handleToggle(w) \/ handleSave(w) \/ handleClear(w)
  PROVE  Starts(w)
<1>1. CASE handlePickerStart(w) \/ handleSave(w)
  BY <1>1, ButtonsMade, ErrandsMade, Starting DEF handlePickerStart, handleSave
<1>2. CASE handleToggle(w)
  <2>1. PICK k \in Kinds, i \in Indices : Takes(w, Toggle(k, i, FALSE)) \/ Takes(w, Toggle(k, i, TRUE))
    BY <1>2 DEF handleToggle, Indices
  <2>2. Toggle(k, i, FALSE) \in Toggling /\ Toggle(k, i, TRUE) \in Toggling
    BY DEF Toggle, Toggling
  <2>3. Free(w)
    BY <1>2 DEF handleToggle
  <2> QED BY <2>1, <2>2, <2>3, ButtonsMade, Starting
<1>3. CASE handleClear(w)
  <2>1. PICK k \in Kinds : Free(w) /\ Takes(w, Clears(Put(k, {}, "tells", NoJob)))
    BY <1>3 DEF handleClear
  <2>2. k \in Settings /\ prefs[k] \in Values(k)
    BY DEF TypeOK, Sound, Settings
  <2>3. {} \in Values(k)
    BY <2>2, ValuesOf
  <2>4. Put(k, {}, "tells", NoJob) \in Nexts
    BY <2>2, <2>3, PutMade, OthersMade
  <2> QED BY <2>1, <2>4, ButtonsMade, Starting
<1> QED BY <1>1, <1>2, <1>3

\* The reset writes and confirms every query.
LEMMA ResetStarts ==
  ASSUME NEW w \in Workers, handleDailyJQLReset(w)
  PROVE  Starts(w)
<1>1. PICK q : q = [b \in Blocks |-> Nothing]
  OBVIOUS
<1>2. PICK j : j = Posts(q, Blocks, "tells", NoJob)
  OBVIOUS
<1>3. q \in [Blocks -> Queried]
  BY <1>1 DEF Queried
<1>4. j \in PuttingQueries /\ j.puts = q /\ j.says = Blocks /\ j.pc = "post"
  BY <1>2, <1>3 DEF PuttingQueries, Posts
<1>5. Mild(j)
  BY <1>3, <1>4 DEF Mild, Carries
<1> QED BY <1>1, <1>2, <1>4, <1>5 DEF Starts, handleDailyJQLReset, Jobs

LEMMA SettingStarts ==
  ASSUME NEW w \in Workers,
         handleFieldSelect(w) \/ handleLangCallback(w) \/ handleDefaultsIssueType(w) \/ handleDefaultsBoardCallback(w)
  PROVE  Starts(w)
<1>1. \A x \in Plain, v \in Choices : x \in Settings /\ v \in Values(x)
  BY ValuesOf DEF Settings
<1>2. CASE handleFieldSelect(w)
  <2>1. PICK x \in Plain, v \in Choices : Free(w) /\ Takes(w, Put(x, v, "tells", NoJob))
    BY <1>2 DEF handleFieldSelect
  <2>2. Put(x, v, "tells", NoJob) \in Putting
    BY <1>1, PutMade
  <2> QED BY <2>1, <2>2, ButtonsMade, Starting
<1>3. CASE handleLangCallback(w)
  <2>1. PICK v \in Choices : Free(w) /\ Takes(w, Put("language", v, "confirms", NoJob))
    BY <1>3 DEF handleLangCallback
  <2>2. Put("language", v, "confirms", NoJob) \in Putting
    BY <1>1, PutMade, SettingsAssumption
  <2> QED BY <2>1, <2>2, ButtonsMade, Starting
<1>4. CASE handleDefaultsIssueType(w)
  BY <1>4, ErrandsMade, ButtonsMade, Starting DEF handleDefaultsIssueType
<1>5. CASE handleDefaultsBoardCallback(w)
  <2>1. PICK p \in Projects : \E b \in BoardsOf[p] : Takes(w, Clears(PutDefaults(p, b, NoJob)))
    BY <1>5 DEF handleDefaultsBoardCallback
  <2>3. PICK b \in BoardsOf[p] : Takes(w, Clears(PutDefaults(p, b, NoJob)))
    BY <2>1
  <2>4. Free(w)
    BY <1>5 DEF handleDefaultsBoardCallback
  <2>2. PutDefaults(p, b, NoJob) \in Nexts
    BY DefaultsMade, OthersMade
  <2> QED BY <2>2, <2>3, <2>4, ButtonsMade, Starting
<1> QED BY <1>2, <1>3, <1>4, <1>5

LEMMA ReportStarts ==
  ASSUME NEW w \in Workers,
         handleSprintCallback(w) \/ handleSprint(w) \/ handleKanban(w) \/ handleKanbanCallback(w)
  PROVE  Starts(w)
<1>1. CASE handleSprintCallback(w)
  <2>1. \A b \in Boards : Does("sprints", b) \in Nexts
    BY ErrandsMade, OthersMade
  <2>2. Free(w) /\ (Takes(w, Clears(NoJob)) \/ \E b \in Boards : Takes(w, Clears(Does("sprints", b))))
    BY <1>1 DEF handleSprintCallback
  <2>3. CASE Takes(w, Clears(NoJob))
    BY <2>2, <2>3, ButtonsMade, Starting
  <2>4. CASE \E b \in Boards : Takes(w, Clears(Does("sprints", b)))
    BY <2>1, <2>2, <2>4, ButtonsMade, Starting
  <2> QED BY <2>2, <2>3, <2>4
<1>2. CASE handleSprint(w)
  BY <1>2, ErrandsMade, ButtonsMade, Starting DEF handleSprint
<1>3. CASE handleKanban(w)
  BY <1>3, ErrandsMade, ButtonsMade, Starting DEF handleKanban
<1>4. CASE handleKanbanCallback(w)
  BY <1>4, ButtonsMade, Starting DEF handleKanbanCallback
<1> QED BY <1>1, <1>2, <1>3, <1>4

LEMMA SubStarts ==
  ASSUME NEW w \in Workers,
         handleSubCallback(w) \/ handleFilterCallback(w) \/ handleUnwatch(w) \/ handleTextInput(w)
  PROVE  Starts(w)
<1>1. CASE handleSubCallback(w)
  BY <1>1, ButtonsMade, Starting DEF handleSubCallback, Subs
<1>2. CASE handleFilterCallback(w)
  BY <1>2, ButtonsMade, Starting DEF handleFilterCallback, Subs
<1>3. CASE handleUnwatch(w) \/ handleTextInput(w)
  BY <1>3, ErrandsMade, ButtonsMade, Starting DEF handleUnwatch, handleTextInput
<1> QED BY <1>1, <1>2, <1>3

LEMMA InputsStart ==
  ASSUME TypeOK, NEW w \in Workers, Inputs(w)
  PROVE  Starts(w)
<1> QED BY PromptStarts, PickerStarts, ResetStarts, SettingStarts, ReportStarts, SubStarts
        DEF Inputs, Buttons, Commands
(* ---------------------------------------------------------------------- *)
(* A handler goes on                                                       *)

\* The workers after one of them goes on with j.
LEMMA Goings ==
  ASSUME TypeOK, Alone, NEW w \in Workers, job[w] # NoJob, NEW j \in Jobs \union {NoJob}, Becomes(w, j)
  PROVE  /\ job' \in [Workers -> Jobs \union {NoJob}] /\ job'[w] = j
         /\ \A v \in Workers \ {w} : job'[v] = job[v] /\ (v \in mixed' <=> v \in mixed)
         /\ mixed' \subseteq {v \in Workers : job'[v] # NoJob}
         /\ w \in mixed' => w \in mixed
         /\ j # NoJob => (w \in mixed' <=> w \in mixed)
         /\ Busy' \subseteq Busy /\ (j = NoJob => Busy' = Busy \ {w})
         /\ Alone'
<1>1. /\ job' \in [Workers -> Jobs \union {NoJob}] /\ job'[w] = j
      /\ \A v \in Workers \ {w} : job'[v] = job[v] /\ (v \in mixed' <=> v \in mixed)
      /\ w \in mixed' => w \in mixed
      /\ j # NoJob => (w \in mixed' <=> w \in mixed)
  BY DEF Becomes, TypeOK
<1>2. mixed' \subseteq {v \in Workers : job'[v] # NoJob}
  BY DEF Becomes, TypeOK
<1>3. Busy' \subseteq Busy /\ (j = NoJob => Busy' = Busy \ {w})
  BY <1>1 DEF Busy
<1>4. Alone'
  BY <1>1 DEF Alone
<1> QED BY <1>1, <1>2, <1>3, <1>4

\* Fewer are busy, or as many.
LEMMA CountedKept ==
  ASSUME TypeOK, Counted, Busy' \subseteq Busy, UNCHANGED inputs,
         \A x \in Subs : subs'[x] = subs[x] \/ subs'[x] = 0
  PROVE  Counted'
<1>1. IsFiniteSet(Busy') /\ Cardinality(Busy') <= Cardinality(Busy)
  BY FS_Subset DEF Counted
<1>2. Cardinality(Busy) \in Nat /\ Cardinality(Busy') \in Nat
  BY <1>1, FS_CardinalityType DEF Counted
<1>3. \A x \in Subs : subs[x] \in Nat /\ inputs \in Nat
  BY DEF TypeOK
<1>4. ASSUME NEW x \in Subs PROVE subs'[x] + Cardinality(Busy') <= inputs'
  BY <1>1, <1>2, <1>3, <1>4 DEF Counted
<1> QED BY <1>1, <1>4 DEF Counted

LEMMA MovesKeep ==
  ASSUME IInv, NEW w \in Workers, NEW j \in Jobs \union {NoJob}, ~At(w, "show"), Moves(w, j), Mild(j)
  PROVE  IInv'
<1>1. /\ TypeOK /\ Alone /\ Counted /\ InStep /\ Carried /\ SettingsAsTold /\ Unrivalled /\ DuplicateNeedsRace
  BY DEF IInv
<1>2. /\ job' \in [Workers -> Jobs \union {NoJob}] /\ job'[w] = j
      /\ \A v \in Workers \ {w} : job'[v] = job[v] /\ (v \in mixed' <=> v \in mixed)
      /\ mixed' \subseteq {v \in Workers : job'[v] # NoJob}
      /\ w \in mixed' => w \in mixed
      /\ j # NoJob => (w \in mixed' <=> w \in mixed)
      /\ Busy' \subseteq Busy
      /\ Alone'
  BY <1>1, Goings DEF Moves
<1>3. /\ UNCHANGED <<conv, asked, disorder, prefs, told, unsure, subs, raced, inputs>>
      /\ troubles' \in 0 .. MaxTroubles /\ job[w] # NoJob
  BY DEF Moves
<1>4. TypeOK'
  <2>1. covered' \in BOOLEAN
    BY <1>1 DEF Moves, Covers, TypeOK
  <2> QED BY <1>1, <1>2, <1>3, <2>1 DEF TypeOK, Sound
<1>5. Counted'
  BY <1>1, <1>2, <1>3, CountedKept DEF TypeOK
<1>6. InStep'
  <2>1. \A v \in Workers : At(v, "show") => At(v, "show")'
    BY <1>2 DEF At
  <2>2. \A v \in Workers : At(v, "show")' => At(v, "show") /\ job'[v] = job[v] /\ (v \in mixed' <=> v \in mixed)
    BY <1>2 DEF At, Mild
  <2> QED BY <1>1, <1>3, <2>1, <2>2 DEF InStep
<1>7. Carried'
  BY <1>1, <1>2, <1>3 DEF Carried, At, Mild, Carries
<1>8. SettingsAsTold'
  BY <1>1, <1>3 DEF SettingsAsTold
<1>9. Unrivalled'
  BY <1>1, <1>2, <1>3 DEF Unrivalled, At, Mild
<1>10. DuplicateNeedsRace'
  BY <1>1, <1>3 DEF DuplicateNeedsRace
<1> QED BY <1>2, <1>4, <1>5, <1>6, <1>7, <1>8, <1>9, <1>10 DEF IInv
LEMMA ReadsKeep ==
  ASSUME IInv, NEW w \in Workers, Reads(w)
  PROVE  IInv'
<1>1. ~At(w, "show")
  BY DEF Reads, At, Text, handleDailyJQLSave, PickerStart, showPicker, ToggleJob, SaveJob, defaultsTypes,
     defaultsTypeChosen, defaultsShowBoards, handleDefaultsBoard, SprintStart, KanbanStart, Tell, SprintFull,
     SprintBoards, SprintMatch, SprintSprints, SprintHinted, CheckSub
<1>2. TypeOK
  BY DEF IInv
<1> QED BY <1>1, <1>2, ReadsMove, MovesKeep

(* ---------------------------------------------------------------------- *)
(* An update is taken                                                      *)

LEMMA StartsKeep ==
  ASSUME IInv, NEW w \in Workers, Starts(w)
  PROVE  IInv'
<1>1. /\ TypeOK /\ Alone /\ Counted /\ InStep /\ Carried /\ SettingsAsTold /\ Unrivalled /\ DuplicateNeedsRace
  BY DEF IInv
<1>2. PICK j \in Jobs : Mild(j) /\ Free(w) /\ Takes(w, j)
  BY DEF Starts
<1>3. /\ inputs < MaxInputs /\ job[w] = NoJob /\ j # NoJob
      /\ UNCHANGED <<conv, asked, covered, prefs, told, unsure, subs, raced, troubles>>
      /\ inputs' = inputs + 1 /\ disorder' = (disorder /\ conv \notin {NoStep, asked})
      /\ job' = [job EXCEPT ![w] = j] /\ mixed' = IF Busy = {} THEN mixed ELSE Busy \union {w}
  BY <1>2, NoJobAssumption DEF Free, Takes, prefVars, subVars
<1>4. /\ job' \in [Workers -> Jobs \union {NoJob}] /\ job'[w] = j
      /\ \A v \in Workers \ {w} : job'[v] = job[v]
  BY <1>1, <1>3 DEF TypeOK
<1>5. Busy' = Busy \union {w} /\ w \notin Busy
  BY <1>3, <1>4 DEF Busy
<1>6. \/ Busy = {} /\ mixed' = {} /\ mixed = {}
      \/ Busy # {} /\ mixed' = Busy'
  BY <1>1, <1>3, <1>5 DEF TypeOK, Busy
<1>7. TypeOK'
  <2>1. inputs' \in 0 .. MaxInputs
    BY <1>1, <1>3, BoundsAssumption DEF TypeOK
  <2>2. mixed' \subseteq {v \in Workers : job'[v] # NoJob}
    BY <1>6 DEF Busy
  <2>3. disorder' \in BOOLEAN
    BY <1>3
  <2> QED BY <1>1, <1>3, <1>4, <2>1, <2>2, <2>3 DEF TypeOK, Sound
<1>8. Alone'
  BY <1>4, <1>5, <1>6 DEF Alone, Busy
<1>9. Counted'
  <2>1. IsFiniteSet(Busy') /\ Cardinality(Busy') = Cardinality(Busy) + 1
    BY <1>1, <1>5, FS_AddElement DEF Counted
  <2>2. Cardinality(Busy) \in Nat
    BY <1>1, FS_CardinalityType DEF Counted
  <2>3. ASSUME NEW x \in Subs PROVE subs'[x] + Cardinality(Busy') <= inputs'
    BY <1>1, <1>3, <2>1, <2>2, <2>3 DEF Counted, TypeOK
  <2> QED BY <2>1, <2>3 DEF Counted
<1>10. \A v \in Workers : At(v, "show")' <=> At(v, "show")
  BY <1>2, <1>3, <1>4 DEF At, Mild
<1>11. InStep'
  <2>1. CASE disorder'
    BY <2>1 DEF InStep
  <2>2. CASE ~disorder' /\ Busy = {}
    <3>1. \A v \in Workers : ~At(v, "show")
      BY <2>2 DEF Busy, At
    <3> QED BY <1>1, <1>3, <1>10, <2>2, <3>1 DEF InStep
  <2>3. CASE ~disorder' /\ Busy # {}
    <3>1. \A v \in Workers : At(v, "show")' => v \in mixed'
      BY <1>6, <2>3 DEF At, Busy
    <3>2. conv \in {NoStep, asked} \/ ~disorder
      BY <1>3, <2>3
    <3> QED BY <1>1, <1>3, <1>10, <2>3, <3>1, <3>2 DEF InStep
  <2> QED BY <2>1, <2>2, <2>3
<1>12. Carried'
  BY <1>1, <1>2, <1>3, <1>4, <1>6 DEF Carried, At, Mild, Carries, Busy
<1>13. SettingsAsTold'
  BY <1>1, <1>3 DEF SettingsAsTold
<1>14. Unrivalled'
  BY <1>1, <1>2, <1>3, <1>4 DEF Unrivalled, At, Mild
<1>15. DuplicateNeedsRace'
  BY <1>1, <1>3 DEF DuplicateNeedsRace
<1> QED BY <1>7, <1>8, <1>9, <1>11, <1>12, <1>13, <1>14, <1>15 DEF IInv
(* ---------------------------------------------------------------------- *)
(* Steps that write                                                        *)

LEMMA SetKeeps ==
  ASSUME IInv, NEW w \in Workers, Set(w)
  PROVE  IInv'
<1>1. /\ TypeOK /\ Alone /\ Counted /\ InStep /\ Carried /\ SettingsAsTold /\ Unrivalled /\ DuplicateNeedsRace
  BY DEF IInv
<1>2. job[w] # NoJob /\ job[w] \in Jobs /\ job[w].pc = "set"
  BY <1>1, AtKind DEF Set
<1>3. PICK s \in Steps, o \in BOOLEAN : s = job[w].step /\ o = job[w].old
  BY <1>2, JobKinds DEF Asking
<1>4. PICK j : j = [pc |-> "show", step |-> s, old |-> o]
  OBVIOUS
<1>5. j \in Jobs /\ j # NoJob /\ j.pc = "show" /\ j.step = s /\ j.old = o
  BY <1>4, NoJobAssumption DEF Jobs, Asking
<1>6. Becomes(w, j) /\ UNCHANGED <<asked, covered, prefs, told, unsure, subs, raced, inputs>> /\ troubles' \in 0 .. MaxTroubles
  BY <1>1, <1>3, <1>4, Troubled DEF Set, Goes, prefVars, subVars
<1>7. \/ conv' = s /\ disorder' = (disorder \/ w \in mixed \/ o)
      \/ conv' = conv /\ disorder' = TRUE
  BY <1>3 DEF Set
<1>8. /\ job' \in [Workers -> Jobs \union {NoJob}] /\ job'[w] = j
      /\ \A v \in Workers \ {w} : job'[v] = job[v] /\ (v \in mixed' <=> v \in mixed)
      /\ mixed' \subseteq {v \in Workers : job'[v] # NoJob}
      /\ w \in mixed' <=> w \in mixed
      /\ Busy' \subseteq Busy
      /\ Alone'
  BY <1>1, <1>2, <1>5, <1>6, Goings
<1>9. TypeOK'
  <2>1. conv' \in Steps /\ disorder' \in BOOLEAN
    BY <1>1, <1>7 DEF TypeOK
  <2> QED BY <1>1, <1>6, <1>8, <2>1 DEF TypeOK, Sound
<1>10. Counted'
  BY <1>1, <1>6, <1>8, CountedKept DEF TypeOK
<1>11. InStep'
  <2>1. CASE disorder'
    BY <2>1 DEF InStep
  <2>2. CASE ~disorder'
    <3>1. conv' = s /\ ~o /\ w \notin mixed
      BY <1>7, <2>2
    <3>2. \A v \in Workers : At(v, "show")' => v = w
      BY <1>1, <1>2, <1>8, <3>1 DEF Alone, At
    <3>3. At(w, "show")'
      BY <1>5, <1>8 DEF At
    <3> QED BY <1>5, <1>8, <3>1, <3>2, <3>3 DEF InStep
  <2> QED BY <2>1, <2>2
<1>12. Carried'
  BY <1>1, <1>5, <1>6, <1>8 DEF Carried, At, Carries
<1>13. SettingsAsTold'
  BY <1>1, <1>6 DEF SettingsAsTold
<1>14. Unrivalled'
  BY <1>1, <1>5, <1>6, <1>8 DEF Unrivalled, At
<1>15. DuplicateNeedsRace'
  BY <1>1, <1>6 DEF DuplicateNeedsRace
<1> QED BY <1>8, <1>9, <1>10, <1>11, <1>12, <1>13, <1>14, <1>15 DEF IInv

LEMMA ShowKeeps ==
  ASSUME IInv, NEW w \in Workers, Show(w)
  PROVE  IInv'
<1>1. /\ TypeOK /\ Alone /\ Counted /\ InStep /\ Carried /\ SettingsAsTold /\ Unrivalled /\ DuplicateNeedsRace
  BY DEF IInv
<1>2. job[w] # NoJob /\ job[w] \in Jobs /\ job[w].pc = "show"
  BY <1>1, AtKind DEF Show
<1>3. PICK s \in Steps, o \in BOOLEAN : s = job[w].step /\ o = job[w].old
  BY <1>2, JobKinds DEF Asking
<1>4. /\ Becomes(w, NoJob) /\ UNCHANGED <<conv, prefs, told, unsure, subs, raced, inputs>>
      /\ troubles' \in 0 .. MaxTroubles
  BY <1>1, Troubled DEF Show, prefVars, subVars
<1>5. \/ asked' = (IF o THEN asked ELSE s) /\ disorder' = (disorder \/ w \in mixed)
      \/ asked' = asked /\ disorder' = TRUE
  BY <1>3 DEF Show
<1>6. /\ job' \in [Workers -> Jobs \union {NoJob}] /\ job'[w] = NoJob
      /\ \A v \in Workers \ {w} : job'[v] = job[v] /\ (v \in mixed' <=> v \in mixed)
      /\ mixed' \subseteq {v \in Workers : job'[v] # NoJob}
      /\ Busy' \subseteq Busy
      /\ Alone'
  BY <1>1, <1>2, <1>4, Goings
<1>7. TypeOK'
  <2>1. asked' \in Steps /\ disorder' \in BOOLEAN /\ covered' \in BOOLEAN
    BY <1>1, <1>5 DEF Show, TypeOK
  <2> QED BY <1>1, <1>4, <1>6, <2>1 DEF TypeOK, Sound
<1>8. Counted'
  BY <1>1, <1>4, <1>6, CountedKept DEF TypeOK
<1>9. InStep'
  <2>1. CASE disorder'
    BY <2>1 DEF InStep
  <2>2. CASE ~disorder'
    <3>1. ~disorder /\ w \notin mixed
      BY <1>5, <2>2
    <3>2. ~o /\ conv \in {NoStep, s} /\ asked' = s
      BY <1>1, <1>2, <1>3, <1>5, <2>2, <3>1 DEF InStep, At
    <3>3. \A v \in Workers : ~At(v, "show")'
      BY <1>1, <1>2, <1>6, <3>1 DEF Alone, At
    <3> QED BY <1>4, <3>2, <3>3 DEF InStep
  <2> QED BY <2>1, <2>2
<1>10. Carried'
  BY <1>1, <1>4, <1>6 DEF Carried, At, Carries
<1>11. SettingsAsTold'
  BY <1>1, <1>4 DEF SettingsAsTold
<1>12. Unrivalled'
  BY <1>1, <1>4, <1>6 DEF Unrivalled, At
<1>13. DuplicateNeedsRace'
  BY <1>1, <1>4 DEF DuplicateNeedsRace
<1> QED BY <1>6, <1>7, <1>8, <1>9, <1>10, <1>11, <1>12, <1>13 DEF IInv

LEMMA ClearKeeps ==
  ASSUME IInv, NEW w \in Workers, Clear(w)
  PROVE  IInv'
<1>1. /\ TypeOK /\ Alone /\ Counted /\ InStep /\ Carried /\ SettingsAsTold /\ Unrivalled /\ DuplicateNeedsRace
  BY DEF IInv
<1>2. job[w] # NoJob /\ job[w] \in Jobs /\ job[w].pc = "clear"
  BY <1>1, AtKind DEF Clear
<1>3. PICK j \in Nexts \union {NoJob} : j = job[w].then
  BY <1>2, JobKinds DEF Clearing
<1>4. Mild(j) /\ j \in Jobs \union {NoJob}
  BY HarmlessMade, HarmlessIsMild
<1>5. /\ Becomes(w, j) /\ UNCHANGED <<prefs, told, unsure, subs, raced, inputs>> /\ troubles' \in 0 .. MaxTroubles
      /\ asked' = NoStep /\ covered' = FALSE
      /\ \/ conv' = NoStep /\ disorder' = (disorder \/ w \in mixed)
         \/ conv' = conv /\ disorder' = TRUE
  BY <1>1, <1>3, Troubled DEF Clear, Cleared, prefVars, subVars
<1>6. /\ job' \in [Workers -> Jobs \union {NoJob}] /\ job'[w] = j
      /\ \A v \in Workers \ {w} : job'[v] = job[v] /\ (v \in mixed' <=> v \in mixed)
      /\ mixed' \subseteq {v \in Workers : job'[v] # NoJob}
      /\ w \in mixed' => w \in mixed
      /\ j # NoJob => (w \in mixed' <=> w \in mixed)
      /\ Busy' \subseteq Busy
      /\ Alone'
  BY <1>1, <1>2, <1>4, <1>5, Goings
<1>7. TypeOK'
  <2>1. conv' \in Steps /\ asked' \in Steps /\ disorder' \in BOOLEAN
    BY <1>1, <1>5, StepsMade DEF TypeOK, NoStep
  <2> QED BY <1>1, <1>5, <1>6, <2>1 DEF TypeOK, Sound
<1>8. Counted'
  BY <1>1, <1>5, <1>6, CountedKept DEF TypeOK
<1>9. InStep'
  <2>1. CASE disorder'
    BY <2>1 DEF InStep
  <2>2. CASE ~disorder'
    <3>1. ~disorder /\ w \notin mixed /\ conv' = NoStep /\ asked' = NoStep
      BY <1>5, <2>2
    <3>2. \A v \in Workers : ~At(v, "show")'
      BY <1>1, <1>2, <1>4, <1>6, <3>1 DEF Alone, At, Mild
    <3> QED BY <3>1, <3>2 DEF InStep
  <2> QED BY <2>1, <2>2
<1>10. Carried'
  BY <1>1, <1>4, <1>5, <1>6 DEF Carried, At, Carries, Mild
<1>11. SettingsAsTold'
  BY <1>1, <1>5 DEF SettingsAsTold
<1>12. Unrivalled'
  BY <1>1, <1>4, <1>5, <1>6 DEF Unrivalled, At, Mild
<1>13. DuplicateNeedsRace'
  BY <1>1, <1>5 DEF DuplicateNeedsRace
<1> QED BY <1>6, <1>7, <1>8, <1>9, <1>10, <1>11, <1>12, <1>13 DEF IInv
(* ---------------------------------------------------------------------- *)
(* preferences-svc                                                         *)

\* What a write holds.
LEMMA PostKinds ==
  ASSUME NEW j \in Jobs, j.pc = "post"
  PROVE  /\ DOMAIN j.puts \subseteq Settings /\ \A x \in DOMAIN j.puts : j.puts[x] \in Values(x)
         /\ j.says \subseteq DOMAIN j.puts /\ j.then \in Errands \union {NoJob}
<1>1. CASE j \in Putting
  <2>1. PICK x \in Settings : j.puts \in [{x} -> Values(x)] /\ j.says = {x}
    BY <1>1, PuttingKinds
  <2> QED BY <1>1, <2>1, PuttingKinds
<1>2. CASE j \in PuttingQueries
  <2>1. j.puts \in [Blocks -> Queried] /\ j.says \subseteq Blocks /\ j.then = NoJob
    BY <1>2 DEF PuttingQueries
  <2> QED BY <2>1, ValuesOf DEF Settings
<1> QED BY <1>1, <1>2, JobKinds

LEMMA StoredIsSound ==
  ASSUME TypeOK, NEW puts, DOMAIN puts \subseteq Settings, \A x \in DOMAIN puts : puts[x] \in Values(x)
  PROVE  /\ Sound(Stored(puts))
         /\ \A s \in Settings : Stored(puts)[s] = IF s \in DOMAIN puts THEN puts[s] ELSE prefs[s]
<1> QED BY DEF TypeOK, Sound, Stored

LEMMA ToldIsSound ==
  ASSUME TypeOK, NEW j, DOMAIN j.puts \subseteq Settings, \A x \in DOMAIN j.puts : j.puts[x] \in Values(x),
         j.says \subseteq DOMAIN j.puts
  PROVE  /\ Sound(Told(j))
         /\ \A s \in Settings : Told(j)[s] = IF s \in j.says THEN j.puts[s] ELSE told[s]
<1> QED BY DEF TypeOK, Sound, Told

\* The settings after a write, done or not: they are settings, and those that
\* differ from what was confirmed are marked.
Written(w) ==
  /\ Sound(prefs') /\ Sound(told') /\ unsure' \subseteq Settings /\ SettingsAsTold'
  /\ troubles' \in 0 .. MaxTroubles
  /\ covered' \in BOOLEAN /\ \E j \in Errands \union {NoJob} : Becomes(w, j)

LEMMA StoresWrite ==
  ASSUME IInv, NEW w \in Workers, At(w, "post"), Stores(w)
  PROVE  Written(w)
<1>1. TypeOK /\ Carried /\ SettingsAsTold
  BY DEF IInv
<1>2. PICK j \in Jobs : j = job[w] /\ j.pc = "post"
  BY <1>1, AtKind
<1>3. /\ DOMAIN j.puts \subseteq Settings /\ \A x \in DOMAIN j.puts : j.puts[x] \in Values(x)
      /\ j.says \subseteq DOMAIN j.puts /\ j.then \in Errands \union {NoJob}
  BY <1>2, PostKinds
<1>4. PICK over : over = {s \in DOMAIN j.puts \ j.says : j.puts[s] # prefs[s]}
  OBVIOUS
<1>5. /\ prefs' = Stored(j.puts) /\ told' = Told(j) /\ Becomes(w, j.then) /\ UNCHANGED troubles
      /\ unsure' = (unsure \ j.says) \union (IF w \in mixed THEN over ELSE {})
  BY <1>2, <1>4 DEF Stores
<1>6. /\ Sound(prefs') /\ Sound(told')
      /\ \A s \in Settings : prefs'[s] = IF s \in DOMAIN j.puts THEN j.puts[s] ELSE prefs[s]
      /\ \A s \in Settings : told'[s] = IF s \in j.says THEN j.puts[s] ELSE told[s]
  BY <1>1, <1>3, <1>5, StoredIsSound, ToldIsSound
<1>7. unsure' \subseteq Settings /\ troubles' \in 0 .. MaxTroubles
  BY <1>1, <1>3, <1>4, <1>5 DEF TypeOK
<1>8. \A s \in DOMAIN j.puts \ j.says : j.puts[s] = prefs[s] \/ s \in unsure'
  BY <1>1, <1>2, <1>4, <1>5 DEF Carried, Carries, At
<1>9. ASSUME NEW s \in Settings PROVE prefs'[s] = told'[s] \/ s \in unsure'
  <2>1. CASE s \in j.says
    BY <1>3, <1>6, <2>1
  <2>2. CASE s \notin j.says
    <3>1. prefs'[s] = prefs[s] \/ s \in unsure'
      BY <1>6, <1>8, <2>2
    <3>2. told'[s] = told[s] /\ (s \in unsure => s \in unsure')
      BY <1>5, <1>6, <2>2
    <3> QED BY <1>1, <3>1, <3>2 DEF SettingsAsTold
  <2> QED BY <2>1, <2>2
<1>10. SettingsAsTold'
  BY <1>9 DEF SettingsAsTold
<1>11. covered' \in BOOLEAN
  BY <1>1 DEF Stores, Covers, TypeOK
<1> QED BY <1>3, <1>5, <1>6, <1>7, <1>10, <1>11 DEF Written

LEMMA FailsWrite ==
  ASSUME IInv, NEW w \in Workers, At(w, "post"), Fails(w)
  PROVE  Written(w)
<1>1. TypeOK /\ SettingsAsTold
  BY DEF IInv
<1>2. PICK j \in Jobs : j = job[w] /\ j.pc = "post"
  BY <1>1, AtKind
<1>3. /\ DOMAIN j.puts \subseteq Settings /\ \A x \in DOMAIN j.puts : j.puts[x] \in Values(x)
      /\ j.says \subseteq DOMAIN j.puts /\ j.then \in Errands \union {NoJob}
  BY <1>2, PostKinds
<1>4. /\ prefs' = prefs \/ prefs' = Stored(j.puts)
      /\ told' = told \/ told' = Told(j)
      /\ unsure' = unsure \union DOMAIN j.puts
      /\ Trouble /\ (Becomes(w, NoJob) \/ Becomes(w, j.then))
  BY <1>2 DEF Fails
<1>5. Sound(prefs') /\ \A s \in Settings \ DOMAIN j.puts : prefs'[s] = prefs[s]
  BY <1>1, <1>3, <1>4, StoredIsSound DEF TypeOK
<1>6. Sound(told') /\ \A s \in Settings \ DOMAIN j.puts : told'[s] = told[s]
  BY <1>1, <1>3, <1>4, ToldIsSound DEF TypeOK
<1>7. unsure' \subseteq Settings /\ troubles' \in 0 .. MaxTroubles
  BY <1>1, <1>3, <1>4, Troubled DEF TypeOK
<1>8. SettingsAsTold'
  BY <1>1, <1>4, <1>5, <1>6 DEF SettingsAsTold
<1>9. covered' \in BOOLEAN
  BY <1>1 DEF Fails, Covers, TypeOK
<1> QED BY <1>3, <1>4, <1>5, <1>6, <1>7, <1>8, <1>9 DEF Written

LEMMA UnconnectedWrites ==
  ASSUME IInv, NEW w \in Workers, Unconnected(w)
  PROVE  Written(w)
<1>1. TypeOK /\ SettingsAsTold
  BY DEF IInv
<1>2. Becomes(w, NoJob) /\ Covers /\ Trouble /\ UNCHANGED <<prefs, told, unsure>>
  BY DEF Unconnected, Says, prefVars
<1>3. troubles' \in 0 .. MaxTroubles
  BY <1>1, <1>2, Troubled
<1> QED BY <1>1, <1>2, <1>3 DEF Written, Covers, TypeOK, SettingsAsTold, Sound

LEMMA SetPrefsKeeps ==
  ASSUME IInv, NEW w \in Workers, SetPrefs(w)
  PROVE  IInv'
<1>1. /\ TypeOK /\ Alone /\ Counted /\ InStep /\ Carried /\ SettingsAsTold /\ Unrivalled /\ DuplicateNeedsRace
  BY DEF IInv
<1>2. job[w] # NoJob /\ job[w] \in Jobs /\ job[w].pc = "post"
  BY <1>1, AtKind DEF SetPrefs
<1>3. Written(w) /\ UNCHANGED <<conv, asked, disorder, subs, raced, inputs>>
  BY StoresWrite, FailsWrite, UnconnectedWrites DEF SetPrefs, chatVars, subVars
<1>4. PICK j \in Errands \union {NoJob} : Becomes(w, j)
  BY <1>3 DEF Written
<1>5. j \in Jobs \union {NoJob} /\ (j # NoJob => j.pc \notin {"show", "post", "create"})
  BY ErrandKinds DEF Jobs, Nexts
<1>6. /\ job' \in [Workers -> Jobs \union {NoJob}] /\ job'[w] = j
      /\ \A v \in Workers \ {w} : job'[v] = job[v] /\ (v \in mixed' <=> v \in mixed)
      /\ mixed' \subseteq {v \in Workers : job'[v] # NoJob}
      /\ Busy' \subseteq Busy
      /\ Alone'
  BY <1>1, <1>2, <1>4, <1>5, Goings
<1>7. TypeOK'
  BY <1>1, <1>3, <1>6 DEF TypeOK, Written, Sound
<1>8. Counted'
  BY <1>1, <1>3, <1>6, CountedKept DEF TypeOK
<1>9. \A v \in Workers : At(v, "show")' => At(v, "show") /\ job'[v] = job[v] /\ (v \in mixed' <=> v \in mixed)
  BY <1>5, <1>6 DEF At
<1>10. \A v \in Workers : At(v, "show") => At(v, "show")'
  BY <1>2, <1>6 DEF At
<1>11. InStep'
  BY <1>1, <1>3, <1>9, <1>10 DEF InStep
<1>12. Carried'
  <2>1. \A v \in Workers : At(v, "post")' => v \in mixed'
    BY <1>1, <1>2, <1>5, <1>6 DEF Alone, At
  <2> QED BY <2>1 DEF Carried
<1>13. SettingsAsTold'
  BY <1>3 DEF Written
<1>14. Unrivalled'
  BY <1>1, <1>3, <1>5, <1>6 DEF Unrivalled, At
<1>15. DuplicateNeedsRace'
  BY <1>1, <1>3 DEF DuplicateNeedsRace
<1> QED BY <1>6, <1>7, <1>8, <1>11, <1>12, <1>13, <1>14, <1>15 DEF IInv
(* ---------------------------------------------------------------------- *)
(* Subscriptions                                                           *)

\* What ends a handler and touches subscriptions leaves the chat and the
\* settings in order.
LEMMA EndKeeps ==
  ASSUME IInv, NEW w \in Workers, job[w] # NoJob, job[w].pc # "show", Says(w),
         UNCHANGED <<conv, asked, disorder, prefs, told, unsure, inputs>>
  PROVE  Alone' /\ InStep' /\ Carried' /\ SettingsAsTold'
<1>1. TypeOK /\ Alone /\ InStep /\ Carried /\ SettingsAsTold
  BY DEF IInv
<1>2. /\ job'[w] = NoJob /\ \A v \in Workers \ {w} : job'[v] = job[v] /\ (v \in mixed' <=> v \in mixed)
      /\ Alone'
  BY <1>1, Goings DEF Says
<1>3. \A v \in Workers : At(v, "show")' <=> At(v, "show")
  BY <1>2 DEF At
<1>4. \A v \in Workers : At(v, "show") => job'[v] = job[v] /\ (v \in mixed' <=> v \in mixed)
  BY <1>2 DEF At
<1>5. InStep'
  BY <1>1, <1>3, <1>4 DEF InStep
<1>6. Carried'
  BY <1>1, <1>2 DEF Carried, At, Carries
<1>7. SettingsAsTold'
  BY <1>1 DEF SettingsAsTold
<1> QED BY <1>2, <1>5, <1>6, <1>7

LEMMA CreateKeeps ==
  ASSUME IInv, NEW w \in Workers, CreateSub(w)
  PROVE  IInv'
<1>1. /\ TypeOK /\ Alone /\ Counted /\ InStep /\ Carried /\ SettingsAsTold /\ Unrivalled /\ DuplicateNeedsRace
  BY DEF IInv
<1>2. job[w] # NoJob /\ job[w] \in Jobs /\ job[w].pc = "create"
  BY <1>1, AtKind DEF CreateSub
<1>3. PICK x \in Subs : x = job[w].sub
  BY <1>2, JobKinds DEF Creating
<1>4. /\ Says(w) /\ UNCHANGED <<conv, asked, disorder, prefs, told, unsure, inputs>>
      /\ troubles' \in 0 .. MaxTroubles /\ covered' \in BOOLEAN
  BY <1>1, Troubled DEF CreateSub, Says, Covers, TypeOK, chatVars, prefVars
<1>5. /\ job' \in [Workers -> Jobs \union {NoJob}] /\ job'[w] = NoJob
      /\ \A v \in Workers \ {w} : job'[v] = job[v]
      /\ mixed' \subseteq {v \in Workers : job'[v] # NoJob}
      /\ Busy' = Busy \ {w} /\ Busy' \subseteq Busy
  BY <1>1, <1>2, <1>4, Goings DEF Says
<1>6. Alone' /\ InStep' /\ Carried' /\ SettingsAsTold'
  BY <1>2, <1>4, EndKeeps
<1>7. CASE UNCHANGED subVars
  <2>1. UNCHANGED <<subs, raced>>
    BY <1>7 DEF subVars
  <2>2. TypeOK'
    BY <1>1, <1>4, <1>5, <2>1 DEF TypeOK, Sound
  <2>3. Counted'
    BY <1>1, <1>4, <1>5, <2>1, CountedKept DEF TypeOK
  <2>4. Unrivalled' /\ DuplicateNeedsRace'
    BY <1>1, <1>5, <2>1 DEF Unrivalled, DuplicateNeedsRace, At
  <2> QED BY <1>6, <2>2, <2>3, <2>4 DEF IInv
<1>8. CASE /\ subs' = [subs EXCEPT ![x] = @ + 1]
           /\ raced' = IF Rivals(w) # {} THEN raced \union {x} ELSE raced
  <2>1. w \in Busy
    BY <1>2 DEF Busy
  <2>2. /\ IsFiniteSet(Busy') /\ Cardinality(Busy') = Cardinality(Busy) - 1
        /\ Cardinality(Busy) \in Nat /\ Cardinality(Busy') \in Nat
    BY <1>1, <1>5, <2>1, FS_RemoveElement, FS_CardinalityType DEF Counted
  <2>3. \A y \in Subs : subs[y] \in Nat /\ subs'[y] = IF y = x THEN subs[y] + 1 ELSE subs[y]
    BY <1>1, <1>8 DEF TypeOK
  <2>4. inputs \in 0 .. MaxInputs
    BY <1>1 DEF TypeOK
  <2>5. ASSUME NEW y \in Subs PROVE subs'[y] + Cardinality(Busy') <= inputs
    <3>1. subs[y] + Cardinality(Busy) <= inputs
      BY <1>1 DEF Counted
    <3> QED BY <2>2, <2>3, <2>4, <3>1
  <2>6. Counted'
    BY <1>4, <2>2, <2>5 DEF Counted
  <2>7. ASSUME NEW y \in Subs PROVE subs'[y] \in 0 .. MaxInputs
    BY <2>2, <2>3, <2>4, <2>5, BoundsAssumption
  <2>8. TypeOK'
    <3>1. subs' \in [Subs -> 0 .. MaxInputs]
      BY <1>1, <1>8, <2>7 DEF TypeOK
    <3>2. raced' \subseteq Subs
      BY <1>1, <1>8 DEF TypeOK
    <3> QED BY <1>1, <1>4, <1>5, <3>1, <3>2 DEF TypeOK, Sound
  <2>9. \A v \in Workers : At(v, "create")' => v # w /\ At(v, "create") /\ job'[v] = job[v]
    BY <1>5 DEF At
  <2>10. ASSUME NEW v \in Workers, At(v, "create")' PROVE subs'[job'[v].sub] = 0 \/ job'[v].sub \in raced'
    <3>1. v # w /\ At(v, "create") /\ job'[v] = job[v]
      BY <2>9, <2>10
    <3>2. PICK y \in Subs : y = job[v].sub
      BY <1>1, <3>1, AtKind, JobKinds DEF Creating
    <3>3. CASE y = x
      <4>1. v \in Rivals(w)
        BY <1>3, <3>1, <3>2, <3>3 DEF Rivals
      <4> QED BY <1>8, <3>1, <3>2, <3>3, <4>1
    <3>4. CASE y # x
      BY <1>1, <1>8, <2>3, <3>1, <3>2, <3>4 DEF Unrivalled
    <3> QED BY <3>3, <3>4
  <2>11. Unrivalled'
    BY <2>10 DEF Unrivalled
  <2>12. subs[x] = 0 \/ x \in raced
    BY <1>1, <1>2, <1>3 DEF Unrivalled, At
  <2>13. ASSUME NEW y \in Subs, subs'[y] > 1 PROVE y \in raced'
    <3>1. CASE y = x
      BY <1>8, <2>3, <2>12, <2>13, <3>1
    <3>2. CASE y # x
      BY <1>1, <1>8, <2>3, <2>13, <3>2 DEF DuplicateNeedsRace
    <3> QED BY <3>1, <3>2
  <2>14. DuplicateNeedsRace'
    BY <2>13 DEF DuplicateNeedsRace
  <2> QED BY <1>6, <2>6, <2>8, <2>11, <2>14 DEF IInv
<1> QED BY <1>3, <1>7, <1>8 DEF CreateSub

LEMMA UnwatchKeeps ==
  ASSUME IInv, NEW w \in Workers, DeleteByChat(w)
  PROVE  IInv'
<1>1. /\ TypeOK /\ Alone /\ Counted /\ InStep /\ Carried /\ SettingsAsTold /\ Unrivalled /\ DuplicateNeedsRace
  BY DEF IInv
<1>2. job[w] # NoJob /\ job[w] \in Jobs /\ job[w].pc = "unwatch"
  BY <1>1, AtKind DEF DeleteByChat
<1>3. /\ Says(w) /\ UNCHANGED <<conv, asked, disorder, prefs, told, unsure, raced, inputs>>
      /\ troubles' \in 0 .. MaxTroubles /\ covered' \in BOOLEAN
      /\ subs' = [x \in Subs |-> 0] \/ subs' = subs
  BY <1>1, Troubled DEF DeleteByChat, Says, Covers, TypeOK, chatVars, prefVars
<1>4. /\ job' \in [Workers -> Jobs \union {NoJob}] /\ job'[w] = NoJob
      /\ \A v \in Workers \ {w} : job'[v] = job[v]
      /\ mixed' \subseteq {v \in Workers : job'[v] # NoJob}
      /\ Busy' \subseteq Busy
  BY <1>1, <1>2, <1>3, Goings DEF Says
<1>5. Alone' /\ InStep' /\ Carried' /\ SettingsAsTold'
  BY <1>2, <1>3, EndKeeps
<1>6. subs' \in [Subs -> 0 .. MaxInputs] /\ \A x \in Subs : subs'[x] = subs[x] \/ subs'[x] = 0
  BY <1>1, <1>3, BoundsAssumption DEF TypeOK
<1>7. TypeOK'
  BY <1>1, <1>3, <1>4, <1>6 DEF TypeOK, Sound
<1>8. Counted'
  BY <1>1, <1>3, <1>4, <1>6, CountedKept
<1>9. Unrivalled'
  <2>1. ASSUME NEW v \in Workers, At(v, "create")' PROVE subs'[job'[v].sub] = 0 \/ job'[v].sub \in raced'
    <3>1. At(v, "create") /\ job'[v] = job[v]
      BY <1>4, <2>1 DEF At
    <3>2. job[v].sub \in Subs
      BY <1>1, <3>1, AtKind, JobKinds DEF Creating
    <3> QED BY <1>1, <1>3, <1>6, <3>1, <3>2 DEF Unrivalled
  <2> QED BY <2>1 DEF Unrivalled
<1>10. DuplicateNeedsRace'
  BY <1>1, <1>3, <1>6 DEF DuplicateNeedsRace
<1> QED BY <1>5, <1>7, <1>8, <1>9, <1>10 DEF IInv

(* ---------------------------------------------------------------------- *)
(* Expiry and restarts                                                     *)

LEMMA ExpireKeeps ==
  ASSUME IInv, Expire
  PROVE  IInv'
<1>1. /\ TypeOK /\ Alone /\ Counted /\ InStep /\ Carried /\ SettingsAsTold /\ Unrivalled /\ DuplicateNeedsRace
  BY DEF IInv
<1>2. /\ conv' = NoStep /\ UNCHANGED <<asked, covered, disorder, prefs, told, unsure, subs, raced, job, mixed, inputs>>
      /\ troubles' \in 0 .. MaxTroubles
  BY <1>1, Troubled DEF Expire, prefVars, subVars
<1>3. NoStep \in Steps
  BY StepsMade DEF NoStep
<1>4. TypeOK'
  BY <1>1, <1>2, <1>3 DEF TypeOK, Sound
<1>5. Alone' /\ Carried' /\ SettingsAsTold' /\ Unrivalled' /\ DuplicateNeedsRace'
  BY <1>1, <1>2 DEF Alone, Carried, Carries, At, SettingsAsTold, Unrivalled, DuplicateNeedsRace
<1>6. Counted'
  BY <1>1, <1>2 DEF Counted, Busy
<1>7. InStep'
  BY <1>1, <1>2 DEF InStep, At
<1> QED BY <1>4, <1>5, <1>6, <1>7 DEF IInv

LEMMA CrashKeeps ==
  ASSUME IInv, Crash
  PROVE  IInv'
<1>1. /\ TypeOK /\ Counted /\ SettingsAsTold /\ DuplicateNeedsRace
  BY DEF IInv
<1>2. /\ conv' \in {conv, NoStep} /\ disorder' = TRUE /\ mixed' = {}
      /\ job' = [w \in Workers |-> NoJob]
      /\ UNCHANGED <<asked, covered, prefs, told, unsure, subs, raced, inputs>>
      /\ troubles' \in 0 .. MaxTroubles
  BY <1>1, Troubled DEF Crash, prefVars, subVars
<1>3. NoStep \in Steps
  BY StepsMade DEF NoStep
<1>4. TypeOK'
  BY <1>1, <1>2, <1>3 DEF TypeOK, Sound
<1>5. \A w \in Workers : job'[w] = NoJob
  BY <1>2
<1>6. Alone' /\ Carried' /\ SettingsAsTold' /\ Unrivalled' /\ DuplicateNeedsRace'
  BY <1>1, <1>2, <1>5 DEF Alone, Carried, At, SettingsAsTold, Unrivalled, DuplicateNeedsRace
<1>7. Counted'
  <2>1. Busy' \subseteq Busy
    BY <1>5 DEF Busy
  <2> QED BY <1>1, <1>2, <2>1, CountedKept DEF TypeOK
<1>8. InStep'
  BY <1>2 DEF InStep
<1> QED BY <1>4, <1>6, <1>7, <1>8 DEF IInv

(* ---------------------------------------------------------------------- *)
(* Results                                                                 *)

LEMMA IInvInit == Init => IInv
<1> SUFFICES ASSUME Init PROVE IInv
  OBVIOUS
<1>2. TypeOK
  <2>1. Sound(prefs) /\ Sound(told)
    BY ProfilesAssumption DEF Init
  <2>2. subs \in [Subs -> 0 .. MaxInputs] /\ inputs \in 0 .. MaxInputs /\ troubles \in 0 .. MaxTroubles
    BY BoundsAssumption DEF Init
  <2> QED BY <2>1, <2>2 DEF Init, TypeOK
<1>3. \A w \in Workers : job[w] = NoJob
  BY DEF Init
<1>4. Alone /\ Carried /\ SettingsAsTold /\ Unrivalled /\ DuplicateNeedsRace
  BY <1>3 DEF Init, Alone, Carried, At, SettingsAsTold, Unrivalled, DuplicateNeedsRace
<1>5. Counted
  <2>1. Busy = {}
    BY <1>3 DEF Busy
  <2>2. IsFiniteSet(Busy) /\ Cardinality(Busy) = 0
    BY <2>1, FS_EmptySet
  <2> QED BY <2>2 DEF Counted, Init
<1>6. InStep
  BY <1>3 DEF InStep, Init, At
<1> QED BY <1>2, <1>4, <1>5, <1>6 DEF IInv

LEMMA IInvNext ==
  ASSUME IInv, [Next]_vars
  PROVE  IInv'
<1>1. CASE UNCHANGED vars
  BY <1>1 DEF vars, IInv, TypeOK, Sound, Alone, Counted, Busy, InStep, Carried, Carries, At, SettingsAsTold,
     Unrivalled, DuplicateNeedsRace
<1>2. ASSUME NEW w \in Workers, Inputs(w) PROVE IInv'
  BY <1>2, InputsStart, StartsKeep DEF IInv
<1>3. ASSUME NEW w \in Workers, Handlers(w) PROVE IInv'
  <2>1. CASE Reads(w)
    BY <2>1, ReadsKeep
  <2>2. CASE Set(w) \/ Show(w) \/ Clear(w)
    BY <2>2, SetKeeps, ShowKeeps, ClearKeeps
  <2>3. CASE SetPrefs(w) \/ CreateSub(w) \/ DeleteByChat(w)
    BY <2>3, SetPrefsKeeps, CreateKeeps, UnwatchKeeps
  <2> QED BY <1>3, <2>1, <2>2, <2>3 DEF Handlers, Reads
<1> QED BY <1>1, <1>2, <1>3, ExpireKeeps, CrashKeeps DEF Next

LEMMA IInvAlways == Spec => []IInv
<1> QED BY IInvInit, IInvNext, PTL DEF Spec

\* The stored step, the settings and what is left of every handler are what
\* the code can mean by them: no button of an old keyboard makes a step or a
\* selection that no project has.
THEOREM WellTyped == Spec => []TypeOK
<1>1. IInv => TypeOK
  BY DEF IInv
<1> QED BY <1>1, IInvAlways, PTL

\* Between updates the stored step is that of the last prompt or keyboard with
\* a step, or none, unless handlers overlapped, an earlier picker was pressed or
\* the store failed since they last agreed: whatever messages came after that
\* prompt, no text answers an earlier one.
THEOREM AskedIsStored == Spec => []StepIsAsked
<1>1. IInv => StepIsAsked
  BY DEF IInv, InStep, StepIsAsked, Busy, At
<1> QED BY <1>1, IInvAlways, PTL

\* A setting the chat confirmed is the one that is stored, unless its own
\* write failed or another query's save that was not alone wrote it back.
THEOREM ConfirmedIsStored == Spec => []SettingsAsTold
<1>1. IInv => SettingsAsTold
  BY DEF IInv
<1> QED BY <1>1, IInvAlways, PTL

\* Two subscriptions alike need two handlers between check and creation.
THEOREM TwinsRaced == Spec => []DuplicateNeedsRace
<1>1. IInv => DuplicateNeedsRace
  BY DEF IInv
<1> QED BY <1>1, IInvAlways, PTL
=============================================================================
