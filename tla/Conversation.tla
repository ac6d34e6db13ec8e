----------------------------- MODULE Conversation -----------------------------
(***************************************************************************)
(* The conversations of one user in one chat with telegram-svc, apart from *)
(* those that create issues (CreateIssue) and schedules (Scheduler): the   *)
(* prompts, the pickers of issue types and statuses, the defaults, the     *)
(* daily queries, the reports' choices and the subscriptions.              *)
(*                                                                         *)
(* A goroutine per update, of a pool, reads the stored step, calls Jira    *)
(* and preferences-svc, stores the next step and then sends what asks for  *)
(* it, so the handlers of quick inputs overlap.  Every keyboard ever sent  *)
(* is still in the chat: any button may be pressed at any time.            *)
(*                                                                         *)
(* Texts are keys, projects or something else.  What Jira holds is a       *)
(* choice where nothing else depends on it, a constant where something     *)
(* does.  What a comment, an assignment or a transition does in Jira, and  *)
(* the Jira webhooks of a subscription (WebhookRegistry), are left out.    *)
(***************************************************************************)
EXTENDS Naturals, Sequences

CONSTANTS
  Workers,       \* maxConcurrentUpdates
  Keys, Projects, \* texts that are issue keys and project keys
  Bad, Dash,     \* a text that is neither; "-"
  Kinds,         \* the pickers: it, ds, hs
  NamesOf,       \* the names a picker shows of a project
  Blocks,        \* the daily queries
  Plain,         \* settings of one value: language, fields, default issue type
  Choices,       \* their values
  Profiles,      \* the settings to begin with
  BoardsOf,      \* the boards of a project
  Mine, Filter,  \* subscriptions without a key, to a saved filter
  Nothing,       \* an empty string, no board, no argument
  NoJob,
  MaxInputs,     \* bound: updates
  MaxTroubles    \* bound: failures, expiries and restarts

Names == UNION {{NamesOf[p][i] : i \in DOMAIN NamesOf[p]} : p \in Projects}
Boards == UNION {BoardsOf[p] : p \in Projects}
Texts == Keys \union Projects \union {Bad, Dash}
Subs == Keys \union Projects \union {Mine, Filter}
Settings == Kinds \union Blocks \union Plain \union {"defaults"}

ASSUME NamesAssumption == \A p \in Projects : NamesOf[p] \in Seq(Names)
ASSUME SettingsAssumption ==
  /\ "defaults" \notin Kinds \union Blocks \union Plain /\ {"itype", "language"} \subseteq Plain
  /\ Kinds \intersect Blocks = {} /\ (Kinds \union Blocks) \intersect Plain = {}
ASSUME BoundsAssumption == MaxInputs \in Nat /\ MaxTroubles \in Nat

VARIABLES
  conv,     \* the stored step, its argument and the names that are marked
  asked,    \* the last prompt or keyboard of a step, unless its step was cleared
  covered,  \* a message or a keyboard that needs no step came after it
  prefs,    \* users: the settings
  told,     \* the settings as the chat confirmed them
  subs,     \* how many subscriptions alike
  job, mixed, \* what the workers are at; those that were not alone
  \* history: the stored step may differ from what is asked, settings that may
  \* differ from what was confirmed, subscriptions checked twice at a time
  disorder, unsure, raced,
  inputs, troubles

chatVars == <<conv, asked, disorder>>
prefVars == <<prefs, told, unsure>>
subVars == <<subs, raced>>
vars == <<conv, asked, covered, prefs, told, subs, job, mixed, disorder, unsure, raced, inputs, troubles>>

\* A step: its name, the picker or query it is of, an argument, the marks.
St(n, o, a, m) == [name |-> n, of |-> o, arg |-> a, marks |-> m]
Step(n) == St(n, "", Nothing, {})
NoStep == Step("")

TableOf(p) == {NamesOf[p][i] : i \in DOMAIN NamesOf[p]}
PlainSteps ==
  [name : {"", "lookup", "comment_key", "sub_project", "sub_issue", "defaults_project", "sprint_project"},
   of : {""}, arg : {Nothing}, marks : {{}}]
ArgSteps ==
  [name : {"comment_text"}, of : {""}, arg : Keys, marks : {{}}]
  \union [name : {"defaults_issue_type", "defaults_board", "sprint_board"}, of : {""}, arg : Projects, marks : {{}}]
  \union [name : {"sprint_sprint"}, of : {""}, arg : Boards, marks : {{}}]
  \union [name : {"project"}, of : Kinds, arg : {Nothing}, marks : {{}}]
  \union [name : {"jql"}, of : Blocks, arg : {Nothing}, marks : {{}}]
Pickers ==
  UNION {[name : {"select"}, of : Kinds, arg : {p}, marks : SUBSET TableOf(p)] : p \in Projects}
Steps == PlainSteps \union ArgSteps \union Pickers

\* What the code can mean by a setting: a selection of names of one project, a
\* query, a value, a board of the default project.
Queried == Keys \union Projects \union {Nothing}
Values(x) ==
  CASE x \in Kinds -> UNION {SUBSET TableOf(p) : p \in Projects}
    [] x \in Blocks -> Queried
    [] x \in Plain -> Choices \union {Nothing}
    [] OTHER -> {<<Nothing, Nothing>>} \union UNION {{p} \X (BoardsOf[p] \union {Nothing}) : p \in Projects}

Sound(s) == DOMAIN s = Settings /\ \A x \in Settings : s[x] \in Values(x)

ASSUME ProfilesAssumption == \A s \in Profiles : Sound(s)

\* What is left of a handler: a step to store and show, a read and a choice, a
\* subscription to check and create, settings to write.
Asking == [pc : {"set", "show"}, step : Steps, old : BOOLEAN]
Errands ==
  [pc : {"start", "save"}, arg : Kinds] \union [pc : {"text"}, arg : Texts]
  \union [pc : {"type"}, arg : Choices \union {Nothing}]
  \union [pc : {"types", "defaults", "default", "full", "boards", "match"}, arg : Projects]
  \union [pc : {"sprints", "hinted"}, arg : Boards]
  \union [pc : {"sprint", "kanban", "unwatch", "tell"}, arg : {Nothing}]
Indices == UNION {DOMAIN NamesOf[p] : p \in Projects}
Picking == [pc : {"picker"}, kind : Kinds, project : Projects]
Toggling == [pc : {"toggle"}, kind : Kinds, index : Indices, old : BOOLEAN]
Querying == [pc : {"jql"}, block : Blocks, text : Queried]
Checking == [pc : {"check"}, sub : Subs]
Creating == [pc : {"create"}, sub : Subs]
Putting ==
  UNION {[pc : {"post"}, puts : [{x} -> Values(x)], says : {{x}}, failed : {"tells", "silent", "confirms"},
          then : Errands \union {NoJob}] : x \in Settings}
PuttingQueries ==
  [pc : {"post"}, puts : [Blocks -> Queried], says : SUBSET Blocks, failed : {"tells"}, then : {NoJob}]
Nexts == Errands \union Picking \union Querying \union Checking \union Putting
Clearing == [pc : {"clear"}, then : Nexts \union {NoJob}]
Jobs == Nexts \union Asking \union Toggling \union Creating \union PuttingQueries \union Clearing

ASSUME NoJobAssumption == NoJob \notin Jobs

TypeOK ==
  /\ conv \in Steps /\ asked \in Steps /\ covered \in BOOLEAN /\ disorder \in BOOLEAN
  /\ Sound(prefs) /\ Sound(told) /\ unsure \subseteq Settings
  /\ subs \in [Subs -> 0 .. MaxInputs] /\ raced \subseteq Subs
  /\ job \in [Workers -> Jobs \union {NoJob}] /\ mixed \subseteq {w \in Workers : job[w] # NoJob}
  /\ inputs \in 0 .. MaxInputs /\ troubles \in 0 .. MaxTroubles

\* A chat at rest: any step is asked, any profile saved.
Init ==
  /\ conv \in Steps /\ asked = conv /\ covered = FALSE /\ prefs \in Profiles /\ told = prefs
  /\ subs = [x \in Subs |-> 0] /\ job = [w \in Workers |-> NoJob] /\ mixed = {}
  /\ disorder = FALSE /\ unsure = {} /\ raced = {} /\ inputs = 0 /\ troubles = 0

-----------------------------------------------------------------------------
(* Jobs: what is left of a handler                                         *)

Clears(then) == [pc |-> "clear", then |-> then]
Asks(s) == [pc |-> "set", step |-> s, old |-> FALSE]
\* Settings to write, those among them the chat confirms, what follows, and
\* what the handler does about a failure: it tells, is silent, or confirms.
Posts(puts, says, failed, then) ==
  [pc |-> "post", puts |-> puts, says |-> says, failed |-> failed, then |-> then]
Put(s, v, failed, then) == Posts([x \in {s} |-> v], {s}, failed, then)
PutDefaults(p, b, then) == Put("defaults", <<p, b>>, "confirms", then)
Checks(x) == [pc |-> "check", sub |-> x]
Does(pc, a) == [pc |-> pc, arg |-> a]

Busy == {w \in Workers : job[w] # NoJob}
Trouble == troubles < MaxTroubles /\ troubles' = troubles + 1
At(w, pc) == job[w] # NoJob /\ job[w].pc = pc

Becomes(w, j) ==
  /\ job' = [job EXCEPT ![w] = j]
  /\ mixed' = IF j = NoJob THEN mixed \ {w} ELSE mixed

\* A message that asks for nothing comes after what was asked, unless it
\* cannot be sent.
Covers == covered' \in {covered, asked # NoStep}

\* A handler goes on, or ends, without a word; or ends with a message.
Goes(w, j) == Becomes(w, j) /\ UNCHANGED covered
Ends(w) == Goes(w, NoJob)
Says(w) == Becomes(w, NoJob) /\ Covers

\* An update gets a slot of the pool.  One that gets none in ten seconds is
\* dropped, which is as if the user had not sent it.
Free(w) == inputs < MaxInputs /\ job[w] = NoJob /\ w = CHOOSE v \in Workers : job[v] = NoJob

Takes(w, j) ==
  /\ inputs' = inputs + 1
  /\ job' = [job EXCEPT ![w] = j]
  /\ mixed' = IF Busy = {} THEN mixed ELSE Busy \union {w}
  /\ disorder' = (disorder /\ conv \notin {NoStep, asked})
  /\ UNCHANGED <<conv, asked, covered, prefVars, subVars, troubles>>

-----------------------------------------------------------------------------
(* Inputs                                                                  *)

\* Buttons and commands that prompt; "lookup" stands for the prompts whose
\* answer is one message and no stored step.
Prompts == {Step(n) : n \in {"lookup", "comment_key", "defaults_project"}}
             \union {St("jql", b, Nothing, {}) : b \in Blocks}

handleActionCallback(w) == Free(w) /\ \E s \in Prompts : Takes(w, Asks(s))

\* The button of an issue that was shown.
handleIssueAction(w) ==
  /\ Free(w)
  /\ \E k \in Keys : Takes(w, Asks(St("comment_text", "", k, {}))) \/ Takes(w, Checks(k))

\* A menu, or the cancel button.
handleMenuCallback(w) == Free(w) /\ Takes(w, Clears(NoJob))

\* Buttons and commands that are answered by messages, or by keyboards whose
\* buttons need no stored step: the lists, the subscription types, the filters,
\* the fields, the daily queries.
handleKeyboard(w) == Free(w) /\ Takes(w, Does("tell", Nothing))

\* Pickers: the start, and the buttons.  A press is on the keyboard that was
\* shown last, or on an earlier one, which it redraws instead.
handlePickerStart(w) == Free(w) /\ \E k \in Kinds : Takes(w, Does("start", k))

IsPicker(s, k) == s.name = "select" /\ s.of = k

Toggle(k, i, old) == [pc |-> "toggle", kind |-> k, index |-> i, old |-> old]

handleToggle(w) ==
  /\ Free(w)
  /\ \E k \in Kinds, i \in UNION {DOMAIN NamesOf[p] : p \in Projects} :
       \/ /\ ~covered /\ IsPicker(asked, k) /\ i \in DOMAIN NamesOf[asked.arg]
          /\ Takes(w, Toggle(k, i, FALSE))
       \/ Takes(w, Toggle(k, i, TRUE))

handleSave(w) == Free(w) /\ \E k \in Kinds : Takes(w, Does("save", k))

handleClear(w) == Free(w) /\ \E k \in Kinds : Takes(w, Clears(Put(k, {}, "tells", NoJob)))

handleDailyJQLReset(w) == Free(w) /\ Takes(w, Posts([b \in Blocks |-> Nothing], Blocks, "tells", NoJob))

handleFieldSelect(w) ==
  /\ Free(w)
  /\ \E x \in Plain \ {"itype", "language"}, v \in Choices : Takes(w, Put(x, v, "tells", NoJob))

handleLangCallback(w) == Free(w) /\ \E v \in Choices : Takes(w, Put("language", v, "confirms", NoJob))

handleDefaultsIssueType(w) == Free(w) /\ \E v \in Choices \union {Nothing} : Takes(w, Does("type", v))

\* The button carries the project and the board.
handleDefaultsBoardCallback(w) ==
  /\ Free(w)
  /\ \E p \in Projects : \E b \in BoardsOf[p] : Takes(w, Clears(PutDefaults(p, b, NoJob)))

handleSprintCallback(w) ==
  /\ Free(w)
  /\ Takes(w, Clears(NoJob)) \/ \E b \in Boards : Takes(w, Clears(Does("sprints", b)))

\* With a project in the command, or without.
handleSprint(w) ==
  /\ Free(w)
  /\ Takes(w, Does("sprint", Nothing)) \/ \E p \in Projects : Takes(w, Does("full", p))

handleKanban(w) == Free(w) /\ Takes(w, Does("kanban", Nothing))

\* The buttons carry the board and the period.
handleKanbanCallback(w) == Free(w) /\ Takes(w, Clears(NoJob))

handleSubCallback(w) ==
  /\ Free(w)
  /\ Takes(w, Checks(Mine)) \/ \E n \in {"sub_project", "sub_issue"} : Takes(w, Asks(Step(n)))

handleFilterCallback(w) == Free(w) /\ Takes(w, Checks(Filter))

handleUnwatch(w) == Free(w) /\ Takes(w, Does("unwatch", Nothing))

handleTextInput(w) == Free(w) /\ \E t \in Texts : Takes(w, Does("text", t))

-----------------------------------------------------------------------------
(* The state store.  Its failures are logged and not seen by the caller.   *)

\* What a read may give: an empty step where the store fails.
Gets(s) == (s = conv /\ UNCHANGED troubles) \/ (s = NoStep /\ Trouble)

Set(w) ==
  /\ At(w, "set")
  /\ LET j == job[w]
     IN /\ \/ conv' = j.step /\ UNCHANGED troubles /\ disorder' = (disorder \/ w \in mixed \/ j.old)
           \/ Trouble /\ UNCHANGED conv /\ disorder' = TRUE
        /\ Goes(w, [pc |-> "show", step |-> j.step, old |-> j.old])
  /\ UNCHANGED <<asked, prefVars, subVars, inputs>>

\* The prompt or the keyboard goes out after the step is stored.
Show(w) ==
  /\ At(w, "show")
  /\ \/ /\ asked' = IF job[w].old THEN asked ELSE job[w].step
        /\ disorder' = (disorder \/ w \in mixed)
        /\ UNCHANGED troubles
        /\ covered' = (covered /\ job[w].old)
     \/ Trouble /\ UNCHANGED <<asked, covered>> /\ disorder' = TRUE
  /\ Becomes(w, NoJob)
  /\ UNCHANGED <<conv, prefVars, subVars, inputs>>

\* Mutant of Cleared: the step stays.
ClearedNot == conv

Cleared == NoStep

\* Whatever is asked in the chat is over.
Clear(w) ==
  /\ At(w, "clear")
  /\ asked' = NoStep /\ covered' = FALSE
  /\ \/ conv' = Cleared /\ UNCHANGED troubles /\ disorder' = (disorder \/ w \in mixed)
     \/ Trouble /\ UNCHANGED conv /\ disorder' = TRUE
  /\ Becomes(w, job[w].then)
  /\ UNCHANGED <<prefVars, subVars, inputs>>

\* Fifteen minutes; or telegram-svc dies, with or without its stored steps.
Expire ==
  /\ conv # NoStep /\ Trouble /\ conv' = NoStep
  /\ UNCHANGED <<asked, covered, disorder, prefVars, subVars, job, mixed, inputs>>

Crash ==
  /\ Busy # {} /\ Trouble
  /\ conv' \in {conv, NoStep} /\ disorder' = TRUE
  /\ job' = [w \in Workers |-> NoJob] /\ mixed' = {}
  /\ UNCHANGED <<asked, covered, prefVars, subVars, inputs>>

-----------------------------------------------------------------------------
(* Texts                                                                   *)

IsKey(t) == t \in Keys
IsProject(t) == t \in Projects

KeyedSub(valid, t) == IF valid THEN Checks(t) ELSE NoJob

\* "-" empties a daily query, a long one is refused.
SavesQuery(b, t) ==
  IF t = Bad THEN NoJob ELSE [pc |-> "jql", block |-> b, text |-> IF t = Dash THEN Nothing ELSE t]

\* What a handler does with text t at stored step s.  A step without a case
\* here is a keyboard's: the text is ignored.  A text that is no key is refused,
\* which asks for the key again.
AnswerTo(s, t) ==
  CASE s.name \in {"lookup", "comment_text"} -> Clears(NoJob)
    [] s.name = "comment_key" -> IF IsKey(t) THEN Asks(St("comment_text", "", t, {})) ELSE NoJob
    [] s.name = "sub_issue" -> Clears(KeyedSub(IsKey(t), t))
    [] s.name = "sub_project" -> Clears(KeyedSub(IsProject(t), t))
    [] s.name = "defaults_project" -> Clears(
         IF t = Dash THEN PutDefaults(Nothing, Nothing, NoJob)
         ELSE IF IsProject(t) THEN PutDefaults(t, Nothing, Does("types", t)) ELSE NoJob)
    [] s.name = "defaults_board" -> Clears(Does("default", s.arg))
    [] s.name = "sprint_project" -> Clears(IF IsProject(t) THEN Does("full", t) ELSE NoJob)
    [] s.name = "sprint_board" -> Clears(Does("match", s.arg))
    [] s.name = "sprint_sprint" -> Clears(Does("hinted", s.arg))
    [] s.name = "project" -> Clears(IF IsProject(t) THEN [pc |-> "picker", kind |-> s.of, project |-> t] ELSE NoJob)
    [] s.name = "jql" -> Clears(SavesQuery(s.of, t))
    [] OTHER -> NoJob

\* Without a step the text is a link or an issue to create, which is answered.
Text(w) ==
  /\ At(w, "text")
  /\ \E s \in {conv, NoStep} :
       /\ Gets(s)
       /\ IF s = NoStep THEN Says(w) ELSE Goes(w, AnswerTo(s, job[w].arg))
  /\ UNCHANGED <<chatVars, prefVars, subVars, inputs>>

-----------------------------------------------------------------------------
(* preferences-svc                                                         *)

\* The fields of the settings are written in one update of the document.
Stored(puts) == [s \in Settings |-> IF s \in DOMAIN puts THEN puts[s] ELSE prefs[s]]

Told(j) == [s \in Settings |-> IF s \in j.says THEN j.puts[s] ELSE told[s]]

\* Settings whose confirmation replaces the keyboard that was pressed; that of
\* the others is a message.
InPlace(j) == j.says \subseteq Kinds \union (Plain \ {"itype"})

Stores(w) ==
  /\ LET j == job[w]
         over == {s \in DOMAIN j.puts \ j.says : j.puts[s] # prefs[s]}
     IN /\ prefs' = Stored(j.puts) /\ told' = Told(j)
        /\ unsure' = (unsure \ j.says) \union (IF w \in mixed THEN over ELSE {})
        /\ Becomes(w, j.then)
        /\ IF InPlace(j) THEN UNCHANGED covered ELSE Covers
  /\ UNCHANGED troubles

\* The call fails before the update or after it.
Fails(w) ==
  /\ Trouble
  /\ LET j == job[w]
     IN /\ prefs' \in {prefs, Stored(j.puts)}
        /\ unsure' = unsure \union DOMAIN j.puts
        /\ told' = IF j.failed = "confirms" THEN Told(j) ELSE told
        /\ Becomes(w, IF j.failed = "tells" THEN NoJob ELSE j.then)
        /\ IF j.failed = "silent" \/ (j.failed = "confirms" /\ InPlace(j)) THEN UNCHANGED covered ELSE Covers

\* The user is found not to be connected.
Unconnected(w) == Trouble /\ Says(w) /\ UNCHANGED prefVars

SetPrefs(w) ==
  /\ At(w, "post")
  /\ Stores(w) \/ Fails(w) \/ Unconnected(w)
  /\ UNCHANGED <<chatVars, subVars, inputs>>

\* Mutant of Queries: the other queries are not carried over.
QueriesOne(b, v) == [x \in Blocks |-> IF x = b THEN v ELSE Nothing]

\* The other queries are written back as they were read.
Queries(b, v) == [x \in Blocks |-> IF x = b THEN v ELSE prefs[x]]

handleDailyJQLSave(w) ==
  /\ At(w, "jql")
  /\ \/ Goes(w, Posts(Queries(job[w].block, job[w].text), {job[w].block}, "tells", NoJob)) /\ UNCHANGED troubles
     \/ Trouble /\ Says(w)
  /\ UNCHANGED <<chatVars, prefVars, subVars, inputs>>

-----------------------------------------------------------------------------
(* Pickers                                                                 *)

\* The user is read; a failed read and a missing connection are alike.
PickerStart(w) ==
  /\ At(w, "start")
  /\ LET k == job[w].arg
         p == prefs["defaults"][1]
     IN \/ p = Nothing /\ Goes(w, Asks(St("project", k, Nothing, {}))) /\ UNCHANGED troubles
        \/ p # Nothing /\ Goes(w, [pc |-> "picker", kind |-> k, project |-> p]) /\ UNCHANGED troubles
        \/ Trouble /\ Says(w)
  /\ UNCHANGED <<chatVars, prefVars, subVars, inputs>>

\* Mutant of Selected: names of other projects stay selected.
SelectedAll(k, p) == prefs[k]

\* Of the saved names those the project has.
Selected(k, p) == prefs[k] \intersect TableOf(p)

\* No names, or an answer that fails: no picker.
showPicker(w) ==
  /\ At(w, "picker")
  /\ LET j == job[w]
     IN \/ Goes(w, Asks(St("select", j.kind, j.project, Selected(j.kind, j.project))))
        \/ Says(w)
  /\ UNCHANGED <<chatVars, prefVars, subVars, inputs, troubles>>

Flip(m, n) == IF n \in m THEN m \ {n} ELSE m \union {n}

\* The number on the button is looked up in the stored picker's table.
ToggleJob(w) ==
  /\ At(w, "toggle")
  /\ LET j == job[w]
     IN \E s \in {conv, NoStep} :
          /\ Gets(s)
          /\ IF IsPicker(s, j.kind) /\ j.index \in DOMAIN NamesOf[s.arg]
             THEN Goes(w, [pc |-> "set", old |-> j.old,
                           step |-> [s EXCEPT !.marks = Flip(@, NamesOf[s.arg][j.index])]])
             ELSE Ends(w)
  /\ UNCHANGED <<chatVars, prefVars, subVars, inputs>>

SaveJob(w) ==
  /\ At(w, "save")
  /\ \E s \in {conv, NoStep} :
       /\ Gets(s)
       /\ Goes(w, IF IsPicker(s, job[w].arg) THEN Clears(Put(s.of, s.marks, "tells", NoJob)) ELSE NoJob)
  /\ UNCHANGED <<chatVars, prefVars, subVars, inputs>>

-----------------------------------------------------------------------------
(* Defaults                                                                *)

\* The project is saved; the issue types are asked where Jira tells them.
defaultsTypes(w) ==
  /\ At(w, "types")
  /\ \/ Goes(w, Asks(St("defaults_issue_type", "", job[w].arg, {})))
     \/ Goes(w, Does("defaults", job[w].arg))
  /\ UNCHANGED <<chatVars, prefVars, subVars, inputs, troubles>>

\* The step stays stored until the boards are asked, if they are.
defaultsTypeChosen(w) ==
  /\ At(w, "type")
  /\ \E s \in {conv, NoStep} :
       /\ Gets(s)
       /\ LET then == Does("defaults", s.arg)
              v == job[w].arg
          IN \/ s.name = "defaults_issue_type" /\ v = Nothing /\ Goes(w, then)
             \/ /\ s.name = "defaults_issue_type" /\ v # Nothing
                /\ Goes(w, Put("itype", v, "silent", then))
             \/ s.name # "defaults_issue_type" /\ Ends(w)
  /\ UNCHANGED <<chatVars, prefVars, subVars, inputs>>

\* A name or a number may be that of several boards.
Several(p) == \E b, c \in BoardsOf[p] : b # c

\* No board or a failure: the project alone stays, and the flow ends with its
\* step stored.  One is saved, several are asked.
defaultsShowBoards(w) ==
  /\ At(w, "defaults")
  /\ LET p == job[w].arg
     IN \/ Says(w)
        \/ \E b \in BoardsOf[p] : BoardsOf[p] = {b} /\ Goes(w, PutDefaults(p, b, NoJob))
        \/ Several(p) /\ Goes(w, Asks(St("defaults_board", "", p, {})))
  /\ UNCHANGED <<chatVars, prefVars, subVars, inputs, troubles>>

\* A text matches no board, one, or several, which are asked again.
handleDefaultsBoard(w) ==
  /\ At(w, "default")
  /\ LET p == job[w].arg
     IN \/ Says(w)
        \/ \E b \in BoardsOf[p] : Goes(w, PutDefaults(p, b, NoJob))
        \/ Several(p) /\ Goes(w, Asks(St("defaults_board", "", p, {})))
  /\ UNCHANGED <<chatVars, prefVars, subVars, inputs, troubles>>

-----------------------------------------------------------------------------
(* Reports: the choices before one                                         *)

\* The default board or project, or a prompt.
SprintStart(w) ==
  /\ At(w, "sprint")
  /\ LET d == prefs["defaults"]
     IN \/ d[1] # Nothing /\ d[2] # Nothing /\ Goes(w, Does("sprints", d[2])) /\ UNCHANGED troubles
        \/ d[1] # Nothing /\ d[2] = Nothing /\ Goes(w, Does("boards", d[1])) /\ UNCHANGED troubles
        \/ d[1] = Nothing /\ Goes(w, Asks(Step("sprint_project"))) /\ UNCHANGED troubles
        \/ Trouble /\ Goes(w, Asks(Step("sprint_project")))
  /\ UNCHANGED <<chatVars, prefVars, subVars, inputs>>

\* With a default project the boards or the periods are shown, as buttons that
\* need no stored step.
KanbanStart(w) ==
  /\ At(w, "kanban")
  /\ \/ prefs["defaults"][1] # Nothing /\ Says(w) /\ UNCHANGED troubles
     \/ prefs["defaults"][1] = Nothing /\ Goes(w, Asks(Step("lookup"))) /\ UNCHANGED troubles
     \/ Trouble /\ Goes(w, Asks(Step("lookup")))
  /\ UNCHANGED <<chatVars, prefVars, subVars, inputs>>

\* A message or a keyboard that needs no step.
Tell(w) ==
  /\ At(w, "tell") /\ Says(w)
  /\ UNCHANGED <<chatVars, prefVars, subVars, inputs, troubles>>

\* A board may be named after the project.
SprintFull(w) ==
  /\ At(w, "full")
  /\ \E pc \in {"boards", "match"} : Goes(w, Does(pc, job[w].arg))
  /\ UNCHANGED <<chatVars, prefVars, subVars, inputs, troubles>>

\* No board or a failure; one board; several.
SprintBoards(w) ==
  /\ At(w, "boards")
  /\ LET p == job[w].arg
     IN \/ Says(w)
        \/ \E b \in BoardsOf[p] : BoardsOf[p] = {b} /\ Goes(w, Does("sprints", b))
        \/ Several(p) /\ Goes(w, Asks(St("sprint_board", "", p, {})))
  /\ UNCHANGED <<chatVars, prefVars, subVars, inputs, troubles>>

\* The boards whose name or number is given, and a sprint's perhaps.
SprintMatch(w) ==
  /\ At(w, "match")
  /\ LET p == job[w].arg
     IN \/ Says(w)
        \/ \E b \in BoardsOf[p], pc \in {"sprints", "hinted"} : Goes(w, Does(pc, b))
        \/ Several(p) /\ Goes(w, Asks(St("sprint_board", "", p, {})))
  /\ UNCHANGED <<chatVars, prefVars, subVars, inputs, troubles>>

\* No sprint or a failure; or a choice.
SprintSprints(w) ==
  /\ At(w, "sprints")
  /\ Says(w) \/ Goes(w, Asks(St("sprint_sprint", "", job[w].arg, {})))
  /\ UNCHANGED <<chatVars, prefVars, subVars, inputs, troubles>>

\* No sprint, a failure or the report of one; several that match.
SprintHinted(w) ==
  /\ At(w, "hinted")
  /\ Says(w) \/ Goes(w, Asks(St("sprint_sprint", "", job[w].arg, {})))
  /\ UNCHANGED <<chatVars, prefVars, subVars, inputs, troubles>>

-----------------------------------------------------------------------------
(* Subscriptions                                                           *)

\* Mutant of Exists: a subscription that exists is not found.
ExistsNot(x) == FALSE

Exists(x) == subs[x] > 0

\* A filter's query is fetched between the check and the creation.
CheckSub(w) ==
  /\ At(w, "check")
  /\ \/ ~Exists(job[w].sub) /\ Goes(w, [job[w] EXCEPT !.pc = "create"]) /\ UNCHANGED troubles
     \/ Exists(job[w].sub) /\ Says(w) /\ UNCHANGED troubles
     \/ Trouble /\ Says(w)
  /\ UNCHANGED <<chatVars, prefVars, subVars, inputs>>

Rivals(w) == {v \in Workers \ {w} : At(v, "create") /\ job[v].sub = job[w].sub}

CreateSub(w) ==
  /\ At(w, "create")
  /\ LET x == job[w].sub
     IN \/ /\ subs' = [subs EXCEPT ![x] = @ + 1]
           /\ raced' = IF Rivals(w) # {} THEN raced \union {x} ELSE raced
           /\ UNCHANGED troubles
        \/ Trouble /\ UNCHANGED subVars
  /\ Says(w)
  /\ UNCHANGED <<chatVars, prefVars, inputs>>

DeleteByChat(w) ==
  /\ At(w, "unwatch")
  /\ \/ subs' = [x \in Subs |-> 0] /\ UNCHANGED troubles
     \/ Trouble /\ UNCHANGED subs
  /\ Says(w)
  /\ UNCHANGED <<chatVars, prefVars, raced, inputs>>

-----------------------------------------------------------------------------
Buttons(w) ==
  \/ handleActionCallback(w) \/ handleIssueAction(w) \/ handleMenuCallback(w) \/ handleKeyboard(w)
  \/ handlePickerStart(w) \/ handleToggle(w) \/ handleSave(w) \/ handleClear(w)
  \/ handleDailyJQLReset(w) \/ handleFieldSelect(w) \/ handleLangCallback(w) \/ handleDefaultsIssueType(w)
  \/ handleDefaultsBoardCallback(w) \/ handleSprintCallback(w) \/ handleKanbanCallback(w)
  \/ handleSubCallback(w) \/ handleFilterCallback(w)

\* Commands, which have buttons as well.  The others are handleKeyboard's, or
\* belong to other modules.
Commands(w) == handleSprint(w) \/ handleKanban(w) \/ handleUnwatch(w)

Inputs(w) == Buttons(w) \/ Commands(w) \/ handleTextInput(w)

Handlers(w) ==
  \/ Set(w) \/ Show(w) \/ Clear(w) \/ Text(w) \/ SetPrefs(w) \/ handleDailyJQLSave(w)
  \/ PickerStart(w) \/ showPicker(w) \/ ToggleJob(w) \/ SaveJob(w)
  \/ defaultsTypes(w) \/ defaultsTypeChosen(w) \/ defaultsShowBoards(w) \/ handleDefaultsBoard(w)
  \/ SprintStart(w) \/ KanbanStart(w) \/ Tell(w) \/ SprintFull(w) \/ SprintBoards(w) \/ SprintMatch(w)
  \/ SprintSprints(w) \/ SprintHinted(w)
  \/ CheckSub(w) \/ CreateSub(w) \/ DeleteByChat(w)

Next == (\E w \in Workers : Inputs(w) \/ Handlers(w)) \/ Expire \/ Crash

Spec == Init /\ [][Next]_vars

-----------------------------------------------------------------------------
(* Properties                                                              *)

\* Between updates the stored step is that of the last prompt or keyboard with
\* a step, with the marks the keyboard shows, or none - unless handlers
\* overlapped, an earlier picker was pressed or the store failed since they last
\* agreed (states.Set and sendPrompt, handleTextInput): a text is never taken as
\* the answer to an earlier prompt, nor to one that was cancelled.  It may answer
\* a prompt that later messages have covered: see TextAnswersWhatIsShown.
StepIsAsked == Busy = {} => conv \in {NoStep, asked} \/ disorder

\* Nothing was said in the chat after the prompt whose step is stored: a text is
\* taken as the answer to what the user sees.  The code breaks it: a keyboard
\* without a step leaves an earlier step stored (handleKanbanFull,
\* handleAssigneeFieldStart), and the flow of the defaults ends without clearing
\* its own (defaultsShowBoards).
TextAnswersWhatIsShown == Busy = {} => conv = NoStep \/ (conv = asked /\ ~covered) \/ disorder

\* A setting the chat confirmed is the one that is stored, unless its own
\* write failed or a save of another daily query, which had read the user
\* before and did not run alone, wrote it back (handleDailyJQLSave).
SettingsAsTold == \A s \in Settings : prefs[s] = told[s] \/ s \in unsure

\* Two subscriptions alike need two handlers between check and creation at
\* the same time (createSimpleSubscription, createKeyedSubscription).
DuplicateNeedsRace == \A x \in Subs : subs[x] > 1 => x \in raced
=============================================================================
