----------------------------- MODULE CreateIssue -----------------------------
(***************************************************************************)
(* The conversations of one user in one chat that create Jira issues: the  *)
(* /create wizard, its templates, and /createfast.  telegram-svc starts a  *)
(* goroutine per update, so handlers of one user overlap: each reads the   *)
(* stored state, calls Jira and writes the state back.  The store fails    *)
(* without a sign: a read that fails looks like no state, a write or a     *)
(* removal that fails is logged and the handler goes on.  Every keyboard   *)
(* ever sent stays in the chat, those of earlier conversations too, so any *)
(* button may be tapped out of turn.                                       *)
(*                                                                         *)
(* A draft is the data map of the stored state, reduced to the keys that   *)
(* decide what is asked next and what is sent to Jira.  Texts are valid or *)
(* refused, priorities and assignees are values nobody looks at, and the   *)
(* answers of Jira are choices.  The custom fields of an issue type are    *)
(* constants; project and type travel together.                            *)
(***************************************************************************)
EXTENDS Naturals, Sequences, FiniteSets

CONSTANTS
  Handlers,      \* goroutines that serve updates of this user
  Order,         \* the custom fields asked for, in order (cf_order)
  TemplateField, \* the Templates field, asked before the summary
  Required,      \* those of Order that Jira requires (cfreq)
  Selects,       \* the fields answered by a button
  IssueTypes,    \* what Jira says of each type: a body, an epic, a Templates field,
                 \* and whether it requires a field the wizard does not ask for
  NoField,
  NilData,       \* a nil map
  MaxTemplates,  \* MaxTemplatesPerUser
  MaxDrafts,     \* bound: drafts begun
  MaxIssues,     \* bound: issues of one draft
  MaxDisorder    \* bound: inputs out of turn, expiries, restarts and failures of
                 \* the state store together

Fields == {Order[i] : i \in DOMAIN Order}
ASSUME FieldsAssumption == TemplateField \notin Fields /\ NoField \notin Fields \union {TemplateField}
ASSUME RequiredAssumption == Required \subseteq Fields
ASSUME SelectsAssumption == Selects \subseteq Fields
ASSUME TypesAssumption == IssueTypes \subseteq [body : {"", "default"}, epic : BOOLEAN, tplf : BOOLEAN,
                                             unasked : BOOLEAN]
ASSUME OrderAssumption == Order # <<>> /\ Order \in Seq(Fields)
ASSUME BoundsAssumption == MaxTemplates \in Nat /\ MaxDrafts \in Nat /\ MaxIssues \in Nat /\ MaxDisorder \in Nat

Answers == Fields \union {TemplateField, NoField}
Descs == {"", "typed", "default", "sample"}

\* The data map.  d numbers the draft it belongs to, 0 for an empty map.
Drafts == [
  d : 0 .. MaxDrafts, meta : BOOLEAN, summary : BOOLEAN, desc : Descs, body : Descs,
  raw : BOOLEAN, adf : BOOLEAN, unasked : BOOLEAN, epicReq : BOOLEAN, epic : BOOLEAN, retry : BOOLEAN,
  filled : SUBSET Answers, idx : 0 .. Len(Order), cur : Answers]

ASSUME NilAssumption == NilData \notin Drafts

Empty == [
  d |-> 0, meta |-> FALSE, summary |-> FALSE, desc |-> "", body |-> "",
  raw |-> FALSE, adf |-> FALSE, unasked |-> FALSE, epicReq |-> FALSE, epic |-> FALSE, retry |-> FALSE,
  filled |-> {}, idx |-> 0, cur |-> NoField]

Steps == {"", "create_project", "create_type_pending", "create_tplf_pending",
  "create_summary", "create_desc_pending", "create_description",
  "create_priority_pending", "create_assignee_pending", "create_assignee_search",
  "create_epic_pending", "create_epic_key", "create_cf_pending", "create_custom_field", "create_cf_select",
  "create_confirm_pending", "create_template_name",
  "createfast_confirm_pending", "createfast_epic_pending"}

\* Inputs: a button is an action and the field it is about.
B(k) == <<k, NoField>>
Plain == {"tmpl", "blank", "type", "keep", "edit", "nodesc", "pri", "asgn", "search",
  "epic", "manual", "tplf", "notplf", "confirm", "save", "cancel", "del",
  "go", "fast_cancel", "fast_epic", "fast_leave"}
Buttons == (Plain \X {NoField}) \union ({"opt", "skip"} \X Answers)
Texts == {"project", "summary", "description", "person", "value", "key", "name"}
Commands == {"create", "templates", "createfast", "quick"}
Idle == "idle"

VARIABLES
  conv,      \* the stored state: a step and its data
  templates, \* the answers in the user's saved templates; a saved description
             \* is overwritten after the summary
  fresh,     \* buttons of the last message, until something is answered
  job,       \* what each handler works on
  issues,    \* issues Jira created per draft
  drafts,    \* drafts begun so far
  \* history
  disorder,  \* inputs out of turn, expiries, restarts and store failures so far
  overlapped, \* drafts that two handlers held at once
  unsure,    \* drafts with an issue whose creation was not answered
  kept,      \* drafts whose state could not be removed
  panicked   \* a handler wrote to a nil map

marks == <<overlapped, unsure, panicked>>
hist == <<disorder, overlapped, unsure, kept, panicked>>
vars == <<conv, templates, fresh, job, issues, drafts,
          disorder, overlapped, unsure, kept, panicked>>

NoConv == [step |-> "", data |-> NilData]
NoJob == [on |-> B("idle"), pc |-> Idle, data |-> NilData]
PCs == {Idle, "routed", "run", "send", "files", "created", "failed", "epic"}

Inputs == Buttons \union ((Texts \union Commands \union {"idle", "types", "preview"}) \X {NoField})
Maps == Drafts \union {NilData}

TypeOK ==
  /\ conv \in [step : Steps, data : Maps]
  /\ templates \subseteq SUBSET Answers
  /\ fresh \subseteq Buttons
  /\ job \in [Handlers -> [on : Inputs, pc : PCs, data : Maps]]
  /\ issues \in [1 .. MaxDrafts -> 0 .. MaxIssues] /\ drafts \in 0 .. MaxDrafts
  /\ disorder \in 0 .. MaxDisorder
  /\ overlapped \subseteq 1 .. MaxDrafts /\ unsure \subseteq 1 .. MaxDrafts
  /\ kept \subseteq 1 .. MaxDrafts /\ panicked \in BOOLEAN

Init ==
  /\ conv = NoConv /\ templates = {} /\ fresh = {}
  /\ job = [h \in Handlers |-> NoJob]
  /\ issues = [d \in 1 .. MaxDrafts |-> 0] /\ drafts = 0
  /\ disorder = 0 /\ overlapped = {} /\ unsure = {} /\ kept = {} /\ panicked = FALSE

-----------------------------------------------------------------------------
(* Updates arrive                                                          *)

Held(h) == {job[g].data.d : g \in {f \in Handlers \ {h} : job[f].data # NilData}}
Busy == \E h \in Handlers : job[h].pc # Idle
DraftOf(x) == IF x = NilData THEN {} ELSE {x.d} \ {0}

\* What Get returns.  Mongo stores an empty map as no map at all.
Reads == IF conv.data = Empty THEN {Empty, NilData} ELSE {conv.data}

\* One thing more goes wrong.
Disturb == disorder < MaxDisorder /\ disorder' = disorder + 1

\* Two handlers of one draft at once; an input is out of turn when a handler
\* is still busy or when it does not answer the last message.
Free(h, inTurn) ==
  /\ ~panicked /\ job[h].pc = Idle
  /\ (inTurn /\ ~Busy) \/ disorder < MaxDisorder

Begin(h, on, pc, x, inTurn) ==
  /\ disorder' = IF inTurn /\ ~Busy THEN disorder ELSE disorder + 1
  /\ overlapped' = overlapped \union (DraftOf(x) \intersect Held(h))
  /\ job' = [job EXCEPT ![h] = [on |-> on, pc |-> pc, data |-> x]]
  /\ fresh' = {}
  /\ UNCHANGED <<conv, templates, issues, drafts, unsure, kept, panicked>>

\* A button of the fast way answers only the step it was sent with.
FastButtons == {"go", "fast_cancel", "fast_epic", "fast_leave"}
Heard(b) ==
  /\ b[1] \in {"go", "fast_cancel"} => conv.step = "createfast_confirm_pending"
  /\ b[1] \in {"fast_epic", "fast_leave"} => conv.step = "createfast_epic_pending"

\* The second alternative is a read that fails.
Tap(h, b) ==
  \/ Free(h, b \in fresh) /\ Heard(b) /\ \E x \in Reads : Begin(h, b, "run", x, b \in fresh)
  \/ b[1] \notin FastButtons /\ Free(h, FALSE) /\ Begin(h, b, "run", NilData, FALSE)

\* The text steps of the wizard; with no step a text begins a fast draft.
Expected ==
  CASE conv.step = "" -> "createfast"
    [] conv.step = "create_project" -> "project"
    [] conv.step = "create_summary" -> "summary"
    [] conv.step = "create_description" -> "description"
    [] conv.step = "create_assignee_search" -> "person"
    [] conv.step = "create_custom_field" -> "value"
    [] conv.step = "create_epic_key" -> "key"
    [] conv.step = "create_template_name" -> "name"
    [] OTHER -> "none"

\* handleTextInput routes a text by the step it reads; the handler of the
\* step reads the state once more.  After a read that fails a text begins a
\* fast draft.
Text(h) ==
  \/ /\ Free(h, TRUE) /\ Expected # "none"
     /\ \E x \in Reads :
          Begin(h, B(Expected), IF Expected = "createfast" THEN "run" ELSE "routed", x, TRUE)
  \/ Free(h, FALSE) /\ Begin(h, B("createfast"), "run", NilData, FALSE)

Command(h, c) == Free(h, conv = NoConv) /\ Begin(h, B(c), "run", NilData, conv = NoConv)

\* The second read may fail after the first, which chose the handler, did not.
ReadAgain(h) ==
  /\ job[h].pc = "routed"
  /\ \E x \in Reads \union {NilData} :
       /\ job' = [job EXCEPT ![h].pc = "run", ![h].data = x]
       /\ overlapped' = overlapped \union (DraftOf(x) \intersect Held(h))
       /\ \/ x \in Reads /\ UNCHANGED disorder
          \/ x \notin Reads /\ Disturb
  /\ UNCHANGED <<conv, templates, fresh, issues, drafts, unsure, kept, panicked>>

\* The state expires fifteen minutes after the last write.
Expire ==
  /\ conv # NoConv /\ Disturb
  /\ conv' = NoConv
  /\ UNCHANGED <<templates, fresh, job, issues, drafts, overlapped, unsure, kept, panicked>>

\* The process is gone with its goroutines; the state stays in Mongo.
Restart ==
  /\ Disturb
  /\ job' = [h \in Handlers |-> NoJob]
  /\ unsure' = unsure \union
       UNION {DraftOf(job[h].data) : h \in {g \in Handlers : job[g].pc = "created"}}
  /\ UNCHANGED <<conv, templates, fresh, issues, drafts, overlapped, kept, panicked>>

-----------------------------------------------------------------------------
(* Steps a handler ends with                                               *)

Running(h, k) == job[h].pc = "run" /\ job[h].on[1] = k
Data(h) == IF job[h].data = NilData THEN Empty ELSE job[h].data
Done(h) == job' = [job EXCEPT ![h] = NoJob]

Show(kb) == fresh' = kb

\* Set, which returns nothing: when the last write of a handler fails, the
\* state is the one before the handler or one of its earlier writes.
Stored(last, earlier) ==
  \/ conv' = last /\ UNCHANGED disorder
  \/ conv' \in earlier \union {conv} /\ Disturb

\* Clear, which returns nothing either.
Cleared(earlier) ==
  \/ conv' = NoConv /\ UNCHANGED <<disorder, kept>>
  \/ /\ conv' \in earlier \union {conv} /\ Disturb
     /\ kept' = kept \union DraftOf(conv'.data)

\* Set the state, send a message with buttons, return.
ReplyAfter(h, earlier, step, x, kb) ==
  /\ Stored([step |-> step, data |-> x], earlier)
  /\ Show(kb)
  /\ Done(h)
  /\ UNCHANGED <<templates, issues, drafts, kept, marks>>

Reply(h, step, x, kb) == ReplyAfter(h, {}, step, x, kb)

\* An error message; the state stays.
Fail(h) == Done(h) /\ UNCHANGED <<conv, templates, fresh, issues, drafts, hist>>

ForgetAfter(h, earlier) ==
  /\ Cleared(earlier)
  /\ Done(h)
  /\ UNCHANGED <<templates, fresh, issues, drafts, marks>>

Forget(h) == ForgetAfter(h, {})

Prompt == {B("cancel")}

-----------------------------------------------------------------------------
(* What is asked next                                                      *)

NewDraft == [Empty EXCEPT !.d = drafts + 1]

\* createShowIssueTypes: the data map starts anew.
AskType(h) ==
  \/ /\ drafts < MaxDrafts
     /\ drafts' = drafts + 1
     /\ Stored([step |-> "create_type_pending", data |-> NewDraft], {})
     /\ Show({B("type"), B("cancel")})
     /\ Done(h)
     /\ UNCHANGED <<templates, issues, kept, marks>>
  \/ Fail(h)

AskProject(h) == Reply(h, "create_project", NilData, Prompt) \/ AskType(h)

\* Mutant of AskSummary: the state is set without the data.
AskSummaryBare(h, x) == Reply(h, "create_summary", NilData, Prompt)

AskSummary(h, x) == Reply(h, "create_summary", x, Prompt)

\* The handler stored the description before it asked Jira for priorities.
AskPriority(h, x) ==
  \/ Reply(h, "create_priority_pending", x, {B("pri")})
  \/ ReplyAfter(h, {[step |-> "create_priority_pending", data |-> x]},
                "create_assignee_pending", x, {B("asgn"), B("search")})

\* The answers were stored before the next field is looked for, with the step
\* create_cf_pending, or create_cf_next, which nothing tells from it.
Between(x) == {[step |-> "create_cf_pending", data |-> x]}

\* The data confirmed is the data stored.
Preview(h, x) ==
  ReplyAfter(h, Between(x), "create_confirm_pending", x, {B("confirm"), B("save"), B("cancel")})

\* Mutant of FieldKeys: every field may be skipped.
FieldKeysAll(f) == {<<"skip", f>>} \union (IF f \in Selects THEN {<<"opt", f>>} ELSE Prompt)

FieldKeys(f) ==
  (IF f \in Selects THEN {<<"opt", f>>} ELSE Prompt) \union
  (IF f \in Required THEN {} ELSE {<<"skip", f>>})

\* An empty cf_order splits into one field without a name.
OrderOf(x) == IF x.meta THEN Order ELSE <<NoField>>

\* advanceToNextCustomField: the first unfilled field from cf_idx on.
NextField(h, x) ==
  LET open == {i \in DOMAIN OrderOf(x) : i > x.idx /\ OrderOf(x)[i] \notin x.filled}
  IN \/ open = {} /\ Preview(h, x)
     \/ \E i \in open :
          /\ \A j \in open : i <= j
          /\ LET f == OrderOf(x)[i] IN
             ReplyAfter(h, Between(x),
                        IF f \in Selects THEN "create_cf_select" ELSE "create_custom_field",
                        [x EXCEPT !.idx = i, !.cur = f], FieldKeys(f))

StartFields(h, x) == IF x.meta THEN NextField(h, [x EXCEPT !.idx = 0]) ELSE Preview(h, x)

\* The picker has no skip button: it is shown only when an epic is required.
AskEpic(h, x) ==
  \/ Reply(h, "create_epic_pending", x, {B("epic"), B("manual")})
  \/ Reply(h, "create_epic_key", x, Prompt)
  \/ Fail(h)

MaybeAskEpic(h, x) == IF x.epicReq THEN AskEpic(h, x) ELSE StartFields(h, x)

AskTemplate(h, x) == Reply(h, "create_tplf_pending", x, {B("tplf"), B("notplf")})

\* createFetchFieldsAndAskSummary: what Jira says of the issue type.
FetchFields(h, x) ==
  \/ \E t \in IssueTypes :
       LET y == [x EXCEPT !.meta = TRUE, !.body = t.body, !.raw = (t.body = "default"),
                          !.unasked = t.unasked, !.epicReq = @ \/ t.epic, !.idx = 0]
       IN IF t.tplf /\ TemplateField \notin x.filled
          THEN AskTemplate(h, y)
          ELSE AskSummary(h, y)
  \/ Fail(h)

-----------------------------------------------------------------------------
(* Commands, texts and buttons of the wizard                               *)

\* /create: templates to choose from, or the project.
Create(h) ==
  /\ Running(h, "create")
  /\ IF templates # {}
     THEN /\ Show({B("blank"), B("tmpl"), B("cancel")})
          /\ Done(h)
          /\ UNCHANGED <<conv, templates, issues, drafts, hist>>
     ELSE AskProject(h)

Blank(h) == Running(h, "blank") /\ AskProject(h)

\* The state is gone before Jira is asked for the types.
Project(h) ==
  /\ Running(h, "project")
  /\ \/ Fail(h)
     \/ /\ Cleared({})
        /\ job' = [job EXCEPT ![h].on = B("types")]
        /\ UNCHANGED <<templates, fresh, issues, drafts, marks>>

Types(h) == Running(h, "types") /\ AskType(h)

\* A template fills the data and stands for the choice of a type.
FromTemplate(h) ==
  /\ Running(h, "tmpl")
  /\ \/ Fail(h)
     \/ \E t \in templates :
          /\ drafts < MaxDrafts
          /\ drafts' = drafts + 1
          /\ job' = [job EXCEPT ![h].on = B("type"),
                                ![h].data = [NewDraft EXCEPT !.filled = t]]
          /\ UNCHANGED <<conv, templates, fresh, issues, hist>>

ListTemplates(h) ==
  /\ Running(h, "templates")
  /\ Show(IF templates = {} THEN {} ELSE {B("del")})
  /\ Done(h)
  /\ UNCHANGED <<conv, templates, issues, drafts, hist>>

DeleteTemplate(h) ==
  /\ Running(h, "del")
  /\ templates' \in {templates \ {t} : t \in templates} \union {templates}
  /\ Done(h)
  /\ UNCHANGED <<conv, fresh, issues, drafts, hist>>

Type(h) == Running(h, "type") /\ FetchFields(h, Data(h))

\* A template's body is that of a recent issue that used it, if one is found.
Samples(x) == {x.body, "sample"}

PickTemplate(h) ==
  LET x == Data(h) IN
  \/ /\ Running(h, "tplf")
     /\ \E body \in Samples(x) :
          AskSummary(h, IF x.meta THEN [x EXCEPT !.filled = @ \union {TemplateField}, !.body = body]
                        ELSE x)
  \/ Running(h, "notplf") /\ AskSummary(h, x)

\* The handlers of texts write into the map they read.
Panic(h) ==
  /\ job[h].pc = "run" /\ job[h].data = NilData
  /\ job[h].on[1] \in {"summary", "description", "value", "key"}
  /\ panicked' = TRUE
  /\ job' = [g \in Handlers |-> NoJob]
  /\ UNCHANGED <<conv, templates, fresh, issues, drafts, disorder, overlapped, unsure, kept>>

Writes(h, k) == Running(h, k) /\ job[h].data # NilData

Summary(h) ==
  /\ Writes(h, "summary")
  /\ LET x == [Data(h) EXCEPT !.summary = TRUE] IN
     \/ Fail(h)
     \/ x.body # "" /\ Reply(h, "create_desc_pending", x, {B("keep"), B("edit"), B("nodesc")})
     \/ /\ x.body = ""
        /\ ReplyAfter(h, {[step |-> "create_desc_pending", data |-> x]},
                      "create_description", [x EXCEPT !.desc = ""], Prompt)

Description(h) ==
  /\ Writes(h, "description")
  /\ Fail(h) \/ AskPriority(h, [Data(h) EXCEPT !.desc = "typed"])

DescButtons(h) ==
  \/ Running(h, "keep") /\ AskPriority(h, [Data(h) EXCEPT !.desc = Data(h).body, !.adf = TRUE])
  \/ Running(h, "edit") /\ Reply(h, "create_description", Data(h), Prompt)
  \/ Running(h, "nodesc") /\ AskPriority(h, [Data(h) EXCEPT !.desc = ""])

Priority(h) ==
  Running(h, "pri") /\ Reply(h, "create_assignee_pending", Data(h), {B("asgn"), B("search")})

\* Assign to me, to somebody found, or skip.
Assign(h) == Running(h, "asgn") /\ MaybeAskEpic(h, Data(h))
SearchAssignee(h) == Running(h, "search") /\ Reply(h, "create_assignee_search", Data(h), Prompt)
FindAssignee(h) ==
  /\ Running(h, "person")
  /\ Fail(h) \/ Reply(h, "create_assignee_pending", job[h].data, {B("asgn")})

Value(h) ==
  /\ Writes(h, "value")
  /\ Fail(h) \/ NextField(h, [Data(h) EXCEPT !.filled = @ \union {Data(h).cur}])

\* The option is looked up in the state: none of another draft's.
Option(h) ==
  /\ Running(h, "opt")
  /\ LET f == job[h].on[2] IN
     IF Data(h).meta /\ \E i \in 1 .. Data(h).idx : i \in DOMAIN Order /\ Order[i] = f
     THEN NextField(h, [Data(h) EXCEPT !.filled = @ \union {f}])
     ELSE Fail(h)

\* Mutant of SkipField: the tap moves the index as well.
SkipFieldTwice(h) == Running(h, "skip") /\ NextField(h, [Data(h) EXCEPT !.idx = @ + 1])

SkipField(h) == Running(h, "skip") /\ NextField(h, Data(h))

-----------------------------------------------------------------------------
(* Sending an issue to Jira                                                *)

Goto(h, pc, x) == job' = [job EXCEPT ![h].pc = pc, ![h].data = x]

\* A first refusal that asks for an epic resumes here once one is chosen.
EpicChosen(h, x) ==
  IF x.retry
  THEN /\ Goto(h, "send", [x EXCEPT !.retry = FALSE])
       /\ UNCHANGED <<conv, templates, fresh, issues, drafts, hist>>
  ELSE StartFields(h, x)

Epic(h) ==
  \/ Running(h, "epic") /\ EpicChosen(h, [Data(h) EXCEPT !.epic = TRUE])
  \/ Writes(h, "key") /\ (Fail(h) \/ EpicChosen(h, [Data(h) EXCEPT !.epic = TRUE]))
EpicManual(h) == Running(h, "manual") /\ Reply(h, "create_epic_key", Data(h), Prompt)

Confirm(h) ==
  /\ Running(h, "confirm")
  /\ Goto(h, "send", Data(h))
  /\ UNCHANGED <<conv, templates, fresh, issues, drafts, hist>>

\* buildCreatePayload: the description Jira gets.
Sent(x) == IF x.adf THEN (IF x.desc # "" /\ x.raw THEN "default" ELSE "") ELSE x.desc

\* buildCreateConfirmation: the description the user is shown.
Shown(x) == x.desc

\* Jira takes nothing without a type, a summary and the required fields, or
\* with an unnamed field.  filterSupportedCustomFields leaves out fields of
\* other types and most system fields, whether they are required or not.
Acceptable(x) ==
  /\ x.d # 0 /\ x.meta /\ x.summary /\ ~x.unasked
  /\ NoField \notin x.filled /\ Required \subseteq x.filled

\* CreateIssue is answered, refused, or done without an answer.
SendIssue(h) ==
  /\ job[h].pc = "send"
  /\ LET x == job[h].data IN
     \/ /\ Acceptable(x) /\ issues[x.d] < MaxIssues
        /\ issues' = [issues EXCEPT ![x.d] = @ + 1]
        /\ \/ Goto(h, "created", x) /\ UNCHANGED unsure
           \/ Goto(h, "failed", x) /\ unsure' = unsure \union {x.d}
     \/ /\ Goto(h, "failed", x) \/ (~x.epic /\ Goto(h, "epic", x))
        /\ UNCHANGED <<issues, unsure>>
  /\ UNCHANGED <<conv, templates, fresh, drafts, disorder, overlapped, kept, panicked>>

IsFast(h) == job[h].on[1] \in {"go", "fast_epic", "quick"}

\* Mutant of Created: the state is left.
CreatedKept(h) == job[h].pc = "created" /\ Fail(h)

\* The wizard clears the state once the issue exists; the fast way did before,
\* and has files to upload.
Created(h) ==
  /\ job[h].pc = "created"
  /\ IF IsFast(h)
     THEN Goto(h, "files", job[h].data) /\ UNCHANGED <<conv, templates, fresh, issues, drafts, hist>>
     ELSE Forget(h)

\* A file that cannot be attached is reported; the issue stays.
Upload(h) == job[h].pc = "files" /\ Fail(h)

Refused(h) == job[h].pc = "failed" /\ Fail(h)

\* The draft is put aside before the epics are searched for; a failed search
\* removes it again.
AskFastEpic(h, x) ==
  \/ Reply(h, "createfast_epic_pending", x, {B("fast_epic"), B("fast_leave")})
  \/ ForgetAfter(h, {[step |-> "createfast_epic_pending", data |-> x]})

\* Jira wants an epic: ask for one and try again.
EpicRefused(h) ==
  /\ job[h].pc = "epic"
  /\ LET x == [job[h].data EXCEPT !.epicReq = TRUE] IN
     IF job[h].on[1] = "quick" THEN Fail(h)
     ELSE IF IsFast(h)
     THEN AskFastEpic(h, x)
     ELSE AskEpic(h, [x EXCEPT !.retry = TRUE])

Cancel(h) == Running(h, "cancel") /\ Forget(h)

-----------------------------------------------------------------------------
(* Templates                                                               *)

SaveTemplate(h) == Running(h, "save") /\ Reply(h, "create_template_name", Data(h), Prompt)

\* The limit is checked on a count; what is saved is the answers.
TemplateName(h) ==
  /\ Running(h, "name")
  /\ \/ Fail(h)
     \/ /\ Cardinality(templates) < MaxTemplates
        /\ templates' = templates \union {Data(h).filled}
        /\ Cleared({})
        /\ Done(h)
        /\ UNCHANGED <<fresh, issues, drafts, marks>>

-----------------------------------------------------------------------------
(* /createfast and /create with arguments                                  *)

\* The first allowed value is taken for a required select; epics are left out.
FastDefaults == Required \intersect Selects

\* Jira requires a field the wizard does not ask for.
Unasked == {t.unasked : t \in IssueTypes}

FastPreview(h, x) == Reply(h, "createfast_confirm_pending", x, {B("go"), B("fast_cancel")})

\* Project and issue type come from the defaults of the user.
CreateFast(h) ==
  /\ Running(h, "createfast")
  /\ \/ Fail(h)
     \/ /\ drafts < MaxDrafts
        /\ drafts' = drafts + 1
        /\ \E u \in Unasked \union {FALSE} :
             job' = [job EXCEPT ![h].on = B("preview"),
                       ![h].data = [NewDraft EXCEPT !.meta = TRUE, !.summary = TRUE, !.unasked = u,
                                                    !.filled = FastDefaults]]
        /\ UNCHANGED <<conv, templates, fresh, issues, hist>>

ShowFast(h) == Running(h, "preview") /\ FastPreview(h, Data(h))

\* The state is cleared before Jira is asked.
SendFast(h, x) ==
  \/ /\ Cleared({})
     /\ Goto(h, "send", x)
     /\ UNCHANGED <<templates, fresh, issues, drafts, marks>>
  \/ Forget(h)

FastGo(h) == Running(h, "go") /\ SendFast(h, Data(h))
FastEpic(h) == Running(h, "fast_epic") /\ SendFast(h, [Data(h) EXCEPT !.epic = TRUE])
FastCancel(h) == (Running(h, "fast_cancel") \/ Running(h, "fast_leave")) /\ Forget(h)

\* /create PROJ Type | Summary: no conversation at all.
Quick(h) ==
  /\ Running(h, "quick")
  /\ \/ Fail(h)
     \/ /\ drafts < MaxDrafts
        /\ drafts' = drafts + 1
        /\ \E u \in Unasked :
             Goto(h, "send", [NewDraft EXCEPT !.meta = TRUE, !.summary = TRUE, !.unasked = u])
        /\ UNCHANGED <<conv, templates, fresh, issues, hist>>
-----------------------------------------------------------------------------

Ask(h) ==
  \/ Create(h) \/ Blank(h) \/ Project(h) \/ Types(h)
  \/ FromTemplate(h) \/ ListTemplates(h) \/ DeleteTemplate(h) \/ Type(h) \/ PickTemplate(h) \/ Panic(h)
  \/ Summary(h) \/ Description(h) \/ DescButtons(h) \/ Priority(h)
  \/ Assign(h) \/ SearchAssignee(h) \/ FindAssignee(h)
  \/ Value(h) \/ Option(h) \/ SkipField(h) \/ Epic(h) \/ EpicManual(h)
  \/ Confirm(h) \/ Cancel(h) \/ SaveTemplate(h) \/ TemplateName(h)
  \/ CreateFast(h) \/ ShowFast(h) \/ FastGo(h) \/ FastEpic(h) \/ FastCancel(h) \/ Quick(h)

Send(h) ==
  \/ SendIssue(h) \/ Created(h) \/ Upload(h) \/ Refused(h) \/ EpicRefused(h)

Work(h) == ReadAgain(h) \/ (job[h].pc = "run" /\ Ask(h)) \/ Send(h)

Next ==
  \/ \E h \in Handlers :
       \/ \E b \in Buttons : Tap(h, b)
       \/ Text(h)
       \/ \E c \in Commands : Command(h, c)
       \/ Work(h)
  \/ Expire \/ Restart

Spec == Init /\ [][Next]_vars

-----------------------------------------------------------------------------
(* Properties                                                              *)

Orderly == disorder = 0

\* Whoever answers one question after the other is offered to confirm an
\* issue only when the required ones among the fields of cf_order, and a
\* required epic, are given: advanceToNextCustomField and the pickers leave no
\* way around one.
RequiredAnswered ==
  Orderly /\ conv.step = "create_confirm_pending" =>
    /\ Required \subseteq conv.data.filled
    /\ conv.data.epicReq => conv.data.epic
    /\ conv.data.summary

\* What is offered for confirmation has all that Jira requires.  Not so for
\* the fields that filterSupportedCustomFields leaves out.
ConfirmedIsAcceptable ==
  Orderly /\ conv.step = "create_confirm_pending" => Acceptable(conv.data)

\* A draft becomes two issues only when two handlers held it at once, when
\* Jira made the first without the bot learning of it, or when the state could
\* not be removed.
DuplicateNeedsOverlap ==
  \A d \in 1 .. MaxDrafts : issues[d] > 1 => d \in overlapped \union unsure \union kept

\* handleCreateConfirm clears the state of an issue it created, so that it is
\* created once.  Not so when the removal fails, which nobody is told.
ClearedIsGone ==
  \A d \in 1 .. MaxDrafts : issues[d] > 1 => d \in overlapped \union unsure

\* telegram-svc dies of a write to a nil map only after an answer out of turn,
\* a state that expired under a handler, or a read or write of the state that
\* failed.
PanicNeedsDisorder == panicked => ~Orderly

\* What the user confirmed is what Jira gets: the description kept from a
\* template is part of the issue (handleCreateCallback, buildCreatePayload).
ConfirmedIsSent ==
  \A h \in Handlers :
    Orderly /\ job[h].pc = "created" => Sent(job[h].data) = Shown(job[h].data)
=============================================================================
