------------------------- MODULE CreateIssueProofs -------------------------
(***************************************************************************)
(* The properties of CreateIssue hold for every set of handlers, every     *)
(* order of fields and every number of drafts and of inputs out of turn.   *)
(***************************************************************************)
EXTENDS CreateIssue, TLAPS

(* What a draft has at each step, while every input comes in turn.         *)

Known(x) == x \in Drafts /\ x.d # 0
Typed(x) == Known(x) /\ x.meta
Described(x) == Typed(x) /\ x.summary
EpicGiven(x) == x.epicReq => x.epic
Past(x, i) == \A j \in DOMAIN Order : j <= i /\ Order[j] \in Required => Order[j] \in x.filled
Passed(x, i) == Described(x) /\ EpicGiven(x) /\ Past(x, i)
AtField(x) == Passed(x, x.idx - 1) /\ x.idx # 0 /\ x.cur = Order[x.idx]
Complete(x) == Described(x) /\ EpicGiven(x) /\ Required \subseteq x.filled

FieldSteps == {"create_custom_field", "create_cf_select"}
KnownSteps == Steps \ {"", "create_project"}
TypedSteps ==
  KnownSteps \ {"create_type_pending", "createfast_confirm_pending", "createfast_epic_pending"}
DescribedSteps == TypedSteps \ {"create_tplf_pending", "create_summary"}

Reached(step, x) ==
  /\ step \in KnownSteps => Known(x)
  /\ step \in TypedSteps => Typed(x)
  /\ step \in DescribedSteps => Described(x)
  /\ step \in FieldSteps => AtField(x)
  /\ step = "create_confirm_pending" => Complete(x)

FieldInputs == {"value", "opt", "skip"}
DescribedInputs == FieldInputs \union
  {"description", "person", "key", "keep", "edit", "nodesc", "pri", "asgn", "search",
   "epic", "manual", "confirm", "save"}
TypedInputs == DescribedInputs \union {"tplf", "notplf", "summary"}
KnownInputs == TypedInputs \union {"type", "preview", "go", "fast_epic"}

\* The data an input needs to be served.
Serves(b, x) ==
  /\ b[1] \in KnownInputs => Known(x)
  /\ b[1] \in TypedInputs => Typed(x)
  /\ b[1] \in DescribedInputs => Described(x)
  /\ b[1] \in FieldInputs => AtField(x)
  /\ b[1] \in {"opt", "skip"} => b[2] = x.cur
  /\ b[1] = "skip" => x.cur \notin Required

FastInputs == {"go", "fast_epic", "quick"}
Sending == {"send", "files", "created", "failed", "epic"}

\* A handler holds the data its input needs; one that sends, an issue.
Fits(j) ==
  /\ j.pc = "run" => Serves(j.on, j.data)
  /\ j.pc \in Sending => IF j.on[1] \in FastInputs THEN Known(j.data) ELSE Described(j.data)

Alone == \A g, h \in Handlers : job[g].pc # Idle /\ job[h].pc # Idle => g = h
Answered == \A h \in Handlers : job[h].pc # Idle => fresh = {}
Offered == \A b \in fresh : Serves(b, conv.data)
Working ==
  \A h \in Handlers : Fits(job[h]) /\ (job[h].pc = "routed" => Serves(job[h].on, conv.data))
InTurn ==
  Orderly => ~panicked /\ Alone /\ Answered /\ Reached(conv.step, conv.data) /\ Offered /\ Working

(* Who has a draft, and how often it was sent.                             *)

Holds(h, d) == job[h].data # NilData /\ job[h].data.d = d
Saved(d) == conv.data # NilData /\ conv.data.d = d

Numbered ==
  /\ conv.data # NilData => conv.data.d <= drafts
  /\ \A h \in Handlers : job[h].data # NilData => job[h].data.d <= drafts
  /\ \A d \in 1 .. MaxDrafts : d > drafts => issues[d] = 0

OneHolder ==
  \A d \in 1 .. MaxDrafts : d \notin overlapped =>
    \A g, h \in Handlers : Holds(g, d) /\ Holds(h, d) => g = h

\* Once an issue exists its draft is only with the handler that made it, and
\* the fast way has no state left to send from.
Gone(d) ==
  /\ \A h \in Handlers : Holds(h, d) => job[h].pc \in {"created", "files"}
  /\ Saved(d) => \E h \in Handlers : Holds(h, d) /\ job[h].pc = "created" /\ ~IsFast(h)
Absent(d) ==
  \A h \in Handlers :
    Holds(h, d) /\ IsFast(h) /\ job[h].pc \in {"send", "created", "files"} => ~Saved(d)
SentOnce(d) == issues[d] <= 1 /\ (~panicked => (issues[d] = 1 => Gone(d)) /\ Absent(d))
NoneTwice == \A d \in (1 .. MaxDrafts) \ (overlapped \union unsure \union kept) : SentOnce(d)

Handed == \A h \in Handlers : job[h].pc \in Sending => job[h].data # NilData
FilesFast == \A h \in Handlers : job[h].pc = "files" => IsFast(h)
Dead == panicked => \A h \in Handlers : job[h].pc = Idle

Copies == Numbered /\ OneHolder /\ NoneTwice /\ Handed /\ FilesFast /\ Dead

IInv == TypeOK /\ InTurn /\ Copies

-----------------------------------------------------------------------------
(* What a step of a handler comes to                                       *)

Menu == {B("blank"), B("tmpl"), B("cancel"), B("del")}

Puts(h, step, x, kb) ==
  /\ conv' = [step |-> step, data |-> x] /\ Show(kb) /\ Done(h)
  /\ UNCHANGED <<templates, issues, drafts, hist>>

\* It asks the next question of its draft, or one that needs none.
Replies(h) ==
  \E s \in Steps, x \in Maps, kb \in SUBSET Buttons :
    /\ job[h].pc \in {"run", "epic"} /\ Puts(h, s, x, kb)
    /\ x # NilData => x.d = Data(h).d
    /\ Fits(job[h]) => Reached(s, x) /\ \A b \in kb : Serves(b, x)

\* It ends, the state as it was or cleared; a new issue clears it.
Ends(h) ==
  /\ Done(h) /\ conv' \in {conv, NoConv} /\ fresh' \subseteq fresh \union Menu
  /\ job[h].pc # Idle /\ (job[h].pc = "created" => conv' = NoConv)
  /\ templates' \subseteq SUBSET Answers
  /\ UNCHANGED <<issues, drafts, hist>>

\* It begins a draft in the stored state, or in its own hands.
AsksType(h) ==
  /\ job[h].pc = "run" /\ drafts < MaxDrafts /\ drafts' = drafts + 1
  /\ conv' = [step |-> "create_type_pending", data |-> NewDraft]
  /\ fresh' = {B("type"), B("cancel")} /\ Done(h)
  /\ UNCHANGED <<templates, issues, hist>>

Begins(h) ==
  \E j \in [on : Inputs, pc : {"run", "send"}, data : Drafts] :
    /\ job[h].pc = "run" /\ drafts < MaxDrafts /\ drafts' = drafts + 1
    /\ job' = [job EXCEPT ![h] = j] /\ j.data.d = drafts + 1 /\ Fits(j)
    /\ UNCHANGED <<conv, templates, fresh, issues, hist>>

\* It goes on to send its draft; the fast way has cleared the state.
Sends(h) ==
  \E y \in Drafts :
    /\ job[h].pc = "run" /\ Goto(h, "send", y) /\ y.d = Data(h).d
    /\ conv' = IF IsFast(h) THEN NoConv ELSE conv
    /\ Fits(job[h]) => IF IsFast(h) THEN Known(y) ELSE Described(y)
    /\ UNCHANGED <<templates, fresh, issues, drafts, hist>>

\* It clears the state and goes on to ask for the types.
Drops(h) ==
  /\ job[h].pc = "run" /\ job' = [job EXCEPT ![h].on = B("types")] /\ conv' = NoConv
  /\ UNCHANGED <<templates, fresh, issues, drafts, hist>>

\* The states a handler left on its way are of the draft it works on.
Earlier(h, earlier) ==
  earlier \subseteq {c \in [step : Steps, data : Drafts] : c.data.d = Data(h).d}

\* A write or a removal fails, and the handler goes on with j: what is stored
\* is what was, or an earlier state of its own draft.  A draft that was to be
\* removed is one of kept.
LosesTo(h, j) ==
  /\ job[h].pc \in {"run", "epic", "created"} /\ job' = [job EXCEPT ![h] = j]
  /\ j.pc \in {Idle, "run", "send"} /\ (j.pc = "send" => j.data # NilData)
  /\ job[h].pc = "created" => j = NoJob
  /\ j.data # NilData => j.data.d = Data(h).d
  /\ conv' \in {conv} \union {c \in [step : Steps, data : Drafts] : c.data.d = Data(h).d}
  /\ drafts' \in {drafts, drafts + 1} /\ drafts' <= MaxDrafts
  /\ fresh' \subseteq Buttons /\ templates' \subseteq SUBSET Answers
  /\ kept \subseteq kept' /\ kept' \subseteq 1 .. MaxDrafts /\ Disturb
  /\ job[h].pc = "created" \/ (j.pc = "send" /\ j.on[1] \in FastInputs) =>
       \A d \in (1 .. MaxDrafts) \ kept' : ~Saved(d)'
  /\ UNCHANGED <<issues, marks>>

Loses(h) == \E j \in [on : Inputs, pc : PCs, data : Maps] : LosesTo(h, j)

Tells(h) == Replies(h) \/ Loses(h)

-----------------------------------------------------------------------------
(* Drafts                                                                  *)

LEMMA Fielded ==
  /\ Len(Order) \in Nat \ {0} /\ DOMAIN Order = 1 .. Len(Order)
  /\ \A i \in DOMAIN Order : Order[i] \in Fields
<1> QED BY OrderAssumption DEF Fields

LEMMA EmptyDraft == Empty \in Drafts /\ Empty.d = 0
<1>1. 0 \in 0 .. MaxDrafts /\ 0 \in 0 .. Len(Order)
  BY Fielded, BoundsAssumption
<1> QED BY <1>1 DEF Empty, Drafts, Descs, Answers

LEMMA DraftFields ==
  ASSUME NEW x \in Drafts
  PROVE  /\ x.d \in 0 .. MaxDrafts /\ x.meta \in BOOLEAN /\ x.summary \in BOOLEAN
         /\ x.desc \in Descs /\ x.body \in Descs /\ x.epicReq \in BOOLEAN /\ x.epic \in BOOLEAN
         /\ x.filled \subseteq Answers /\ x.idx \in 0 .. Len(Order) /\ x.cur \in Answers
<1> QED BY DEF Drafts

\* The draft a handler works on.
LEMMA DraftInHand ==
  ASSUME TypeOK, NEW h \in Handlers
  PROVE  /\ Data(h) \in Drafts
         /\ job[h].data # NilData => Data(h) = job[h].data
         /\ job[h].data = NilData => Data(h).d = 0
<1> QED BY EmptyDraft DEF Data, TypeOK, Maps

\* A draft with an answer or a question more is a draft.
LEMMA Answering ==
  ASSUME NEW x \in Drafts, NEW f \in Answers, NEW i \in 0 .. Len(Order)
  PROVE  /\ [x EXCEPT !.filled = @ \union {f}] \in Drafts
         /\ [x EXCEPT !.idx = i] \in Drafts
         /\ [x EXCEPT !.idx = i, !.cur = f] \in Drafts
<1> QED BY DEF Drafts

\* The same draft, no less of it known.
Kept(y, x) ==
  /\ y \in Drafts /\ y.d = x.d /\ y.meta = x.meta
  /\ x.summary => y.summary

LEMMA Marking ==
  ASSUME NEW x \in Drafts, NEW t \in Descs, NEW c \in SUBSET Answers
  PROVE  /\ Kept([x EXCEPT !.summary = TRUE], x) /\ [x EXCEPT !.summary = TRUE].summary
         /\ Kept([x EXCEPT !.desc = t], x)
         /\ Kept([x EXCEPT !.desc = t, !.adf = TRUE], x)
         /\ Kept([x EXCEPT !.filled = c], x)
         /\ Kept([x EXCEPT !.filled = c, !.body = t], x)
         /\ Kept([x EXCEPT !.epic = TRUE], x) /\ [x EXCEPT !.epic = TRUE].epic
         /\ Kept([x EXCEPT !.epicReq = TRUE], x)
         /\ Kept([x EXCEPT !.retry = TRUE], x)
         /\ Kept([x EXCEPT !.retry = FALSE], x)
         /\ [x EXCEPT !.retry = FALSE].epic = x.epic
<1> USE DEF Kept, Drafts
<1>1. Kept([x EXCEPT !.summary = TRUE], x) /\ [x EXCEPT !.summary = TRUE].summary
  OBVIOUS
<1>2. Kept([x EXCEPT !.desc = t], x) /\ Kept([x EXCEPT !.desc = t, !.adf = TRUE], x)
  OBVIOUS
<1>3. Kept([x EXCEPT !.filled = c], x) /\ Kept([x EXCEPT !.filled = c, !.body = t], x)
  OBVIOUS
<1>4. Kept([x EXCEPT !.epic = TRUE], x) /\ [x EXCEPT !.epic = TRUE].epic
  OBVIOUS
<1>5. Kept([x EXCEPT !.epicReq = TRUE], x) /\ Kept([x EXCEPT !.retry = TRUE], x)
  OBVIOUS
<1>6. Kept([x EXCEPT !.retry = FALSE], x) /\ [x EXCEPT !.retry = FALSE].epic = x.epic
  OBVIOUS
<1> QED BY <1>1, <1>2, <1>3, <1>4, <1>5, <1>6

\* What is known of a draft is known of it kept.
LEMMA Keeping ==
  ASSUME NEW x, NEW y, Kept(y, x)
  PROVE  /\ Known(x) => Known(y)
         /\ Typed(x) => Typed(y)
         /\ Described(x) => Described(y)
<1> QED BY DEF Kept, Known, Typed, Described

LEMMA New ==
  ASSUME TypeOK, drafts < MaxDrafts, NEW n, n = NewDraft
  PROVE  n \in Drafts /\ n.d = drafts + 1 /\ n.d # 0 /\ n = [Empty EXCEPT !.d = drafts + 1]
<1>1. drafts + 1 \in 0 .. MaxDrafts
  BY BoundsAssumption DEF TypeOK
<1>2. PICK e \in Drafts : e = Empty
  BY EmptyDraft
<1>3. n = [e EXCEPT !.d = drafts + 1]
  BY <1>2 DEF NewDraft
<1>4. n \in Drafts /\ n.d = drafts + 1
  BY <1>1, <1>3 DEF Drafts
<1> QED BY <1>2, <1>3, <1>4, BoundsAssumption DEF TypeOK

-----------------------------------------------------------------------------
(* The next question                                                       *)

LEMMA MenuTyped == Menu \subseteq Buttons /\ NoConv \in [step : Steps, data : Maps]
                   /\ NoJob \in [on : Inputs, pc : PCs, data : Maps]
<1> QED BY DEF Menu, Buttons, Plain, NoConv, NoJob, Steps, Maps, B, Inputs, PCs, Answers

\* A draft that is still stored after its removal failed is one of kept.
LEMMA StillThere ==
  ASSUME TypeOK, NEW h \in Handlers, NEW earlier, Earlier(h, earlier),
         conv' \in earlier \union {conv}, kept' = kept \union DraftOf(conv'.data)
  PROVE  /\ conv' \in {conv} \union {c \in [step : Steps, data : Drafts] : c.data.d = Data(h).d}
         /\ kept \subseteq kept' /\ kept' \subseteq 1 .. MaxDrafts
         /\ \A d \in (1 .. MaxDrafts) \ kept' : ~Saved(d)'
<1>1. conv' \in {conv} \union {c \in [step : Steps, data : Drafts] : c.data.d = Data(h).d}
  BY DEF Earlier
<1>2. conv'.data \in Maps
  BY <1>1 DEF TypeOK, Maps
<1>3. PICK x \in Maps : x = conv'.data
  BY <1>2
<1>4. DraftOf(x) \subseteq 1 .. MaxDrafts
  BY DraftFields, BoundsAssumption DEF DraftOf, Maps
<1>5. ASSUME NEW d \in (1 .. MaxDrafts) \ kept', x # NilData, x.d = d PROVE FALSE
  <2>1. d # 0
    BY BoundsAssumption
  <2>2. d \in DraftOf(x)
    BY <1>5, <2>1 DEF DraftOf
  <2> QED BY <1>3, <2>2
<1>6. kept \subseteq kept' /\ kept' \subseteq 1 .. MaxDrafts
  BY <1>3, <1>4 DEF TypeOK
<1> QED BY <1>1, <1>3, <1>5, <1>6 DEF Saved

\* A reply whose write fails.
LEMMA Losing ==
  ASSUME TypeOK, NEW h \in Handlers, job[h].pc \in {"run", "epic"}, NEW kb, kb \subseteq Buttons,
         NEW earlier, Earlier(h, earlier), conv' \in earlier \union {conv}, Disturb,
         fresh' = kb, Done(h), UNCHANGED <<templates, issues, drafts, kept, marks>>
  PROVE  Loses(h)
<1>1. conv' \in {conv} \union {c \in [step : Steps, data : Drafts] : c.data.d = Data(h).d}
  BY DEF Earlier
<1>2. drafts' \in {drafts, drafts + 1} /\ drafts' <= MaxDrafts
  BY DEF TypeOK
<1>3. PICK j \in [on : Inputs, pc : PCs, data : Maps] : j = NoJob
  BY MenuTyped
<1>4. j.pc = Idle /\ j.data = NilData
  BY <1>3 DEF NoJob
<1>5. LosesTo(h, j)
  BY <1>1, <1>2, <1>3, <1>4 DEF LosesTo, Done, TypeOK, Idle
<1> QED BY <1>5 DEF Loses

LEMMA Replying ==
  ASSUME TypeOK, NEW h \in Handlers, job[h].pc \in {"run", "epic"},
         NEW s \in Steps, NEW x \in Drafts, x.d = Data(h).d,
         NEW kb, kb \subseteq Buttons, NEW earlier, Earlier(h, earlier), ReplyAfter(h, earlier, s, x, kb),
         Fits(job[h]) => Reached(s, x) /\ \A b \in kb : Serves(b, x)
  PROVE  Tells(h)
<1>1. CASE conv' = [step |-> s, data |-> x] /\ UNCHANGED disorder
  <2>1. Puts(h, s, x, kb)
    BY <1>1 DEF ReplyAfter, Puts, hist, marks
  <2>2. x \in Maps /\ kb \in SUBSET Buttons
    BY DEF Maps
  <2>3. Replies(h)
    BY <2>1, <2>2 DEF Replies
  <2> QED BY <2>3 DEF Tells
<1>2. CASE conv' \in earlier \union {conv} /\ Disturb
  BY <1>2, Losing DEF ReplyAfter, Show, Tells
<1> QED BY <1>1, <1>2 DEF ReplyAfter, Stored

LEMMA Failing ==
  ASSUME TypeOK, NEW h \in Handlers, job[h].pc \notin {Idle, "created"}, Fail(h)
  PROVE  Ends(h)
<1> QED BY DEF Ends, Fail, TypeOK

LEMMA Forgetting ==
  ASSUME TypeOK, NEW h \in Handlers, job[h].pc \in {"run", "epic", "created"},
         NEW earlier, Earlier(h, earlier), Cleared(earlier), Done(h),
         templates' \subseteq SUBSET Answers, UNCHANGED <<fresh, issues, drafts, marks>>
  PROVE  Ends(h) \/ Loses(h)
<1>1. CASE conv' = NoConv /\ UNCHANGED <<disorder, kept>>
  BY <1>1 DEF Ends, TypeOK, hist, marks, Idle
<1>2. CASE conv' \in earlier \union {conv} /\ Disturb /\ kept' = kept \union DraftOf(conv'.data)
  <2>1. /\ conv' \in {conv} \union {c \in [step : Steps, data : Drafts] : c.data.d = Data(h).d}
        /\ kept \subseteq kept' /\ kept' \subseteq 1 .. MaxDrafts
        /\ \A d \in (1 .. MaxDrafts) \ kept' : ~Saved(d)'
    BY <1>2, StillThere
  <2>2. drafts' \in {drafts, drafts + 1} /\ drafts' <= MaxDrafts
    BY DEF TypeOK
  <2>3. PICK j \in [on : Inputs, pc : PCs, data : Maps] : j = NoJob
    BY MenuTyped
  <2>4. j.pc = Idle /\ j.data = NilData
    BY <2>3 DEF NoJob
  <2>5. LosesTo(h, j)
    BY <1>2, <2>1, <2>2, <2>3, <2>4 DEF LosesTo, Done, TypeOK, Idle
  <2> QED BY <2>5 DEF Loses
<1> QED BY <1>1, <1>2 DEF Cleared

LEMMA NoEarlier == \A h \in Handlers : Earlier(h, {})
<1> QED BY DEF Earlier

LEMMA ForgetEnds ==
  ASSUME TypeOK, NEW h \in Handlers, job[h].pc \in {"run", "epic", "created"}, Forget(h)
  PROVE  Ends(h) \/ Loses(h)
<1> QED BY Forgetting, NoEarlier DEF Forget, ForgetAfter, TypeOK

\* What Reached and Serves ask of a draft, stage by stage.
LEMMA Stages ==
  ASSUME NEW x
  PROVE  /\ Known(x) => \A s \in Steps \ TypedSteps : s \in KnownSteps => Reached(s, x)
         /\ Typed(x) => \A s \in TypedSteps \ DescribedSteps : Reached(s, x)
         /\ Described(x) =>
              \A s \in DescribedSteps \ (FieldSteps \union {"create_confirm_pending"}) : Reached(s, x)
         /\ Complete(x) => Reached("create_confirm_pending", x)
         /\ AtField(x) => \A s \in FieldSteps : Reached(s, x)
<1> QED BY DEF Reached, KnownSteps, TypedSteps, DescribedSteps, FieldSteps, Steps,
             Known, Typed, Described, Complete, AtField, Passed

LEMMA Services ==
  ASSUME NEW x
  PROVE  /\ \A b \in Menu : Serves(b, x)
         /\ Known(x) => \A k \in KnownInputs \ TypedInputs : Serves(B(k), x)
         /\ Typed(x) => \A k \in TypedInputs \ DescribedInputs : Serves(B(k), x)
         /\ Described(x) => \A k \in DescribedInputs \ FieldInputs : Serves(B(k), x)
         /\ AtField(x) =>
              /\ Serves(B("value"), x) /\ Serves(<<"opt", x.cur>>, x)
              /\ x.cur \notin Required => Serves(<<"skip", x.cur>>, x)
<1> QED BY DEF Serves, B, Menu, KnownInputs, TypedInputs, DescribedInputs, FieldInputs,
             Known, Typed, Described, AtField, Passed

LEMMA Asked ==
  /\ \A k \in Plain : B(k) \in Buttons
  /\ \A f \in Answers : <<"opt", f>> \in Buttons /\ <<"skip", f>> \in Buttons
  /\ NoField \in Answers /\ Fields \subseteq Answers
<1> QED BY DEF B, Buttons, Answers

\* States left on the way.
LEMMA LeftEarlier ==
  ASSUME NEW h \in Handlers, NEW s \in Steps, NEW x \in Drafts, x.d = Data(h).d
  PROVE  Earlier(h, {[step |-> s, data |-> x]})
<1> QED BY DEF Earlier

LEMMA BetweenEarlier ==
  ASSUME NEW h \in Handlers, NEW x \in Drafts, x.d = Data(h).d
  PROVE  Earlier(h, Between(x))
<1> QED BY LeftEarlier DEF Between, Steps

\* A reply without data.
LEMMA NilReply ==
  ASSUME TypeOK, NEW h \in Handlers, job[h].pc = "run", NEW s \in Steps,
         NEW kb, kb \subseteq Buttons, ReplyAfter(h, {}, s, NilData, kb),
         Fits(job[h]) => Reached(s, NilData) /\ \A b \in kb : Serves(b, NilData)
  PROVE  Tells(h)
<1>1. CASE conv' = [step |-> s, data |-> NilData] /\ UNCHANGED disorder
  <2>1. Puts(h, s, NilData, kb)
    BY <1>1 DEF ReplyAfter, Puts, hist, marks
  <2>2. NilData \in Maps /\ kb \in SUBSET Buttons
    BY DEF Maps
  <2>3. Replies(h)
    BY <2>1, <2>2 DEF Replies
  <2> QED BY <2>3 DEF Tells
<1>2. CASE conv' \in {} \union {conv} /\ Disturb
  BY <1>2, NoEarlier, Losing DEF ReplyAfter, Show, Tells
<1> QED BY <1>1, <1>2 DEF ReplyAfter, Stored

LEMMA PreviewReplies ==
  ASSUME TypeOK, NEW h \in Handlers, job[h].pc \in {"run", "epic"}, NEW x \in Drafts,
         x.d = Data(h).d, Fits(job[h]) => Complete(x), Preview(h, x)
  PROVE  Tells(h)
<1>1. PICK kb : kb = {B("confirm"), B("save"), B("cancel")}
  OBVIOUS
<1>2. kb \subseteq Buttons
  BY <1>1, Asked DEF Plain
<1>3. Fits(job[h]) => Described(x)
  BY DEF Complete
<1>4. Fits(job[h]) => \A b \in kb : Serves(b, x)
  BY <1>1, <1>3, Services DEF Menu, DescribedInputs, FieldInputs
<1>5. Fits(job[h]) => Reached("create_confirm_pending", x)
  BY Stages
<1>6. ReplyAfter(h, Between(x), "create_confirm_pending", x, kb)
  BY <1>1 DEF Preview
<1>7. "create_confirm_pending" \in Steps
  BY DEF Steps
<1> QED BY <1>2, <1>4, <1>5, <1>6, <1>7, BetweenEarlier, Replying

LEMMA NextFieldReplies ==
  ASSUME TypeOK, NEW h \in Handlers, job[h].pc \in {"run", "epic"}, NEW x \in Drafts,
         x.d = Data(h).d, Fits(job[h]) => Passed(x, x.idx), NextField(h, x)
  PROVE  Tells(h)
<1> DEFINE open == {i \in DOMAIN OrderOf(x) : i > x.idx /\ OrderOf(x)[i] \notin x.filled}
<1>1. Fits(job[h]) => OrderOf(x) = Order
  BY DEF OrderOf, Passed, Described, Typed
<1>2. DOMAIN OrderOf(x) \subseteq 0 .. Len(Order) /\ \A i \in DOMAIN OrderOf(x) : i # 0 /\ OrderOf(x)[i] \in Answers
  BY Fielded, Asked DEF OrderOf
<1>3. CASE open = {} /\ Preview(h, x)
  <2>1. ASSUME Fits(job[h]) PROVE Complete(x)
    <3>1. Passed(x, x.idx) /\ OrderOf(x) = Order
      BY <1>1, <2>1
    <3>2. \A j \in DOMAIN Order : Order[j] \in Required => Order[j] \in x.filled
      <4>1. TAKE j \in DOMAIN Order
      <4>2. CASE j <= x.idx
        BY <3>1, <4>2 DEF Passed, Past
      <4>3. CASE ~(j <= x.idx)
        <5>1. j > x.idx
          BY <4>3, Fielded, DraftFields
        <5> QED BY <1>3, <3>1, <5>1
      <4> QED BY <4>2, <4>3
    <3>3. Required \subseteq x.filled
      BY <3>2, RequiredAssumption DEF Fields
    <3> QED BY <3>1, <3>3 DEF Complete, Passed
  <2> QED BY <1>3, <2>1, PreviewReplies
<1>4. ASSUME NEW i \in open, \A j \in open : i <= j,
             NEW f, f = OrderOf(x)[i],
             ReplyAfter(h, Between(x),
                        IF f \in Selects THEN "create_cf_select" ELSE "create_custom_field",
                        [x EXCEPT !.idx = i, !.cur = f], FieldKeys(f))
      PROVE  Tells(h)
  <2>1. i \in 0 .. Len(Order) /\ i # 0 /\ f \in Answers
    BY <1>2, <1>4
  <2>2. PICK y \in Drafts : y = [x EXCEPT !.idx = i, !.cur = f]
    BY <2>1, Answering
  <2>3. /\ y.d = x.d /\ y.idx = i /\ y.cur = f /\ y.filled = x.filled /\ y.meta = x.meta
        /\ y.summary = x.summary /\ y.epicReq = x.epicReq /\ y.epic = x.epic
    BY <2>2 DEF Drafts
  <2>4. PICK s \in FieldSteps : s = IF f \in Selects THEN "create_cf_select" ELSE "create_custom_field"
    BY DEF FieldSteps
  <2>5. PICK kb : kb = FieldKeys(f)
    OBVIOUS
  <2>6. kb \subseteq Buttons
    BY <2>1, <2>5, Asked DEF FieldKeys, Prompt, Plain
  <2>7. ASSUME Fits(job[h]) PROVE AtField(y)
    <3>1. Passed(x, x.idx) /\ OrderOf(x) = Order
      BY <1>1, <2>7
    <3>2. Past(y, i - 1)
      <4> SUFFICES ASSUME NEW j \in DOMAIN Order, j <= i - 1, Order[j] \in Required
                   PROVE  Order[j] \in x.filled
        BY <2>3 DEF Past
      <4>1. CASE j <= x.idx
        BY <3>1, <4>1 DEF Passed, Past
      <4>2. CASE ~(j <= x.idx)
        <5>1. j > x.idx /\ ~(i <= j)
          BY <2>1, <4>2, Fielded, DraftFields
        <5> QED BY <1>4, <3>1, <5>1
      <4> QED BY <4>1, <4>2
    <3>3. Described(y) /\ EpicGiven(y)
      BY <2>3, <3>1 DEF Passed, Described, Typed, Known, EpicGiven
    <3> QED BY <1>4, <2>1, <2>3, <3>1, <3>2, <3>3 DEF AtField, Passed
  <2>8. Fits(job[h]) => Reached(s, y)
    BY <2>7, Stages
  <2>9. Fits(job[h]) => \A b \in kb : Serves(b, y)
    BY <2>3, <2>5, <2>7, Services DEF FieldKeys, Prompt, Menu
  <2>10. ReplyAfter(h, Between(x), s, y, kb)
    BY <1>4, <2>2, <2>4, <2>5
  <2>11. s \in Steps
    BY DEF FieldSteps, Steps
  <2> QED BY <2>3, <2>6, <2>8, <2>9, <2>10, <2>11, BetweenEarlier, Replying
<1> HIDE DEF open
<1>5. \/ open = {} /\ Preview(h, x)
      \/ \E i \in open :
           /\ \A j \in open : i <= j
           /\ LET f == OrderOf(x)[i] IN
              ReplyAfter(h, Between(x),
                         IF f \in Selects THEN "create_cf_select" ELSE "create_custom_field",
                         [x EXCEPT !.idx = i, !.cur = f], FieldKeys(f))
  BY DEF NextField, open
<1> QED BY <1>3, <1>4, <1>5

DescribedKeys ==
  {"keep", "edit", "nodesc", "pri", "asgn", "search", "epic", "manual", "confirm", "save", "cancel"}

\* A question about a described draft, with buttons.
LEMMA DescribedReplyAfter ==
  ASSUME TypeOK, NEW h \in Handlers, job[h].pc \in {"run", "epic"}, NEW x \in Drafts,
         x.d = Data(h).d, Fits(job[h]) => Described(x),
         NEW s \in DescribedSteps \ (FieldSteps \union {"create_confirm_pending"}),
         NEW kb, \A b \in kb : \E k \in DescribedKeys : b = B(k),
         NEW earlier, Earlier(h, earlier), ReplyAfter(h, earlier, s, x, kb)
  PROVE  Tells(h)
<1>1. kb \subseteq Buttons
  BY Asked DEF Plain, DescribedKeys
<1>2. Fits(job[h]) => Reached(s, x)
  BY Stages
<1>3. Fits(job[h]) => \A b \in kb : Serves(b, x)
  <2>1. Described(x) => \A k \in DescribedKeys \ {"cancel"} : Serves(B(k), x)
    BY Services DEF DescribedKeys, DescribedInputs, FieldInputs
  <2>2. Serves(B("cancel"), x)
    BY Services DEF Menu
  <2> QED BY <2>1, <2>2
<1>4. s \in Steps
  BY DEF DescribedSteps, TypedSteps, KnownSteps
<1> QED BY <1>1, <1>2, <1>3, <1>4, Replying

LEMMA DescribedReply ==
  ASSUME TypeOK, NEW h \in Handlers, job[h].pc \in {"run", "epic"}, NEW x \in Drafts,
         x.d = Data(h).d, Fits(job[h]) => Described(x),
         NEW s \in DescribedSteps \ (FieldSteps \union {"create_confirm_pending"}),
         NEW kb, \A b \in kb : \E k \in DescribedKeys : b = B(k), Reply(h, s, x, kb)
  PROVE  Tells(h)
<1> QED BY DescribedReplyAfter, NoEarlier DEF Reply

LEMMA TypedReply ==
  ASSUME TypeOK, NEW h \in Handlers, job[h].pc \in {"run", "epic"}, NEW x \in Drafts,
         x.d = Data(h).d, Fits(job[h]) => Typed(x), NEW s \in {"create_summary", "create_tplf_pending"},
         NEW kb, \A b \in kb : b \in {B("cancel"), B("tplf"), B("notplf")}, Reply(h, s, x, kb)
  PROVE  Tells(h)
<1>1. kb \subseteq Buttons
  BY Asked DEF Plain
<1>2. Fits(job[h]) => Reached(s, x)
  BY Stages DEF DescribedSteps, TypedSteps, KnownSteps, Steps
<1>3. Fits(job[h]) => \A b \in kb : Serves(b, x)
  BY Services DEF DescribedInputs, TypedInputs, FieldInputs, Menu
<1>4. s \in Steps
  BY DEF Steps
<1> QED BY <1>1, <1>2, <1>3, <1>4, NoEarlier, Replying DEF Reply

LEMMA FastReply ==
  ASSUME TypeOK, NEW h \in Handlers, job[h].pc \in {"run", "epic"}, NEW x \in Drafts,
         x.d = Data(h).d, Fits(job[h]) => Known(x),
         NEW s \in {"createfast_confirm_pending", "createfast_epic_pending"},
         NEW kb, \A b \in kb : b \in {B("go"), B("fast_cancel"), B("fast_epic"), B("fast_leave")},
         Reply(h, s, x, kb)
  PROVE  Tells(h)
<1>1. kb \subseteq Buttons
  BY Asked DEF Plain
<1>2. Fits(job[h]) => Reached(s, x)
  BY Stages DEF TypedSteps, KnownSteps, Steps
<1>3. \A b \in kb : b[1] \in {"fast_cancel", "fast_leave"} => Serves(b, x)
  BY DEF B, Serves, DescribedInputs, TypedInputs, FieldInputs, KnownInputs
<1>4. Fits(job[h]) => \A b \in kb : Serves(b, x)
  BY <1>3, Services DEF B, DescribedInputs, TypedInputs, FieldInputs, KnownInputs
<1>5. s \in Steps
  BY DEF Steps
<1> QED BY <1>1, <1>2, <1>4, <1>5, NoEarlier, Replying DEF Reply

LEMMA StartFieldsReplies ==
  ASSUME TypeOK, NEW h \in Handlers, job[h].pc \in {"run", "epic"}, NEW x \in Drafts,
         x.d = Data(h).d, Fits(job[h]) => Described(x) /\ EpicGiven(x), StartFields(h, x)
  PROVE  Tells(h)
<1>1. CASE x.meta
  <2>0. 0 \in 0 .. Len(Order) /\ NoField \in Answers
    BY Fielded, Asked
  <2>1. PICK y \in Drafts : y = [x EXCEPT !.idx = 0]
    BY <2>0, Answering
  <2>2. /\ y.d = x.d /\ y.idx = 0 /\ y.meta = x.meta
        /\ y.summary = x.summary /\ y.epicReq = x.epicReq /\ y.epic = x.epic
    BY <2>1 DEF Drafts
  <2>3. Past(y, y.idx)
    BY <2>2, Fielded DEF Past
  <2>4. Fits(job[h]) => Passed(y, y.idx)
    BY <2>2, <2>3 DEF Passed, Described, Typed, Known, EpicGiven
  <2>5. NextField(h, y)
    BY <1>1, <2>1 DEF StartFields
  <2> QED BY <2>2, <2>4, <2>5, NextFieldReplies
<1>2. CASE ~x.meta
  <2>1. Preview(h, x) /\ ~Fits(job[h])
    BY <1>2 DEF StartFields, Described, Typed
  <2> QED BY <2>1, PreviewReplies
<1> QED BY <1>1, <1>2

LEMMA AskEpicReplies ==
  ASSUME TypeOK, NEW h \in Handlers, job[h].pc \in {"run", "epic"}, NEW x \in Drafts,
         x.d = Data(h).d, Fits(job[h]) => Described(x), AskEpic(h, x)
  PROVE  Tells(h) \/ Ends(h)
<1>1. CASE Fail(h)
  BY <1>1, Failing DEF Idle
<1>2. CASE Reply(h, "create_epic_pending", x, {B("epic"), B("manual")})
  <2>1. PICK kb : kb = {B("epic"), B("manual")}
    OBVIOUS
  <2>2. "create_epic_pending" \in DescribedSteps \ (FieldSteps \union {"create_confirm_pending"})
    BY DEF DescribedSteps, TypedSteps, KnownSteps, Steps, FieldSteps
  <2>3. \A b \in kb : \E k \in DescribedKeys : b = B(k)
    BY <2>1 DEF DescribedKeys
  <2> QED BY <1>2, <2>1, <2>2, <2>3, DescribedReply
<1>3. CASE Reply(h, "create_epic_key", x, Prompt)
  <2>2. "create_epic_key" \in DescribedSteps \ (FieldSteps \union {"create_confirm_pending"})
    BY DEF DescribedSteps, TypedSteps, KnownSteps, Steps, FieldSteps
  <2>3. \A b \in Prompt : \E k \in DescribedKeys : b = B(k)
    BY DEF DescribedKeys, Prompt
  <2> QED BY <1>3, <2>2, <2>3, DescribedReply
<1> QED BY <1>1, <1>2, <1>3 DEF AskEpic

LEMMA MaybeAskEpicReplies ==
  ASSUME TypeOK, NEW h \in Handlers, job[h].pc \in {"run", "epic"}, NEW x \in Drafts,
         x.d = Data(h).d, Fits(job[h]) => Described(x), MaybeAskEpic(h, x)
  PROVE  Tells(h) \/ Ends(h)
<1>1. CASE x.epicReq
  BY <1>1, AskEpicReplies DEF MaybeAskEpic
<1>2. CASE ~x.epicReq
  BY <1>2, StartFieldsReplies DEF MaybeAskEpic, EpicGiven
<1> QED BY <1>1, <1>2

LEMMA AskPriorityReplies ==
  ASSUME TypeOK, NEW h \in Handlers, job[h].pc = "run", NEW x \in Drafts,
         x.d = Data(h).d, Fits(job[h]) => Described(x), AskPriority(h, x)
  PROVE  Tells(h)
<1>1. CASE Reply(h, "create_priority_pending", x, {B("pri")})
  <2>1. PICK kb : kb = {B("pri")}
    OBVIOUS
  <2>2. "create_priority_pending" \in DescribedSteps \ (FieldSteps \union {"create_confirm_pending"})
    BY DEF DescribedSteps, TypedSteps, KnownSteps, Steps, FieldSteps
  <2>3. \A b \in kb : \E k \in DescribedKeys : b = B(k)
    BY <2>1 DEF DescribedKeys
  <2> QED BY <1>1, <2>1, <2>2, <2>3, DescribedReply
<1>2. CASE ReplyAfter(h, {[step |-> "create_priority_pending", data |-> x]},
                      "create_assignee_pending", x, {B("asgn"), B("search")})
  <2>1. PICK kb : kb = {B("asgn"), B("search")}
    OBVIOUS
  <2>2. "create_assignee_pending" \in DescribedSteps \ (FieldSteps \union {"create_confirm_pending"})
    BY DEF DescribedSteps, TypedSteps, KnownSteps, Steps, FieldSteps
  <2>3. \A b \in kb : \E k \in DescribedKeys : b = B(k)
    BY <2>1 DEF DescribedKeys
  <2>4. PICK earlier : earlier = {[step |-> "create_priority_pending", data |-> x]}
    OBVIOUS
  <2>5. Earlier(h, earlier)
    BY <2>4, LeftEarlier DEF Steps
  <2>6. ReplyAfter(h, earlier, "create_assignee_pending", x, kb)
    BY <1>2, <2>1, <2>4
  <2> QED BY <2>2, <2>3, <2>5, <2>6, DescribedReplyAfter
<1> QED BY <1>1, <1>2 DEF AskPriority

LEMMA AskSummaryReplies ==
  ASSUME TypeOK, NEW h \in Handlers, job[h].pc = "run", NEW x \in Drafts,
         x.d = Data(h).d, Fits(job[h]) => Typed(x), AskSummary(h, x)
  PROVE  Tells(h)
<1>1. \A b \in Prompt : b \in {B("cancel"), B("tplf"), B("notplf")}
  BY DEF Prompt
<1> QED BY <1>1, TypedReply DEF AskSummary

\* What Jira says of the type goes into the draft.
LEMMA FetchFieldsReplies ==
  ASSUME TypeOK, NEW h \in Handlers, job[h].pc = "run", NEW x \in Drafts,
         x.d = Data(h).d, Fits(job[h]) => Known(x), FetchFields(h, x)
  PROVE  Tells(h) \/ Ends(h)
<1>1. CASE Fail(h)
  BY <1>1, Failing DEF Idle
<1>2. ASSUME NEW t \in IssueTypes, NEW y,
             y = [x EXCEPT !.meta = TRUE, !.body = t.body, !.raw = (t.body = "default"),
                           !.unasked = t.unasked, !.epicReq = @ \/ t.epic, !.idx = 0],
             AskTemplate(h, y) \/ AskSummary(h, y)
      PROVE  Tells(h)
  <2>1. PICK r \in BOOLEAN : r = (t.body = "default")
    OBVIOUS
  <2>2. PICK e \in BOOLEAN : e = (x.epicReq \/ t.epic)
    OBVIOUS
  <2>3. t.body \in Descs /\ t.unasked \in BOOLEAN
    <3>1. t \in [body : {"", "default"}, epic : BOOLEAN, tplf : BOOLEAN, unasked : BOOLEAN]
      BY TypesAssumption
    <3> QED BY <3>1 DEF Descs
  <2>9. 0 \in 0 .. Len(Order)
    BY Fielded
  <2>4. y = [x EXCEPT !.meta = TRUE, !.body = t.body, !.raw = r, !.unasked = t.unasked,
                       !.epicReq = e, !.idx = 0]
    BY <1>2, <2>1, <2>2 DEF Drafts
  <2>5. y \in Drafts /\ y.d = x.d /\ y.meta
    BY <2>3, <2>4, <2>9 DEF Drafts
  <2>6. Fits(job[h]) => Typed(y)
    BY <2>5 DEF Typed, Known
  <2>7. CASE AskSummary(h, y)
    BY <2>5, <2>6, <2>7, AskSummaryReplies
  <2>8. CASE AskTemplate(h, y)
    <3>1. PICK kb : kb = {B("tplf"), B("notplf")}
      OBVIOUS
    <3>2. Reply(h, "create_tplf_pending", y, kb)
      BY <2>8, <3>1 DEF AskTemplate
    <3> QED BY <2>5, <2>6, <3>1, <3>2, TypedReply
  <2> QED BY <1>2, <2>7, <2>8
<1> QED BY <1>1, <1>2 DEF FetchFields

LEMMA AskTypeEither ==
  ASSUME TypeOK, NEW h \in Handlers, job[h].pc = "run", AskType(h)
  PROVE  AsksType(h) \/ Ends(h) \/ Loses(h)
<1>1. CASE Fail(h)
  BY <1>1, Failing DEF Idle
<1>2. CASE /\ drafts < MaxDrafts /\ drafts' = drafts + 1
           /\ Stored([step |-> "create_type_pending", data |-> NewDraft], {})
           /\ Show({B("type"), B("cancel")}) /\ Done(h)
           /\ UNCHANGED <<templates, issues, kept, marks>>
  <2>1. CASE conv' = [step |-> "create_type_pending", data |-> NewDraft] /\ UNCHANGED disorder
    BY <1>2, <2>1 DEF AsksType, Show, hist, marks
  <2>2. CASE conv' = conv /\ Disturb
    <3>1. PICK j \in [on : Inputs, pc : PCs, data : Maps] : j = NoJob
      BY MenuTyped
    <3>2. j.pc = Idle /\ j.data = NilData
      BY <3>1 DEF NoJob
    <3>3. fresh' \subseteq Buttons
      BY <1>2, Asked DEF Show, Plain
    <3>4. drafts' <= MaxDrafts
      BY <1>2, BoundsAssumption DEF TypeOK
    <3>5. LosesTo(h, j)
      BY <1>2, <2>2, <3>1, <3>2, <3>3, <3>4 DEF LosesTo, Done, TypeOK, Idle
    <3> QED BY <3>5 DEF Loses
  <2> QED BY <1>2, <2>1, <2>2 DEF Stored
<1> QED BY <1>1, <1>2 DEF AskType

LEMMA AskProjectEither ==
  ASSUME TypeOK, NEW h \in Handlers, job[h].pc = "run", AskProject(h)
  PROVE  AsksType(h) \/ Ends(h) \/ Tells(h)
<1>1. CASE AskType(h)
  BY <1>1, AskTypeEither DEF Tells
<1>2. CASE Reply(h, "create_project", NilData, Prompt)
  <2>1. \A x : \A b \in Prompt : Serves(b, x)
    BY Services DEF Prompt, Menu
  <2>2. Reached("create_project", NilData)
    BY DEF Reached, KnownSteps, TypedSteps, DescribedSteps, FieldSteps
  <2>3. Prompt \subseteq Buttons
    BY Asked DEF Prompt, Plain
  <2>4. NilData \in Maps /\ "create_project" \in Steps
    BY DEF Maps, Steps
  <2>5. PICK kb \in SUBSET Buttons : kb = Prompt
    BY <2>3
  <2>6. ReplyAfter(h, {}, "create_project", NilData, kb)
    BY <1>2, <2>5 DEF Reply
  <2> QED BY <2>1, <2>2, <2>4, <2>5, <2>6, NilReply
<1> QED BY <1>1, <1>2 DEF AskProject

-----------------------------------------------------------------------------
(* The steps of a handler that asks                                        *)

Comes(h) == Tells(h) \/ Ends(h) \/ AsksType(h) \/ Begins(h) \/ Sends(h) \/ Drops(h)

\* The data of a handler that fits its input.
LEMMA AtWork ==
  ASSUME TypeOK, NEW h \in Handlers, job[h].pc = "run", NEW x, x = Data(h), Fits(job[h])
  PROVE  /\ job[h].on[1] \in KnownInputs => Known(x)
         /\ job[h].on[1] \in TypedInputs => Typed(x)
         /\ job[h].on[1] \in DescribedInputs => Described(x)
         /\ job[h].on[1] \in FieldInputs => AtField(x)
         /\ job[h].on[1] \in {"opt", "skip"} => job[h].on[2] = x.cur
         /\ job[h].on[1] = "skip" => x.cur \notin Required
<1>1. Serves(job[h].on, job[h].data)
  BY DEF Fits
<1>2. CASE job[h].data = NilData
  <2>1. ~Known(job[h].data)
    BY <1>2, NilAssumption DEF Known
  <2> QED BY <1>1, <2>1 DEF Serves, KnownInputs, TypedInputs, DescribedInputs, FieldInputs
<1>3. CASE job[h].data # NilData
  <2>1. x = job[h].data
    BY <1>3, DraftInHand
  <2> QED BY <1>1, <2>1 DEF Serves
<1> QED BY <1>2, <1>3

\* The project is known, and the state that asked for it removed.
LEMMA ProjectComes ==
  ASSUME TypeOK, NEW h \in Handlers, job[h].pc = "run",
         Cleared({}), job' = [job EXCEPT ![h].on = B("types")],
         UNCHANGED <<templates, fresh, issues, drafts, marks>>
  PROVE  Comes(h)
<1>1. CASE conv' = NoConv /\ UNCHANGED <<disorder, kept>>
  <2>1. Drops(h)
    BY <1>1 DEF Drops, hist, marks
  <2> QED BY <2>1 DEF Comes
<1>2. CASE conv' \in {} \union {conv} /\ Disturb /\ kept' = kept \union DraftOf(conv'.data)
  <2>1. PICK w \in [on : Inputs, pc : PCs, data : Maps] : w = job[h]
    BY DEF TypeOK
  <2>2. B("types") \in Inputs
    BY DEF B, Inputs
  <2>3. PICK j \in [on : Inputs, pc : PCs, data : Maps] : j = [w EXCEPT !.on = B("types")]
    BY <2>2
  <2>4. job' = [job EXCEPT ![h] = j] /\ j.pc = "run" /\ j.data = w.data
    BY <2>1, <2>3 DEF TypeOK
  <2>5. j.data # NilData => j.data.d = Data(h).d
    BY <2>1, <2>4, DraftInHand
  <2>6. /\ conv' \in {conv} \union {c \in [step : Steps, data : Drafts] : c.data.d = Data(h).d}
        /\ kept \subseteq kept' /\ kept' \subseteq 1 .. MaxDrafts
    BY <1>2, StillThere, NoEarlier
  <2>7. drafts' \in {drafts, drafts + 1} /\ drafts' <= MaxDrafts
    BY DEF TypeOK
  <2>8. LosesTo(h, j)
    BY <1>2, <2>4, <2>5, <2>6, <2>7 DEF LosesTo, TypeOK
  <2> QED BY <2>8 DEF Loses, Comes, Tells
<1> QED BY <1>1, <1>2 DEF Cleared

LEMMA Starting ==
  ASSUME TypeOK, NEW h \in Handlers, job[h].pc = "run",
         Create(h) \/ Blank(h) \/ Project(h) \/ Types(h) \/ ListTemplates(h) \/ DeleteTemplate(h)
  PROVE  Comes(h)
<1>1. CASE Create(h)
  <2>1. CASE templates = {}
    BY <1>1, <2>1, AskProjectEither DEF Create, Comes
  <2>2. CASE templates # {}
    BY <1>1, <2>2 DEF Create, Comes, Ends, Menu, Show, TypeOK, Idle, hist
  <2> QED BY <2>1, <2>2
<1>2. CASE Blank(h)
  BY <1>2, AskProjectEither DEF Blank, Comes
<1>3. CASE Project(h)
  <2>1. CASE Fail(h)
    BY <2>1, Failing DEF Comes, Idle
  <2>2. CASE /\ Cleared({}) /\ job' = [job EXCEPT ![h].on = B("types")]
             /\ UNCHANGED <<templates, fresh, issues, drafts, marks>>
    BY <2>2, ProjectComes
  <2> QED BY <1>3, <2>1, <2>2 DEF Project
<1>4. CASE Types(h)
  BY <1>4, AskTypeEither DEF Types, Comes, Tells
<1>5. CASE ListTemplates(h)
  BY <1>5 DEF ListTemplates, Comes, Ends, Menu, Show, TypeOK, Idle, hist
<1>6. CASE DeleteTemplate(h)
  BY <1>6 DEF DeleteTemplate, Comes, Ends, TypeOK, Idle
<1> QED BY <1>1, <1>2, <1>3, <1>4, <1>5, <1>6

LEMMA Redone ==
  ASSUME NEW w \in [on : Inputs, pc : PCs, data : Maps], NEW b, NEW y
  PROVE  [w EXCEPT !.on = b, !.data = y] = [on |-> b, pc |-> w.pc, data |-> y]
<1>1. PICK v : v = [w EXCEPT !.on = b, !.data = y]
  OBVIOUS
<1>2. v = [on |-> v.on, pc |-> v.pc, data |-> v.data] /\ v.on = b /\ v.pc = w.pc /\ v.data = y
  BY <1>1
<1> QED BY <1>1, <1>2

LEMMA Moved ==
  ASSUME NEW w \in [on : Inputs, pc : PCs, data : Maps], NEW p, NEW y
  PROVE  [w EXCEPT !.pc = p, !.data = y] = [on |-> w.on, pc |-> p, data |-> y]
<1>1. PICK v : v = [w EXCEPT !.pc = p, !.data = y]
  OBVIOUS
<1>2. v = [on |-> v.on, pc |-> v.pc, data |-> v.data] /\ v.on = w.on /\ v.pc = p /\ v.data = y
  BY <1>1
<1> QED BY <1>1, <1>2

\* A template fills a draft of its own.
LEMMA FromTemplateComes ==
  ASSUME TypeOK, NEW h \in Handlers, job[h].pc = "run", FromTemplate(h)
  PROVE  Comes(h)
<1>1. CASE Fail(h)
  BY <1>1, Failing DEF Idle, Comes
<1>2. ASSUME NEW t \in templates, drafts < MaxDrafts, drafts' = drafts + 1,
             job' = [job EXCEPT ![h].on = B("type"), ![h].data = [NewDraft EXCEPT !.filled = t]],
             UNCHANGED <<conv, templates, fresh, issues, hist>>
      PROVE  Begins(h)
  <2>1. PICK n : n = NewDraft
    OBVIOUS
  <2>2. n \in Drafts /\ n.d = drafts + 1 /\ n.d # 0
    BY <1>2, <2>1, New
  <2>3. t \subseteq Answers
    BY DEF TypeOK
  <2>14. PICK y : y = [n EXCEPT !.filled = t]
    OBVIOUS
  <2>4. y \in Drafts /\ y.d = n.d
    BY <2>2, <2>3, <2>14 DEF Drafts
  <2>5. PICK j : j = [on |-> B("type"), pc |-> "run", data |-> y]
    OBVIOUS
  <2>6. j \in [on : Inputs, pc : {"run", "send"}, data : Drafts]
    BY <2>4, <2>5, Asked DEF Inputs, Plain
  <2>7. Known(y)
    BY <2>2, <2>4 DEF Known
  <2>8. Serves(B("type"), y)
    BY <2>7, Services DEF KnownInputs, TypedInputs, DescribedInputs, FieldInputs
  <2>9. Fits(j)
    BY <2>5, <2>8 DEF Fits, Sending
  <2>10. job' = [job EXCEPT ![h] = j]
    <3>1. job' = [job EXCEPT ![h].on = B("type"), ![h].data = y]
      BY <1>2, <2>1, <2>14
    <3>2. PICK w \in [on : Inputs, pc : PCs, data : Maps] : w = job[h]
      BY DEF TypeOK
    <3>3. w.pc = "run"
      BY <3>2
    <3>4. PICK b : b = B("type")
      OBVIOUS
    <3>5. [w EXCEPT !.on = b, !.data = y] = j
      BY <2>5, <3>3, <3>4, Redone
    <3> QED BY <3>1, <3>2, <3>4, <3>5 DEF TypeOK
  <2> QED BY <1>2, <2>2, <2>4, <2>5, <2>6, <2>9, <2>10 DEF Begins
<1> QED BY <1>1, <1>2 DEF FromTemplate, Comes

LEMMA TypeComes ==
  ASSUME TypeOK, NEW h \in Handlers, job[h].pc = "run", Type(h)
  PROVE  Comes(h)
<1>1. PICK x \in Drafts : x = Data(h)
  BY DraftInHand
<1>2. Fits(job[h]) => Known(x)
  BY <1>1, AtWork DEF Type, Running, KnownInputs
<1> QED BY <1>1, <1>2, FetchFieldsReplies DEF Type, Comes

LEMMA PickTemplateComes ==
  ASSUME TypeOK, NEW h \in Handlers, job[h].pc = "run", PickTemplate(h)
  PROVE  Comes(h)
<1>1. PICK x \in Drafts : x = Data(h)
  BY DraftInHand
<1>2. Fits(job[h]) => Typed(x)
  BY <1>1, AtWork DEF PickTemplate, Running, TypedInputs
<1>3. CASE AskSummary(h, x)
  BY <1>1, <1>2, <1>3, AskSummaryReplies DEF Comes
<1>4. ASSUME NEW body \in Samples(x), x.meta,
             AskSummary(h, [x EXCEPT !.filled = @ \union {TemplateField}, !.body = body])
      PROVE  Tells(h)
  <2>1. body \in Descs
    BY DraftFields DEF Samples, Descs
  <2>2. PICK c \in SUBSET Answers : c = x.filled \union {TemplateField}
    BY DraftFields DEF Answers
  <2>3. PICK y : y = [x EXCEPT !.filled = c, !.body = body]
    OBVIOUS
  <2>4. Kept(y, x)
    BY <2>1, <2>3, Marking
  <2>5. Fits(job[h]) => Typed(y)
    BY <1>2, <2>4, Keeping
  <2>6. AskSummary(h, y)
    BY <1>4, <2>2, <2>3
  <2>7. y \in Drafts /\ y.d = Data(h).d
    BY <1>1, <2>4 DEF Kept
  <2> QED BY <2>5, <2>6, <2>7, AskSummaryReplies
<1> QED BY <1>1, <1>3, <1>4 DEF PickTemplate, Comes

LEMMA SummaryComes ==
  ASSUME TypeOK, NEW h \in Handlers, job[h].pc = "run", Summary(h)
  PROVE  Comes(h)
<1>1. PICK x \in Drafts : x = Data(h)
  BY DraftInHand
<1>2. Fits(job[h]) => Typed(x)
  BY <1>1, AtWork DEF Summary, Writes, Running, TypedInputs
<1>3. PICK y : y = [x EXCEPT !.summary = TRUE]
  OBVIOUS
<1>4. PICK z : z = [y EXCEPT !.desc = ""]
  OBVIOUS
<1>9. "" \in Descs /\ {} \in SUBSET Answers
  BY DEF Descs
<1>10. Kept(y, x) /\ y.summary
  BY <1>3, <1>9, Marking
<1>11. y \in Drafts
  BY <1>10 DEF Kept
<1>12. Kept(z, y)
  BY <1>4, <1>9, <1>11, Marking
<1>13. z \in Drafts /\ y.d = Data(h).d /\ z.d = Data(h).d
  BY <1>1, <1>10, <1>12 DEF Kept
<1>5. Fits(job[h]) => Described(y) /\ Described(z)
  BY <1>2, <1>10, <1>12, Keeping DEF Described
<1>6. CASE Fail(h)
  BY <1>6, Failing DEF Idle, Comes
<1>7. CASE Reply(h, "create_desc_pending", y, {B("keep"), B("edit"), B("nodesc")})
  <2>1. PICK kb : kb = {B("keep"), B("edit"), B("nodesc")}
    OBVIOUS
  <2>2. "create_desc_pending" \in DescribedSteps \ (FieldSteps \union {"create_confirm_pending"})
    BY DEF DescribedSteps, TypedSteps, KnownSteps, Steps, FieldSteps
  <2>3. \A b \in kb : \E k \in DescribedKeys : b = B(k)
    BY <2>1 DEF DescribedKeys
  <2> QED BY <1>5, <1>7, <1>11, <1>13, <2>1, <2>2, <2>3, DescribedReply DEF Comes
<1>8. CASE ReplyAfter(h, {[step |-> "create_desc_pending", data |-> y]}, "create_description", z, Prompt)
  <2>1. PICK earlier : earlier = {[step |-> "create_desc_pending", data |-> y]}
    OBVIOUS
  <2>4. Earlier(h, earlier)
    BY <1>11, <1>13, <2>1, LeftEarlier DEF Steps
  <2>2. "create_description" \in DescribedSteps \ (FieldSteps \union {"create_confirm_pending"})
    BY DEF DescribedSteps, TypedSteps, KnownSteps, Steps, FieldSteps
  <2>3. \A b \in Prompt : \E k \in DescribedKeys : b = B(k)
    BY DEF DescribedKeys, Prompt
  <2> QED BY <1>5, <1>8, <1>13, <2>1, <2>2, <2>3, <2>4, DescribedReplyAfter DEF Comes
<1> QED BY <1>1, <1>3, <1>4, <1>6, <1>7, <1>8 DEF Summary

LEMMA DescriptionComes ==
  ASSUME TypeOK, NEW h \in Handlers, job[h].pc = "run", Description(h) \/ DescButtons(h)
  PROVE  Comes(h)
<1>1. PICK x \in Drafts : x = Data(h)
  BY DraftInHand
<1>2. Fits(job[h]) => Described(x)
  BY <1>1, AtWork DEF Description, DescButtons, Writes, Running, DescribedInputs
<1>3. ASSUME NEW y, Kept(y, x), AskPriority(h, y)
      PROVE  Comes(h)
  <2>1. Fits(job[h]) => Described(y)
    BY <1>2, <1>3, Keeping
  <2>2. y \in Drafts /\ y.d = Data(h).d
    BY <1>1, <1>3 DEF Kept
  <2> QED BY <1>3, <2>1, <2>2, AskPriorityReplies DEF Comes
<1>9. {} \in SUBSET Answers /\ "typed" \in Descs /\ "" \in Descs /\ x.body \in Descs
  BY DraftFields DEF Descs
<1>4. CASE AskPriority(h, [x EXCEPT !.desc = "typed"])
  <2>1. PICK y : y = [x EXCEPT !.desc = "typed"]
    OBVIOUS
  <2> QED BY <1>3, <1>4, <1>9, <2>1, Marking
<1>5. CASE AskPriority(h, [x EXCEPT !.desc = x.body, !.adf = TRUE])
  <2>1. PICK y : y = [x EXCEPT !.desc = x.body, !.adf = TRUE]
    OBVIOUS
  <2> QED BY <1>3, <1>5, <1>9, <2>1, Marking
<1>6. CASE AskPriority(h, [x EXCEPT !.desc = ""])
  <2>1. PICK y : y = [x EXCEPT !.desc = ""]
    OBVIOUS
  <2> QED BY <1>3, <1>6, <1>9, <2>1, Marking
<1>7. CASE Reply(h, "create_description", x, Prompt)
  <2>2. "create_description" \in DescribedSteps \ (FieldSteps \union {"create_confirm_pending"})
    BY DEF DescribedSteps, TypedSteps, KnownSteps, Steps, FieldSteps
  <2>3. \A b \in Prompt : \E k \in DescribedKeys : b = B(k)
    BY DEF DescribedKeys, Prompt
  <2> QED BY <1>1, <1>2, <1>7, <2>2, <2>3, DescribedReply DEF Comes
<1>8. CASE Fail(h)
  BY <1>8, Failing DEF Idle, Comes
<1> QED BY <1>1, <1>4, <1>5, <1>6, <1>7, <1>8 DEF Description, DescButtons

LEMMA AssigneeComes ==
  ASSUME TypeOK, NEW h \in Handlers, job[h].pc = "run",
         Priority(h) \/ Assign(h) \/ SearchAssignee(h) \/ FindAssignee(h)
  PROVE  Comes(h)
<1>1. PICK x \in Drafts : x = Data(h)
  BY DraftInHand
<1>2. Fits(job[h]) => Described(x)
  BY <1>1, AtWork DEF Priority, Assign, SearchAssignee, FindAssignee, Running, DescribedInputs
<1>3. "create_assignee_pending" \in DescribedSteps \ (FieldSteps \union {"create_confirm_pending"})
  BY DEF DescribedSteps, TypedSteps, KnownSteps, Steps, FieldSteps
<1>4. CASE Assign(h)
  BY <1>1, <1>2, <1>4, MaybeAskEpicReplies DEF Assign, Comes
<1>5. CASE Priority(h)
  <2>1. PICK kb : kb = {B("asgn"), B("search")}
    OBVIOUS
  <2>2. Reply(h, "create_assignee_pending", x, kb)
    BY <1>1, <1>5, <2>1 DEF Priority
  <2>3. \A b \in kb : \E k \in DescribedKeys : b = B(k)
    BY <2>1 DEF DescribedKeys
  <2> QED BY <1>1, <1>2, <1>3, <2>2, <2>3, DescribedReply DEF Comes
<1>6. CASE SearchAssignee(h)
  <2>1. Reply(h, "create_assignee_search", x, Prompt)
    BY <1>1, <1>6 DEF SearchAssignee
  <2>2. \A b \in Prompt : \E k \in DescribedKeys : b = B(k)
    BY DEF DescribedKeys, Prompt
  <2>3. "create_assignee_search" \in DescribedSteps \ (FieldSteps \union {"create_confirm_pending"})
    BY DEF DescribedSteps, TypedSteps, KnownSteps, Steps, FieldSteps
  <2> QED BY <1>1, <1>2, <2>1, <2>2, <2>3, DescribedReply DEF Comes
<1>7. CASE FindAssignee(h)
  <2>1. PICK kb : kb = {B("asgn")}
    OBVIOUS
  <2>2. \A b \in kb : \E k \in DescribedKeys : b = B(k)
    BY <2>1 DEF DescribedKeys
  <2>3. CASE Fail(h)
    BY <1>7, <2>3, Failing DEF FindAssignee, Running, Idle, Comes
  <2>4. CASE Reply(h, "create_assignee_pending", job[h].data, kb) /\ job[h].data # NilData
    <3>1. Reply(h, "create_assignee_pending", x, kb)
      BY <1>1, <2>4, DraftInHand
    <3> QED BY <1>1, <1>2, <1>3, <2>2, <3>1, DescribedReply DEF Comes
  <2>5. CASE Reply(h, "create_assignee_pending", job[h].data, kb) /\ job[h].data = NilData
    <3>1. x.d = 0
      BY <1>1, <2>5, DraftInHand
    <3>2. ~Fits(job[h])
      BY <1>2, <3>1 DEF Described, Typed, Known
    <3>3. kb \subseteq Buttons
      BY <2>1, Asked DEF Plain
    <3>4. ReplyAfter(h, {}, "create_assignee_pending", NilData, kb) /\ "create_assignee_pending" \in Steps
      BY <2>5 DEF Reply, Steps
    <3> QED BY <3>2, <3>3, <3>4, NilReply DEF Comes
  <2> QED BY <1>7, <2>1, <2>3, <2>4, <2>5 DEF FindAssignee
<1> QED BY <1>4, <1>5, <1>6, <1>7

\* A value, an option or a skip: the field at hand is behind.
LEMMA FieldComes ==
  ASSUME TypeOK, NEW h \in Handlers, job[h].pc = "run", Value(h) \/ Option(h) \/ SkipField(h)
  PROVE  Comes(h)
<1>1. PICK x \in Drafts : x = Data(h)
  BY DraftInHand
<1>2. Fits(job[h]) => AtField(x)
  BY <1>1, AtWork DEF Value, Option, SkipField, Writes, Running, FieldInputs
<1>3. CASE Fail(h)
  BY <1>3, Failing DEF Idle, Comes
<1>4. ASSUME NEW f \in Answers, NextField(h, [x EXCEPT !.filled = @ \union {f}]),
             Fits(job[h]) => f = x.cur
      PROVE  Tells(h)
  <2>1. PICK c \in SUBSET Answers : c = x.filled \union {f}
    BY DraftFields
  <2>2. PICK y : y = [x EXCEPT !.filled = c]
    OBVIOUS
  <2>3. Kept(y, x) /\ y.filled = c /\ y.idx = x.idx /\ y.epicReq = x.epicReq /\ y.epic = x.epic
    <3>1. "" \in Descs
      BY DEF Descs
    <3> QED BY <2>2, <3>1, Marking DEF Drafts
  <2>4. ASSUME Fits(job[h]) PROVE Passed(y, y.idx)
    <3>1. AtField(x) /\ f = x.cur
      BY <1>2, <1>4, <2>4
    <3>2. Past(y, y.idx)
      <4> SUFFICES ASSUME NEW j \in DOMAIN Order, j <= x.idx, Order[j] \in Required
                   PROVE  Order[j] \in c
        BY <2>3 DEF Past
      <4>1. CASE j = x.idx
        BY <2>1, <3>1, <4>1 DEF AtField
      <4>2. CASE j # x.idx
        <5>1. j <= x.idx - 1
          BY <4>2, Fielded, DraftFields
        <5> QED BY <2>1, <3>1, <5>1 DEF AtField, Passed, Past
      <4> QED BY <4>1, <4>2
    <3>3. Described(y) /\ EpicGiven(y)
      BY <2>3, <3>1, Keeping DEF AtField, Passed, EpicGiven
    <3> QED BY <3>2, <3>3 DEF Passed
  <2>5. NextField(h, y)
    BY <1>4, <2>1, <2>2
  <2>6. y \in Drafts /\ y.d = Data(h).d
    BY <1>1, <2>3 DEF Kept
  <2> QED BY <2>4, <2>5, <2>6, NextFieldReplies
<1>5. CASE Value(h)
  <2>1. PICK f \in Answers : f = x.cur
    BY DraftFields
  <2> QED BY <1>1, <1>3, <1>4, <1>5, <2>1 DEF Value, Comes
<1>6. CASE Option(h)
  <2>1. PICK f : f = job[h].on[2]
    OBVIOUS
  <2>2. Fits(job[h]) => f = x.cur
    BY <1>1, <1>6, <2>1, AtWork DEF Option, Running
  <2>3. CASE x.meta /\ \E i \in 1 .. x.idx : i \in DOMAIN Order /\ Order[i] = f
    <3>1. f \in Answers
      BY <2>3, Fielded, Asked
    <3>2. NextField(h, [x EXCEPT !.filled = @ \union {f}])
      BY <1>1, <1>6, <2>1, <2>3 DEF Option
    <3> QED BY <1>4, <2>2, <3>1, <3>2 DEF Comes
  <2>4. CASE ~(x.meta /\ \E i \in 1 .. x.idx : i \in DOMAIN Order /\ Order[i] = f)
    BY <1>1, <1>3, <1>6, <2>1, <2>4 DEF Option
  <2> QED BY <2>3, <2>4
<1>7. CASE SkipField(h)
  <2>1. ASSUME Fits(job[h]) PROVE Passed(x, x.idx)
    <3>1. AtField(x) /\ x.cur \notin Required
      BY <1>1, <1>2, <1>7, <2>1, AtWork DEF SkipField, Running
    <3>2. Past(x, x.idx)
      <4> SUFFICES ASSUME NEW j \in DOMAIN Order, j <= x.idx, Order[j] \in Required
                   PROVE  Order[j] \in x.filled
        BY DEF Past
      <4>1. j # x.idx
        BY <3>1 DEF AtField
      <4>2. j <= x.idx - 1
        BY <4>1, Fielded, DraftFields
      <4> QED BY <3>1, <4>2 DEF AtField, Passed, Past
    <3> QED BY <3>1, <3>2 DEF AtField, Passed
  <2>2. NextField(h, x)
    BY <1>1, <1>7 DEF SkipField
  <2> QED BY <1>1, <2>1, <2>2, NextFieldReplies DEF Comes
<1> QED BY <1>5, <1>6, <1>7

LEMMA EpicChosenComes ==
  ASSUME TypeOK, NEW h \in Handlers, job[h].pc = "run", ~IsFast(h), NEW x \in Drafts,
         x.d = Data(h).d, x.epic, Fits(job[h]) => Described(x), EpicChosen(h, x)
  PROVE  Comes(h)
<1>1. CASE ~x.retry
  BY <1>1, StartFieldsReplies DEF EpicChosen, EpicGiven, Comes
<1>2. CASE x.retry
  <2>1. PICK y : y = [x EXCEPT !.retry = FALSE]
    OBVIOUS
  <2>2. Kept(y, x)
    <3>1. "" \in Descs /\ {} \in SUBSET Answers
      BY DEF Descs
    <3> QED BY <2>1, <3>1, Marking
  <2>3. Fits(job[h]) => Described(y)
    BY <2>2, Keeping
  <2>4. y \in Drafts /\ y.d = Data(h).d
    BY <2>2 DEF Kept
  <2>5. Goto(h, "send", y) /\ UNCHANGED <<conv, templates, fresh, issues, drafts, hist>>
    BY <1>2, <2>1 DEF EpicChosen
  <2> QED BY <2>3, <2>4, <2>5 DEF Sends, Comes
<1> QED BY <1>1, <1>2

LEMMA EpicComes ==
  ASSUME TypeOK, NEW h \in Handlers, job[h].pc = "run", Epic(h) \/ EpicManual(h)
  PROVE  Comes(h)
<1>1. PICK x \in Drafts : x = Data(h)
  BY DraftInHand
<1>2. Fits(job[h]) => Described(x)
  BY <1>1, AtWork DEF Epic, EpicManual, Writes, Running, DescribedInputs
<1>3. CASE Fail(h)
  BY <1>3, Failing DEF Idle, Comes
<1>4. CASE Epic(h) /\ EpicChosen(h, [x EXCEPT !.epic = TRUE])
  <2>1. PICK y : y = [x EXCEPT !.epic = TRUE]
    OBVIOUS
  <2>2. Kept(y, x) /\ y.epic
    <3>1. "" \in Descs /\ {} \in SUBSET Answers
      BY DEF Descs
    <3> QED BY <2>1, <3>1, Marking
  <2>3. Fits(job[h]) => Described(y)
    BY <1>2, <2>2, Keeping
  <2>4. y \in Drafts /\ y.d = Data(h).d
    BY <1>1, <2>2 DEF Kept
  <2>5. ~IsFast(h)
    BY <1>4 DEF Epic, Writes, Running, IsFast
  <2>6. EpicChosen(h, y)
    BY <1>4, <2>1
  <2> QED BY <2>2, <2>3, <2>4, <2>5, <2>6, EpicChosenComes
<1>5. CASE EpicManual(h)
  <2>1. Reply(h, "create_epic_key", x, Prompt)
    BY <1>1, <1>5 DEF EpicManual
  <2>2. \A b \in Prompt : \E k \in DescribedKeys : b = B(k)
    BY DEF DescribedKeys, Prompt
  <2>3. "create_epic_key" \in DescribedSteps \ (FieldSteps \union {"create_confirm_pending"})
    BY DEF DescribedSteps, TypedSteps, KnownSteps, Steps, FieldSteps
  <2> QED BY <1>1, <1>2, <2>1, <2>2, <2>3, DescribedReply DEF Comes
<1> QED BY <1>1, <1>3, <1>4, <1>5 DEF Epic

LEMMA ConfirmComes ==
  ASSUME TypeOK, NEW h \in Handlers, job[h].pc = "run", Confirm(h) \/ Cancel(h) \/ SaveTemplate(h) \/ TemplateName(h)
  PROVE  Comes(h)
<1>1. PICK x \in Drafts : x = Data(h)
  BY DraftInHand
<1>2. CASE Confirm(h)
  <2>1. Fits(job[h]) => Described(x)
    BY <1>1, <1>2, AtWork DEF Confirm, Running, DescribedInputs
  <2>2. ~IsFast(h)
    BY <1>2 DEF Confirm, Running, IsFast
  <2> QED BY <1>1, <1>2, <2>1, <2>2 DEF Confirm, Sends, Comes
<1>3. CASE Cancel(h)
  BY <1>3, ForgetEnds DEF Cancel, Comes, Tells
<1>4. CASE SaveTemplate(h)
  <2>1. Fits(job[h]) => Described(x)
    BY <1>1, <1>4, AtWork DEF SaveTemplate, Running, DescribedInputs
  <2>2. Reply(h, "create_template_name", x, Prompt)
    BY <1>1, <1>4 DEF SaveTemplate
  <2>3. \A b \in Prompt : \E k \in DescribedKeys : b = B(k)
    BY DEF DescribedKeys, Prompt
  <2>4. "create_template_name" \in DescribedSteps \ (FieldSteps \union {"create_confirm_pending"})
    BY DEF DescribedSteps, TypedSteps, KnownSteps, Steps, FieldSteps
  <2> QED BY <1>1, <2>1, <2>2, <2>3, <2>4, DescribedReply DEF Comes
<1>5. CASE TemplateName(h)
  <2>1. CASE Fail(h)
    BY <2>1, Failing DEF Idle, Comes
  <2>2. CASE /\ templates' = templates \union {x.filled}
             /\ Cleared({}) /\ Done(h)
             /\ UNCHANGED <<fresh, issues, drafts, marks>>
    <3>1. templates' \subseteq SUBSET Answers
      BY <2>2, DraftFields DEF TypeOK
    <3> QED BY <2>2, <3>1, NoEarlier, Forgetting DEF Comes, Tells
  <2> QED BY <1>1, <1>5, <2>1, <2>2 DEF TemplateName
<1> QED BY <1>2, <1>3, <1>4, <1>5

\* The fast way: a draft of its own, answered, confirmed, sent.
LEMMA FastComes ==
  ASSUME TypeOK, NEW h \in Handlers, job[h].pc = "run",
         ShowFast(h) \/ FastGo(h) \/ FastEpic(h) \/ FastCancel(h)
  PROVE  Comes(h)
<1>1. PICK x \in Drafts : x = Data(h)
  BY DraftInHand
<1>2. CASE ShowFast(h)
  <2>1. Fits(job[h]) => Known(x)
    BY <1>1, <1>2, AtWork DEF ShowFast, Running, KnownInputs
  <2>2. PICK kb : kb = {B("go"), B("fast_cancel")}
    OBVIOUS
  <2>3. Reply(h, "createfast_confirm_pending", x, kb)
    BY <1>1, <1>2, <2>2 DEF ShowFast, FastPreview
  <2> QED BY <1>1, <2>1, <2>2, <2>3, FastReply DEF Comes
<1>3. ASSUME NEW y, Kept(y, x), SendFast(h, y), job[h].on[1] \in {"go", "fast_epic"}
      PROVE  Comes(h)
  <2>1. CASE Forget(h)
    BY <2>1, ForgetEnds DEF Comes, Tells
  <2>2. CASE /\ Cleared({}) /\ Goto(h, "send", y)
             /\ UNCHANGED <<templates, fresh, issues, drafts, marks>>
    <3>1. y \in Drafts /\ y.d = Data(h).d
      BY <1>1, <1>3 DEF Kept
    <3>2. Fits(job[h]) => Known(y)
      BY <1>1, <1>3, AtWork, Keeping DEF KnownInputs
    <3>3. IsFast(h)
      BY <1>3 DEF IsFast
    <3>4. CASE conv' = NoConv /\ UNCHANGED <<disorder, kept>>
      <4>1. Sends(h)
        BY <2>2, <3>1, <3>2, <3>3, <3>4 DEF Sends, hist, marks
      <4> QED BY <4>1 DEF Comes
    <3>5. CASE conv' \in {} \union {conv} /\ Disturb /\ kept' = kept \union DraftOf(conv'.data)
      <4>1. PICK w \in [on : Inputs, pc : PCs, data : Maps] : w = job[h]
        BY DEF TypeOK
      <4>2. PICK j : j = [w EXCEPT !.pc = "send", !.data = y]
        OBVIOUS
      <4>3. j = [on |-> w.on, pc |-> "send", data |-> y]
        BY <4>2, Moved
      <4>4. j \in [on : Inputs, pc : PCs, data : Maps]
        BY <3>1, <4>1, <4>3 DEF PCs, Maps
      <4>5. job' = [job EXCEPT ![h] = j] /\ j.pc = "send" /\ j.data = y
        BY <2>2, <4>1, <4>2, <4>3 DEF Goto, TypeOK
      <4>6. y # NilData
        BY <3>1, NilAssumption
      <4>7. /\ conv' \in {conv} \union {c \in [step : Steps, data : Drafts] : c.data.d = Data(h).d}
            /\ kept \subseteq kept' /\ kept' \subseteq 1 .. MaxDrafts
            /\ \A d \in (1 .. MaxDrafts) \ kept' : ~Saved(d)'
        BY <3>5, StillThere, NoEarlier
      <4>8. drafts' \in {drafts, drafts + 1} /\ drafts' <= MaxDrafts
        BY <2>2 DEF TypeOK
      <4>9. LosesTo(h, j)
        BY <2>2, <3>1, <3>5, <4>5, <4>6, <4>7, <4>8 DEF LosesTo, TypeOK
      <4> QED BY <4>4, <4>9 DEF Loses, Comes, Tells
    <3> QED BY <2>2, <3>4, <3>5 DEF Cleared
  <2> QED BY <1>3, <2>1, <2>2 DEF SendFast
<1>4. CASE FastGo(h)
  <2>1. Kept(x, x)
    BY DEF Kept
  <2> QED BY <1>1, <1>3, <1>4, <2>1 DEF FastGo, Running
<1>5. CASE FastEpic(h)
  <2>1. PICK y : y = [x EXCEPT !.epic = TRUE]
    OBVIOUS
  <2>2. Kept(y, x)
    <3>1. "" \in Descs /\ {} \in SUBSET Answers
      BY DEF Descs
    <3> QED BY <2>1, <3>1, Marking
  <2> QED BY <1>1, <1>3, <1>5, <2>1, <2>2 DEF FastEpic, Running
<1>6. CASE FastCancel(h)
  BY <1>6, ForgetEnds DEF FastCancel, Comes, Tells
<1> QED BY <1>2, <1>4, <1>5, <1>6

LEMMA QuickComes ==
  ASSUME TypeOK, NEW h \in Handlers, job[h].pc = "run", CreateFast(h) \/ Quick(h)
  PROVE  Comes(h)
<1>1. CASE Fail(h)
  BY <1>1, Failing DEF Idle, Comes
<1>2. PICK n : n = NewDraft
  OBVIOUS
<1>3. drafts < MaxDrafts => n \in Drafts /\ n.d = drafts + 1 /\ n.d # 0
  BY <1>2, New
<1>4. PICK w \in [on : Inputs, pc : PCs, data : Maps] : w = job[h]
  BY DEF TypeOK
<1>5. w.pc = "run"
  BY <1>4
<1>8. Unasked \subseteq BOOLEAN
  BY TypesAssumption DEF Unasked
<1>6. ASSUME CreateFast(h), drafts < MaxDrafts, NEW u \in Unasked \union {FALSE},
             drafts' = drafts + 1,
             job' = [job EXCEPT ![h].on = B("preview"),
                       ![h].data = [NewDraft EXCEPT !.meta = TRUE, !.summary = TRUE,
                                                    !.unasked = u, !.filled = FastDefaults]],
             UNCHANGED <<conv, templates, fresh, issues, hist>>
      PROVE  Comes(h)
  <2>1. PICK y : y = [n EXCEPT !.meta = TRUE, !.summary = TRUE, !.unasked = u, !.filled = FastDefaults]
    OBVIOUS
  <2>2. FastDefaults \subseteq Answers
    BY RequiredAssumption DEF FastDefaults, Answers
  <2>3. y \in Drafts /\ y.d = drafts + 1 /\ Known(y)
    BY <1>3, <1>6, <1>8, <2>1, <2>2 DEF Drafts, Known
  <2>4. PICK j : j = [on |-> B("preview"), pc |-> "run", data |-> y]
    OBVIOUS
  <2>5. j \in [on : Inputs, pc : {"run", "send"}, data : Drafts]
    BY <2>3, <2>4 DEF Inputs, B
  <2>6. Serves(B("preview"), y)
    BY <2>3, Services DEF KnownInputs, TypedInputs, DescribedInputs, FieldInputs
  <2>7. Fits(j)
    BY <2>4, <2>6 DEF Fits, Sending
  <2>10. PICK b : b = B("preview")
    OBVIOUS
  <2>8. [w EXCEPT !.on = b, !.data = y] = j
    BY <1>5, <2>4, <2>10, Redone
  <2>9. job' = [job EXCEPT ![h].on = B("preview"), ![h].data = y]
    BY <1>2, <1>6, <2>1
  <2>11. job' = [job EXCEPT ![h] = j]
    BY <1>4, <2>8, <2>9, <2>10 DEF TypeOK
  <2> QED BY <1>6, <2>3, <2>4, <2>5, <2>7, <2>11 DEF Begins, Comes
<1>7. ASSUME Quick(h), drafts < MaxDrafts, NEW u \in Unasked, drafts' = drafts + 1,
             Goto(h, "send", [NewDraft EXCEPT !.meta = TRUE, !.summary = TRUE, !.unasked = u]),
             UNCHANGED <<conv, templates, fresh, issues, hist>>
      PROVE  Comes(h)
  <2>1. PICK y : y = [n EXCEPT !.meta = TRUE, !.summary = TRUE, !.unasked = u]
    OBVIOUS
  <2>3. y \in Drafts /\ y.d = drafts + 1 /\ Known(y)
    BY <1>3, <1>7, <1>8, <2>1 DEF Drafts, Known
  <2>4. PICK j : j = [on |-> w.on, pc |-> "send", data |-> y]
    OBVIOUS
  <2>5. j \in [on : Inputs, pc : {"run", "send"}, data : Drafts]
    BY <1>4, <2>3, <2>4
  <2>6. w.on[1] = "quick"
    BY <1>4, <1>7 DEF Quick, Running
  <2>7. Fits(j)
    BY <2>3, <2>4, <2>6 DEF Fits, Sending, FastInputs
  <2>8. [w EXCEPT !.pc = "send", !.data = y] = j
    BY <1>5, <2>4, Moved
  <2>9. Goto(h, "send", y)
    BY <1>2, <1>7, <2>1
  <2>11. job' = [job EXCEPT ![h] = j]
    BY <1>4, <2>8, <2>9 DEF TypeOK, Goto
  <2> QED BY <1>7, <2>3, <2>4, <2>5, <2>7, <2>11 DEF Begins, Comes
<1> QED BY <1>1, <1>6, <1>7 DEF CreateFast, Quick

LEMMA AskComes ==
  ASSUME TypeOK, NEW h \in Handlers, job[h].pc = "run", Ask(h), ~Panic(h)
  PROVE  Comes(h)
<1> QED BY Starting, FromTemplateComes, TypeComes, PickTemplateComes, SummaryComes,
           DescriptionComes, AssigneeComes, FieldComes, EpicComes, ConfirmComes, FastComes,
           QuickComes DEF Ask

\* Jira wants an epic: it is asked for, and the rest is known already.
LEMMA EpicRefusedComes ==
  ASSUME TypeOK, NEW h \in Handlers, job[h].data # NilData, EpicRefused(h)
  PROVE  Tells(h) \/ Ends(h)
<1>1. PICK x \in Drafts : x = job[h].data /\ x = Data(h)
  BY DraftInHand
<1>2. job[h].pc = "epic"
  BY DEF EpicRefused
<1>3. Fits(job[h]) => IF IsFast(h) THEN Known(x) ELSE Described(x)
  BY <1>1, <1>2 DEF Fits, Sending, FastInputs, IsFast
<1>4. PICK y : y = [x EXCEPT !.epicReq = TRUE]
  OBVIOUS
<1>5. PICK z : z = [y EXCEPT !.retry = TRUE]
  OBVIOUS
<1>6. "" \in Descs /\ {} \in SUBSET Answers
  BY DEF Descs
<1>7. Kept(y, x)
  BY <1>4, <1>6, Marking
<1>8. y \in Drafts
  BY <1>7 DEF Kept
<1>9. Kept(z, y)
  BY <1>5, <1>6, <1>8, Marking
<1>10. z \in Drafts /\ y.d = Data(h).d /\ z.d = Data(h).d
  BY <1>1, <1>7, <1>9 DEF Kept
<1>11. CASE Fail(h)
  BY <1>2, <1>11, Failing DEF Idle
<1>12. CASE IsFast(h) /\ AskFastEpic(h, y)
  <2>1. CASE ForgetAfter(h, {[step |-> "createfast_epic_pending", data |-> y]})
    <3>1. PICK earlier : earlier = {[step |-> "createfast_epic_pending", data |-> y]}
      OBVIOUS
    <3>2. Earlier(h, earlier)
      BY <1>8, <1>10, <3>1, LeftEarlier DEF Steps
    <3> QED BY <1>2, <2>1, <3>1, <3>2, Forgetting DEF ForgetAfter, Tells, TypeOK
  <2>2. CASE Reply(h, "createfast_epic_pending", y, {B("fast_epic"), B("fast_leave")})
    <3>1. PICK kb : kb = {B("fast_epic"), B("fast_leave")}
      OBVIOUS
    <3>2. Fits(job[h]) => Known(y)
      BY <1>3, <1>7, <1>12, Keeping
    <3> QED BY <1>2, <1>8, <1>10, <2>2, <3>1, <3>2, FastReply
  <2> QED BY <1>12, <2>1, <2>2 DEF AskFastEpic
<1>13. CASE ~IsFast(h) /\ AskEpic(h, z)
  <2>1. Fits(job[h]) => Described(z)
    BY <1>3, <1>7, <1>9, <1>13, Keeping
  <2> QED BY <1>2, <1>10, <1>13, <2>1, AskEpicReplies
<1> QED BY <1>1, <1>4, <1>5, <1>11, <1>12, <1>13 DEF EpicRefused

-----------------------------------------------------------------------------
(* Types                                                                   *)

LEMMA ComesTyped ==
  ASSUME TypeOK, NEW h \in Handlers, Comes(h)
  PROVE  TypeOK'
<1>1. CASE Replies(h)
  BY <1>1, MenuTyped DEF Replies, Puts, Done, Show, TypeOK, hist
<1>7. CASE Loses(h)
  <2>1. PICK j \in [on : Inputs, pc : PCs, data : Maps] : LosesTo(h, j)
    BY <1>7 DEF Loses
  <2>2. conv' \in [step : Steps, data : Maps]
    BY <2>1 DEF LosesTo, TypeOK, Maps
  <2>3. drafts' \in 0 .. MaxDrafts
    BY <2>1, BoundsAssumption DEF LosesTo, TypeOK
  <2>4. disorder' \in 0 .. MaxDisorder
    BY <2>1, BoundsAssumption DEF LosesTo, Disturb, TypeOK
  <2> QED BY <2>1, <2>2, <2>3, <2>4 DEF LosesTo, TypeOK, marks
<1>2. CASE Ends(h)
  <2>1. conv' \in [step : Steps, data : Maps]
    BY <1>2, MenuTyped DEF Ends, TypeOK
  <2>2. fresh' \subseteq Buttons
    BY <1>2, MenuTyped DEF Ends, TypeOK
  <2> QED BY <1>2, <2>1, <2>2, MenuTyped DEF Ends, Done, TypeOK, hist
<1>3. CASE AsksType(h)
  <2>1. PICK n \in Drafts : n = NewDraft
    BY <1>3, New DEF AsksType
  <2>2. conv' \in [step : Steps, data : Maps]
    BY <1>3, <2>1 DEF AsksType, Maps, Steps
  <2>3. fresh' \subseteq Buttons
    BY <1>3, Asked DEF AsksType, Plain
  <2>4. drafts' \in 0 .. MaxDrafts
    BY <1>3, BoundsAssumption DEF AsksType, TypeOK
  <2> QED BY <1>3, <2>2, <2>3, <2>4, MenuTyped DEF AsksType, Done, TypeOK, hist
<1>4. CASE Begins(h)
  <2>1. PICK j \in [on : Inputs, pc : {"run", "send"}, data : Drafts] :
          drafts < MaxDrafts /\ drafts' = drafts + 1 /\ job' = [job EXCEPT ![h] = j]
    BY <1>4 DEF Begins
  <2>2. j \in [on : Inputs, pc : PCs, data : Maps]
    BY DEF PCs, Maps
  <2>3. drafts' \in 0 .. MaxDrafts
    BY <2>1, BoundsAssumption DEF TypeOK
  <2> QED BY <1>4, <2>1, <2>2, <2>3 DEF Begins, TypeOK, hist
<1>5. CASE Sends(h)
  <2>1. PICK y \in Drafts : Goto(h, "send", y)
    BY <1>5 DEF Sends
  <2>2. job' \in [Handlers -> [on : Inputs, pc : PCs, data : Maps]]
    <3>1. PICK w \in [on : Inputs, pc : PCs, data : Maps] : w = job[h]
      BY DEF TypeOK
    <3>2. [w EXCEPT !.pc = "send", !.data = y] \in [on : Inputs, pc : PCs, data : Maps]
      BY DEF PCs, Maps
    <3> QED BY <2>1, <3>1, <3>2 DEF Goto, TypeOK
  <2>3. conv' \in [step : Steps, data : Maps]
    BY <1>5, MenuTyped DEF Sends, TypeOK
  <2> QED BY <1>5, <2>2, <2>3 DEF Sends, TypeOK, hist
<1>6. CASE Drops(h)
  <2>1. B("types") \in Inputs
    BY DEF B, Inputs
  <2> QED BY <1>6, <2>1, MenuTyped DEF Drops, TypeOK, hist
<1> QED BY <1>1, <1>2, <1>3, <1>4, <1>5, <1>6, <1>7 DEF Comes, Tells

LEMMA ReadsTyped == ASSUME TypeOK PROVE Reads \subseteq Maps
<1> QED BY EmptyDraft DEF Reads, TypeOK, Maps

LEMMA BeginTyped ==
  ASSUME TypeOK, NEW h \in Handlers, NEW on \in Inputs, NEW pc \in PCs, NEW x \in Maps,
         NEW t \in BOOLEAN, Free(h, t), Begin(h, on, pc, x, t)
  PROVE  TypeOK'
<1>1. disorder' \in 0 .. MaxDisorder
  BY BoundsAssumption DEF Free, Begin, TypeOK
<1>2. overlapped' \subseteq 1 .. MaxDrafts
  <2>1. DraftOf(x) \subseteq 1 .. MaxDrafts
    <3>1. CASE x = NilData
      BY <3>1 DEF DraftOf
    <3>2. CASE x \in Drafts /\ x # NilData
      BY <3>2, DraftFields, BoundsAssumption DEF DraftOf
    <3> QED BY <3>1, <3>2 DEF Maps
  <2> QED BY <2>1 DEF Begin, TypeOK
<1>3. job' \in [Handlers -> [on : Inputs, pc : PCs, data : Maps]]
  BY DEF Begin, TypeOK
<1> QED BY <1>1, <1>2, <1>3 DEF Begin, TypeOK

LEMMA ExpectedTyped == Expected \in Texts \union {"createfast", "none"}
<1> QED BY DEF Expected, Texts

\* What the arrival of an input comes to.
LEMMA Arriving ==
  ASSUME TypeOK, NEW h \in Handlers,
         \/ \E b \in Buttons : Tap(h, b)
         \/ Text(h)
         \/ \E c \in Commands : Command(h, c)
  PROVE  \E on \in Inputs, pc \in {"run", "routed"}, x \in Maps, t \in BOOLEAN :
           /\ Free(h, t) /\ Begin(h, on, pc, x, t)
           /\ x \in Reads \union {NilData}
           /\ t => \/ on \in fresh /\ x \in Reads
                   \/ on = B(Expected) /\ x \in Reads
                   \/ on[1] \in Commands
<1>1. ASSUME NEW b \in Buttons, Tap(h, b)
      PROVE  \E x \in Reads \union {NilData}, t \in BOOLEAN :
               Free(h, t) /\ Begin(h, b, "run", x, t) /\ (t => b \in fresh /\ x \in Reads)
  <2>1. CASE Free(h, b \in fresh) /\ \E x \in Reads : Begin(h, b, "run", x, b \in fresh)
    <3>1. CASE b \in fresh
      BY <2>1, <3>1 DEF Free, Begin
    <3>2. CASE b \notin fresh
      BY <2>1, <3>2 DEF Free, Begin
    <3> QED BY <3>1, <3>2
  <2>2. CASE Free(h, FALSE) /\ Begin(h, b, "run", NilData, FALSE)
    BY <2>2
  <2> QED BY <1>1, <2>1, <2>2 DEF Tap
<1>2. CASE \E b \in Buttons : Tap(h, b)
  <2>1. PICK b \in Buttons, x \in Reads \union {NilData}, t \in BOOLEAN :
          Free(h, t) /\ Begin(h, b, "run", x, t) /\ (t => b \in fresh /\ x \in Reads)
    BY <1>1, <1>2
  <2>2. b \in Inputs /\ x \in Maps
    BY ReadsTyped DEF Inputs, Maps
  <2> QED BY <2>1, <2>2
<1>5. CASE Free(h, FALSE) /\ Begin(h, B("createfast"), "run", NilData, FALSE)
  <2>1. PICK on : on = B("createfast")
    OBVIOUS
  <2>2. on \in Inputs /\ NilData \in Maps
    BY <2>1 DEF Inputs, B, Commands, Maps
  <2> QED BY <1>5, <2>1, <2>2
<1>3. CASE /\ Free(h, TRUE) /\ Expected # "none"
           /\ \E x \in Reads :
                Begin(h, B(Expected), IF Expected = "createfast" THEN "run" ELSE "routed", x, TRUE)
  <2>1. PICK x \in Reads, pc \in {"run", "routed"} : Begin(h, B(Expected), pc, x, TRUE)
    BY <1>3
  <2>2. PICK on : on = B(Expected)
    OBVIOUS
  <2>3. on \in Inputs
    BY <1>3, <2>2, ExpectedTyped DEF Inputs, B, Commands
  <2> QED BY <1>3, <2>1, <2>2, <2>3, ReadsTyped
<1>4. CASE \E c \in Commands : Command(h, c)
  <2>1. PICK c \in Commands : Command(h, c)
    BY <1>4
  <2>4. PICK on : on = B(c)
    OBVIOUS
  <2>3. \E t \in BOOLEAN : Free(h, t) /\ Begin(h, on, "run", NilData, t)
    <3>1. CASE conv = NoConv
      BY <2>1, <2>4, <3>1 DEF Command, Free, Begin
    <3>2. CASE conv # NoConv
      BY <2>1, <2>4, <3>2 DEF Command, Free, Begin
    <3> QED BY <3>1, <3>2
  <2>5. on \in Inputs /\ on[1] \in Commands /\ NilData \in Maps
    BY <2>4 DEF Inputs, B, Maps
  <2> QED BY <2>3, <2>4, <2>5
<1> QED BY <1>2, <1>3, <1>4, <1>5 DEF Text

LEMMA Moving ==
  ASSUME TypeOK, NEW h \in Handlers, NEW p \in PCs, NEW y \in Maps, Goto(h, p, y)
  PROVE  \E j \in [on : Inputs, pc : PCs, data : Maps] :
           /\ job' = [job EXCEPT ![h] = j]
           /\ j.on = job[h].on /\ j.pc = p /\ j.data = y
<1>1. PICK w \in [on : Inputs, pc : PCs, data : Maps] : w = job[h]
  BY DEF TypeOK
<1>2. PICK j : j = [w EXCEPT !.pc = p, !.data = y]
  OBVIOUS
<1>3. j = [on |-> w.on, pc |-> p, data |-> y]
  BY <1>2, Moved
<1>4. job' = [job EXCEPT ![h] = j]
  BY <1>1, <1>2 DEF Goto, TypeOK
<1>5. j \in [on : Inputs, pc : PCs, data : Maps]
  BY <1>1, <1>3
<1>6. j.on = job[h].on /\ j.pc = p /\ j.data = y
  BY <1>1, <1>3
<1> QED BY <1>4, <1>5, <1>6

\* The answer of Jira, and what is left to do after it.
LEMMA SendTyped ==
  ASSUME TypeOK, Handed, NEW h \in Handlers, SendIssue(h) \/ (Created(h) /\ IsFast(h))
  PROVE  TypeOK'
<1>1. CASE SendIssue(h)
  <2>1. PICK x : x = job[h].data
    OBVIOUS
  <2>2. x \in Drafts
    BY <1>1, <2>1 DEF SendIssue, Handed, Sending, TypeOK, Maps
  <2>3. PICK p \in PCs : Goto(h, p, x)
    BY <1>1, <2>1 DEF SendIssue, PCs
  <2>4. job' \in [Handlers -> [on : Inputs, pc : PCs, data : Maps]]
    <3>1. x \in Maps
      BY <2>2 DEF Maps
    <3>2. PICK j \in [on : Inputs, pc : PCs, data : Maps] : job' = [job EXCEPT ![h] = j]
      BY <2>3, <3>1, Moving
    <3> QED BY <3>2 DEF TypeOK
  <2>5. issues' \in [1 .. MaxDrafts -> 0 .. MaxIssues] /\ unsure' \subseteq 1 .. MaxDrafts
    <3>1. CASE Acceptable(x) /\ issues[x.d] < MaxIssues /\ issues' = [issues EXCEPT ![x.d] = @ + 1]
               /\ (UNCHANGED unsure \/ unsure' = unsure \union {x.d})
      <4>1. x.d \in 1 .. MaxDrafts
        BY <2>2, <3>1, DraftFields, BoundsAssumption DEF Acceptable
      <4>2. issues[x.d] + 1 \in 0 .. MaxIssues
        BY <3>1, <4>1, BoundsAssumption DEF TypeOK
      <4> QED BY <3>1, <4>1, <4>2 DEF TypeOK
    <3>2. CASE UNCHANGED <<issues, unsure>>
      BY <3>2 DEF TypeOK
    <3> QED BY <1>1, <2>1, <3>1, <3>2 DEF SendIssue
  <2> QED BY <1>1, <2>4, <2>5 DEF SendIssue, TypeOK
<1>2. CASE Created(h) /\ IsFast(h)
  <2>1. PICK x \in Maps : x = job[h].data
    BY DEF TypeOK
  <2>2. "files" \in PCs /\ Goto(h, "files", x)
    BY <1>2, <2>1 DEF Created, PCs
  <2>3. job' \in [Handlers -> [on : Inputs, pc : PCs, data : Maps]]
    BY <2>2, Moving DEF TypeOK
  <2> QED BY <1>2, <2>3 DEF Created, TypeOK, hist
<1> QED BY <1>1, <1>2

\* What is left of Send only ends, or asks for an epic.
LEMMA SendComes ==
  ASSUME TypeOK, Handed, NEW h \in Handlers, Send(h), ~SendIssue(h), ~(Created(h) /\ IsFast(h))
  PROVE  Comes(h)
<1>1. CASE Created(h)
  BY <1>1, ForgetEnds DEF Created, Comes, Tells
<1>2. CASE Upload(h) \/ Refused(h)
  BY <1>2, Failing DEF Upload, Refused, Idle, Comes
<1>3. CASE EpicRefused(h)
  BY <1>3, EpicRefusedComes DEF Handed, EpicRefused, Sending, Comes
<1> QED BY <1>1, <1>2, <1>3 DEF Send

\* Expiry, restart, panic and reading again.
LEMMA OtherTyped ==
  ASSUME TypeOK, Expire \/ Restart \/ \E h \in Handlers : Panic(h) \/ ReadAgain(h)
  PROVE  TypeOK'
<1>1. CASE Expire
  <2>1. disorder' \in 0 .. MaxDisorder
    BY <1>1, BoundsAssumption DEF Expire, Disturb, TypeOK
  <2> QED BY <1>1, <2>1, MenuTyped DEF Expire, TypeOK
<1>2. CASE Restart
  <2>1. disorder' \in 0 .. MaxDisorder
    BY <1>2, BoundsAssumption DEF Restart, Disturb, TypeOK
  <2>2. \A h \in Handlers : DraftOf(job[h].data) \subseteq 1 .. MaxDrafts
    <3>1. TAKE h \in Handlers
    <3>2. CASE job[h].data = NilData
      BY <3>2 DEF DraftOf
    <3>3. CASE job[h].data # NilData
      <4>1. job[h].data \in Drafts
        BY <3>3 DEF TypeOK, Maps
      <4> QED BY <3>3, <4>1, DraftFields, BoundsAssumption DEF DraftOf
    <3> QED BY <3>2, <3>3
  <2>3. unsure' \subseteq 1 .. MaxDrafts
    <3>1. ASSUME NEW d \in unsure', d \notin unsure
          PROVE  \E h \in Handlers : d \in DraftOf(job[h].data)
      BY <1>2, <3>1 DEF Restart
    <3> QED BY <2>2, <3>1 DEF TypeOK
  <2> QED BY <1>2, <2>1, <2>3, MenuTyped DEF Restart, TypeOK
<1>3. ASSUME NEW h \in Handlers, Panic(h) PROVE TypeOK'
  BY <1>3, MenuTyped DEF Panic, TypeOK
<1>4. ASSUME NEW h \in Handlers, ReadAgain(h) PROVE TypeOK'
  <2>1. PICK x \in Reads \union {NilData} :
               /\ job' = [job EXCEPT ![h].pc = "run", ![h].data = x]
               /\ overlapped' = overlapped \union (DraftOf(x) \intersect Held(h))
    BY <1>4 DEF ReadAgain
  <2>2. x \in Maps
    BY ReadsTyped DEF Maps
  <2>5. disorder' \in 0 .. MaxDisorder
    BY <1>4, BoundsAssumption DEF ReadAgain, Disturb, TypeOK
  <2>3. job' \in [Handlers -> [on : Inputs, pc : PCs, data : Maps]]
    <3>1. "run" \in PCs /\ Goto(h, "run", x)
      BY <2>1 DEF PCs, Goto
    <3> QED BY <2>2, <3>1, Moving DEF TypeOK
  <2>4. DraftOf(x) \subseteq 1 .. MaxDrafts
    <3>1. CASE x = NilData
      BY <3>1 DEF DraftOf
    <3>2. CASE x \in Drafts /\ x # NilData
      BY <3>2, DraftFields, BoundsAssumption DEF DraftOf
    <3> QED BY <2>2, <3>1, <3>2 DEF Maps
  <2> QED BY <1>4, <2>1, <2>3, <2>4, <2>5 DEF ReadAgain, TypeOK
<1> QED BY <1>1, <1>2, <1>3, <1>4

-----------------------------------------------------------------------------
(* Every step is one of these                                              *)

Arrives(h, on, pc, x, t) ==
  /\ Free(h, t) /\ Begin(h, on, pc, x, t)
  /\ x \in Reads \union {NilData}
  /\ t => \/ on \in fresh /\ x \in Reads
          \/ on = B(Expected) /\ x \in Reads
          \/ on[1] \in Commands

LEMMA Stepping ==
  ASSUME TypeOK, Handed, Next
  PROVE  \/ \E h \in Handlers, on \in Inputs, pc \in {"run", "routed"}, x \in Maps, t \in BOOLEAN :
              Arrives(h, on, pc, x, t)
         \/ \E h \in Handlers : Comes(h)
         \/ \E h \in Handlers : SendIssue(h) \/ (Created(h) /\ IsFast(h))
         \/ Expire \/ Restart \/ \E h \in Handlers : Panic(h) \/ ReadAgain(h)
<1>1. ASSUME NEW h \in Handlers,
             (\E b \in Buttons : Tap(h, b)) \/ Text(h) \/ (\E c \in Commands : Command(h, c))
      PROVE  \E on \in Inputs, pc \in {"run", "routed"}, x \in Maps, t \in BOOLEAN :
               Arrives(h, on, pc, x, t)
  BY <1>1, Arriving DEF Arrives
<1>2. ASSUME NEW h \in Handlers, Work(h)
      PROVE  Comes(h) \/ SendIssue(h) \/ (Created(h) /\ IsFast(h)) \/ Panic(h) \/ ReadAgain(h)
  BY <1>2, AskComes, SendComes DEF Work
<1> QED BY <1>1, <1>2 DEF Next

LEMMA NextTyped ==
  ASSUME TypeOK, Handed, Next
  PROVE  TypeOK'
<1>1. ASSUME NEW h \in Handlers, NEW on \in Inputs, NEW pc \in {"run", "routed"}, NEW x \in Maps,
             NEW t \in BOOLEAN, Arrives(h, on, pc, x, t)
      PROVE  TypeOK'
  BY <1>1, BeginTyped DEF Arrives, PCs
<1> QED BY <1>1, Stepping, ComesTyped, SendTyped, OtherTyped

-----------------------------------------------------------------------------
(* Inputs in turn                                                          *)

\* A busy handler goes on with a job that fits, or answers and is done.
LEMMA Turn ==
  ASSUME TypeOK, InTurn, NEW h \in Handlers, job[h].pc # Idle,
         NEW j, job' = [job EXCEPT ![h] = j], UNCHANGED <<disorder, panicked>>,
         Orderly => /\ Reached(conv'.step, conv'.data)
                    /\ \A b \in fresh' : Serves(b, conv'.data)
                    /\ Fits(j) /\ j.pc # "routed" /\ (j.pc # Idle => fresh' = {})
  PROVE  InTurn'
<1> SUFFICES ASSUME Orderly'
             PROVE  (~panicked /\ Alone /\ Answered /\ Reached(conv.step, conv.data) /\ Offered /\ Working)'
  BY DEF InTurn
<1>1. Orderly /\ Alone /\ Answered /\ Working /\ ~panicked
  BY DEF InTurn, Orderly
<1>2. \A g \in Handlers \ {h} : job'[g] = job[g] /\ job[g].pc = Idle
  BY <1>1 DEF Alone, TypeOK
<1>3. job'[h] = j
  BY DEF TypeOK
<1>4. Alone'
  BY <1>2 DEF Alone
<1>5. Answered'
  BY <1>1, <1>2, <1>3 DEF Answered
<1>6. Working'
  <2> SUFFICES ASSUME NEW g \in Handlers
               PROVE  Fits(job'[g]) /\ (job'[g].pc = "routed" => Serves(job'[g].on, conv'.data))
    BY DEF Working
  <2>1. CASE g = h
    BY <1>1, <1>3, <2>1
  <2>2. CASE g # h
    BY <1>2, <2>2 DEF Fits, Sending, Idle
  <2> QED BY <2>1, <2>2
<1> QED BY <1>1, <1>4, <1>5, <1>6 DEF Offered

LEMMA Nothing == Fits(NoJob) /\ NoJob.pc = Idle /\ NoConv.step = "" /\ NoConv.data = NilData
                 /\ Reached("", NilData) /\ \A x : \A b \in Menu : Serves(b, x)
<1>1. Fits(NoJob) /\ NoJob.pc = Idle
  BY DEF Fits, NoJob, Idle, Sending
<1>2. NoConv.step = "" /\ NoConv.data = NilData
  BY DEF NoConv
<1>3. Reached("", NilData)
  BY DEF Reached, KnownSteps, TypedSteps, DescribedSteps, FieldSteps
<1> QED BY <1>1, <1>2, <1>3, Services

LEMMA ComesInTurn ==
  ASSUME TypeOK, InTurn, NEW h \in Handlers, Comes(h)
  PROVE  InTurn'
<1>0. job[h].pc # Idle
  BY DEF Comes, Tells, Replies, Loses, LosesTo, Ends, AsksType, Begins, Sends, Drops, Idle
<1>1. Orderly => /\ Fits(job[h]) /\ fresh = {}
                 /\ Reached(conv.step, conv.data) /\ \A b \in fresh : Serves(b, conv.data)
  BY <1>0 DEF InTurn, Working, Answered, Offered
<1>2. CASE Replies(h)
  <2>1. PICK s \in Steps, x \in Maps, kb \in SUBSET Buttons :
          /\ Puts(h, s, x, kb)
          /\ Fits(job[h]) => Reached(s, x) /\ \A b \in kb : Serves(b, x)
    BY <1>2 DEF Replies
  <2>2. conv'.step = s /\ conv'.data = x /\ fresh' = kb /\ job' = [job EXCEPT ![h] = NoJob]
    BY <2>1 DEF Puts, Show, Done
  <2>3. UNCHANGED <<disorder, panicked>>
    BY <2>1 DEF Puts, hist
  <2> QED BY <1>0, <1>1, <2>1, <2>2, <2>3, Nothing, Turn DEF Idle
<1>8. CASE Loses(h)
  <2>1. ~Orderly'
    BY <1>8 DEF Loses, LosesTo, Disturb, Orderly, TypeOK
  <2> QED BY <2>1 DEF InTurn
<1>3. CASE Ends(h)
  <2>1. job' = [job EXCEPT ![h] = NoJob] /\ UNCHANGED <<disorder, panicked>>
    BY <1>3 DEF Ends, Done, hist
  <2>2. Orderly => Reached(conv'.step, conv'.data)
    BY <1>1, <1>3, Nothing DEF Ends
  <2>3. Orderly => \A b \in fresh' : Serves(b, conv'.data)
    BY <1>1, <1>3, Nothing DEF Ends
  <2> QED BY <1>0, <2>1, <2>2, <2>3, Nothing, Turn DEF Idle
<1>4. CASE AsksType(h)
  <2>1. PICK n : n = NewDraft
    OBVIOUS
  <2>2. Known(n)
    BY <1>4, <2>1, New DEF AsksType, Known
  <2>3. conv'.step = "create_type_pending" /\ conv'.data = n /\ fresh' = {B("type"), B("cancel")}
    BY <1>4, <2>1 DEF AsksType
  <2>4. Reached("create_type_pending", n)
    BY <2>2, Stages DEF KnownSteps, TypedSteps, Steps
  <2>5. Serves(B("type"), n) /\ Serves(B("cancel"), n)
    BY <2>2, Services DEF Menu, KnownInputs, TypedInputs, DescribedInputs, FieldInputs
  <2>6. job' = [job EXCEPT ![h] = NoJob] /\ UNCHANGED <<disorder, panicked>>
    BY <1>4 DEF AsksType, Done, hist
  <2> QED BY <1>0, <2>3, <2>4, <2>5, <2>6, Nothing, Turn DEF Idle
<1>5. CASE Begins(h)
  <2>1. PICK j \in [on : Inputs, pc : {"run", "send"}, data : Drafts] :
          job' = [job EXCEPT ![h] = j] /\ Fits(j)
    BY <1>5 DEF Begins
  <2>2. UNCHANGED <<conv, fresh, disorder, panicked>>
    BY <1>5 DEF Begins, hist
  <2>3. j.pc # "routed"
    OBVIOUS
  <2> QED BY <1>0, <1>1, <2>1, <2>2, <2>3, Turn
<1>6. CASE Sends(h)
  <2>1. PICK y \in Drafts :
          Goto(h, "send", y) /\ (Fits(job[h]) => IF IsFast(h) THEN Known(y) ELSE Described(y))
    BY <1>6 DEF Sends
  <2>2. PICK j \in [on : Inputs, pc : PCs, data : Maps] :
          job' = [job EXCEPT ![h] = j] /\ j.on = job[h].on /\ j.pc = "send" /\ j.data = y
    BY <2>1, Moving DEF PCs, Maps
  <2>3. Fits(job[h]) => Fits(j)
    BY <2>1, <2>2 DEF Fits, IsFast, FastInputs, Sending
  <2>4. conv' \in {conv, NoConv} /\ UNCHANGED <<fresh, disorder, panicked>>
    BY <1>6 DEF Sends, hist
  <2>5. Orderly => Reached(conv'.step, conv'.data)
    BY <1>1, <2>4, Nothing
  <2> QED BY <1>0, <1>1, <2>2, <2>3, <2>4, <2>5, Turn
<1>7. CASE Drops(h)
  <2>1. PICK w \in [on : Inputs, pc : PCs, data : Maps] : w = job[h]
    BY DEF TypeOK
  <2>2. PICK j : j = [w EXCEPT !.on = B("types")]
    OBVIOUS
  <2>3. j.on = B("types") /\ j.pc = "run"
    BY <1>7, <2>1, <2>2 DEF Drops
  <2>4. Fits(j)
    BY <2>3 DEF Fits, B, Serves, Sending, KnownInputs, TypedInputs, DescribedInputs, FieldInputs
  <2>5. job' = [job EXCEPT ![h] = j]
    BY <1>7, <2>1, <2>2 DEF Drops, TypeOK
  <2>6. conv' = NoConv /\ UNCHANGED <<fresh, disorder, panicked>>
    BY <1>7 DEF Drops, hist
  <2> QED BY <1>0, <1>1, <2>3, <2>4, <2>5, <2>6, Nothing, Turn
<1> QED BY <1>2, <1>3, <1>4, <1>5, <1>6, <1>7, <1>8 DEF Comes, Tells

\* Sending needs no more than the draft it has.
LEMMA SendInTurn ==
  ASSUME TypeOK, InTurn, Handed, NEW h \in Handlers, SendIssue(h) \/ (Created(h) /\ IsFast(h))
  PROVE  InTurn'
<1>1. job[h].pc \in {"send", "created"} /\ job[h].pc # Idle
  BY DEF SendIssue, Created, Idle
<1>2. PICK x \in Maps : x = job[h].data
  BY DEF TypeOK
<1>3. PICK p \in {"created", "failed", "epic", "files"} : Goto(h, p, x)
  BY <1>2 DEF SendIssue, Created
<1>4. PICK j \in [on : Inputs, pc : PCs, data : Maps] :
        job' = [job EXCEPT ![h] = j] /\ j.on = job[h].on /\ j.pc = p /\ j.data = x
  BY <1>3, Moving DEF PCs
<1>5. Fits(job[h]) => Fits(j)
  BY <1>1, <1>2, <1>4 DEF Fits, Sending
<1>6. UNCHANGED <<conv, fresh, disorder, panicked>>
  BY DEF SendIssue, Created, hist
<1>7. Orderly => /\ Fits(job[h]) /\ fresh = {}
                 /\ Reached(conv.step, conv.data) /\ \A b \in fresh : Serves(b, conv.data)
  BY <1>1 DEF InTurn, Working, Answered, Offered
<1> QED BY <1>1, <1>4, <1>5, <1>6, <1>7, Turn DEF Idle

\* What is read serves like what is stored: an empty map serves nothing that
\* needs a draft.
LEMMA ReadServes ==
  ASSUME TypeOK, NEW b, Serves(b, conv.data), NEW x \in Reads
  PROVE  Serves(b, x)
<1>1. CASE x = conv.data
  BY <1>1
<1>2. CASE conv.data = Empty
  <2>1. ~Known(conv.data)
    BY <1>2, EmptyDraft DEF Known
  <2> QED BY <2>1 DEF Serves, KnownInputs, TypedInputs, DescribedInputs, FieldInputs
<1> QED BY <1>1, <1>2 DEF Reads

LEMMA ExpectedServes ==
  ASSUME Reached(conv.step, conv.data)
  PROVE  Serves(B(Expected), conv.data)
<1>1. CASE conv.step = "create_summary"
  <2>1. Expected = "summary" /\ Typed(conv.data)
    BY <1>1 DEF Expected, Reached, TypedSteps, KnownSteps, Steps
  <2> QED BY <2>1, Services DEF TypedInputs, DescribedInputs, FieldInputs
<1>2. CASE conv.step \in {"create_description", "create_assignee_search", "create_epic_key"}
  <2>1. Expected \in {"description", "person", "key"} /\ Described(conv.data)
    BY <1>2 DEF Expected, Reached, DescribedSteps, TypedSteps, KnownSteps, Steps
  <2> QED BY <2>1, Services DEF DescribedInputs, FieldInputs
<1>3. CASE conv.step = "create_custom_field"
  <2>1. Expected = "value" /\ AtField(conv.data)
    BY <1>3 DEF Expected, Reached, FieldSteps
  <2> QED BY <2>1, Services
<1>4. CASE conv.step \notin {"create_summary", "create_description", "create_assignee_search",
                             "create_epic_key", "create_custom_field"}
  <2>1. Expected \in {"createfast", "project", "name", "none"}
    BY <1>4 DEF Expected
  <2> QED BY <2>1 DEF Serves, B, KnownInputs, TypedInputs, DescribedInputs, FieldInputs
<1> QED BY <1>1, <1>2, <1>3, <1>4

LEMMA ArrivesInTurn ==
  ASSUME TypeOK, InTurn, NEW h \in Handlers, NEW on \in Inputs, NEW pc \in {"run", "routed"},
         NEW x \in Maps, NEW t \in BOOLEAN, Arrives(h, on, pc, x, t)
  PROVE  InTurn'
<1> SUFFICES ASSUME Orderly'
             PROVE  (~panicked /\ Alone /\ Answered /\ Reached(conv.step, conv.data) /\ Offered /\ Working)'
  BY DEF InTurn
<1>1. Orderly /\ t /\ ~Busy
  BY DEF Arrives, Begin, Orderly, TypeOK
<1>2. ~panicked /\ Reached(conv.step, conv.data) /\ \A b \in fresh : Serves(b, conv.data)
  BY <1>1 DEF InTurn, Offered
<1>3. fresh' = {} /\ UNCHANGED <<conv, panicked>>
  BY DEF Arrives, Begin
<1>4. PICK j : j = [on |-> on, pc |-> pc, data |-> x]
  OBVIOUS
<1>5. job'[h] = j /\ \A g \in Handlers \ {h} : job'[g] = job[g] /\ job[g].pc = Idle
  BY <1>1, <1>4 DEF Arrives, Begin, Busy, TypeOK
<1>6. Serves(on, x) /\ (pc = "routed" => Serves(on, conv.data))
  <2>1. CASE on \in fresh /\ x \in Reads
    BY <1>2, <2>1, ReadServes
  <2>2. CASE on = B(Expected) /\ x \in Reads
    BY <1>2, <2>2, ReadServes, ExpectedServes
  <2>3. CASE on[1] \in Commands
    BY <2>3 DEF Serves, Commands, KnownInputs, TypedInputs, DescribedInputs, FieldInputs
  <2> QED BY <1>1, <2>1, <2>2, <2>3 DEF Arrives
<1>7. Fits(j)
  BY <1>4, <1>6 DEF Fits, Sending
<1>8. Alone'
  BY <1>5 DEF Alone
<1>9. Answered'
  BY <1>3 DEF Answered
<1>10. Working'
  <2> SUFFICES ASSUME NEW g \in Handlers
               PROVE  Fits(job'[g]) /\ (job'[g].pc = "routed" => Serves(job'[g].on, conv'.data))
    BY DEF Working
  <2>1. CASE g = h
    BY <1>3, <1>4, <1>5, <1>6, <1>7, <2>1
  <2>2. CASE g # h
    BY <1>5, <2>2 DEF Fits, Sending, Idle
  <2> QED BY <2>1, <2>2
<1> QED BY <1>2, <1>3, <1>8, <1>9, <1>10 DEF Offered

LEMMA OtherInTurn ==
  ASSUME TypeOK, InTurn, Expire \/ Restart \/ \E h \in Handlers : Panic(h) \/ ReadAgain(h)
  PROVE  InTurn'
<1>1. CASE Expire \/ Restart
  <2>1. ~Orderly'
    BY <1>1 DEF Expire, Restart, Disturb, Orderly, TypeOK
  <2> QED BY <2>1 DEF InTurn
<1>2. ASSUME NEW h \in Handlers, Panic(h) PROVE InTurn'
  <2>1. PICK x : x = job[h].data /\ x = NilData /\ job[h].pc = "run"
    BY <1>2 DEF Panic
  <2>2. ~Known(x)
    BY <2>1, NilAssumption DEF Known
  <2>3. ~Fits(job[h])
    BY <1>2, <2>1, <2>2 DEF Panic, Fits, Serves, KnownInputs, TypedInputs, DescribedInputs, FieldInputs
  <2>4. ~Orderly
    BY <2>3 DEF InTurn, Working
  <2> QED BY <1>2, <2>4 DEF Panic, InTurn, Orderly
<1>4. ASSUME Disturb PROVE InTurn'
  <2>1. ~Orderly'
    BY <1>4 DEF Disturb, Orderly, TypeOK
  <2> QED BY <2>1 DEF InTurn
<1>3. ASSUME NEW h \in Handlers, ReadAgain(h), ~Disturb PROVE InTurn'
  <2>1. PICK x \in Reads : Goto(h, "run", x) /\ UNCHANGED disorder
    BY <1>3 DEF ReadAgain, Goto
  <2>2. x \in Maps
    BY ReadsTyped
  <2>3. PICK j \in [on : Inputs, pc : PCs, data : Maps] :
          job' = [job EXCEPT ![h] = j] /\ j.on = job[h].on /\ j.pc = "run" /\ j.data = x
    BY <2>1, <2>2, Moving DEF PCs
  <2>4. job[h].pc = "routed" /\ UNCHANGED <<conv, fresh, disorder, panicked>>
    BY <1>3, <2>1 DEF ReadAgain
  <2>5. Orderly => /\ Serves(job[h].on, conv.data) /\ fresh = {}
                   /\ Reached(conv.step, conv.data) /\ \A b \in fresh : Serves(b, conv.data)
    BY <2>4 DEF InTurn, Working, Answered, Offered, Idle
  <2>6. PICK on : on = job[h].on
    OBVIOUS
  <2>7. Orderly => Serves(on, x)
    BY <2>5, <2>6, ReadServes
  <2>8. Orderly => Fits(j)
    BY <2>3, <2>6, <2>7 DEF Fits, Sending
  <2> QED BY <2>3, <2>4, <2>5, <2>8, Turn DEF Idle
<1> QED BY <1>1, <1>2, <1>3, <1>4

-----------------------------------------------------------------------------
(* Who has a draft                                                         *)

\* A busy handler gets the job j; the rest of its draft's history stays.
Passes(h, j) ==
  /\ job[h].pc # Idle /\ job' = [job EXCEPT ![h] = j]
  /\ kept \subseteq kept' /\ UNCHANGED <<issues, overlapped, unsure, panicked>>

LEMMA Passing ==
  ASSUME TypeOK, Copies, NEW h \in Handlers, NEW j, Passes(h, j)
  PROVE  /\ ~panicked /\ Dead'
         /\ job'[h] = j /\ \A g \in Handlers \ {h} : job'[g] = job[g]
         /\ \A d : /\ Holds(h, d)' <=> (j.data # NilData /\ j.data.d = d)
                   /\ \A g \in Handlers \ {h} : Holds(g, d)' <=> Holds(g, d)
         /\ (j.pc \in Sending => j.data # NilData) => Handed'
         /\ (j.pc = "files" => j.on[1] \in FastInputs) => FilesFast'
<1>1. ~panicked /\ Dead'
  BY DEF Passes, Copies, Dead
<1>2. job'[h] = j /\ \A g \in Handlers \ {h} : job'[g] = job[g]
  BY DEF Passes, TypeOK
<1>3. \A d : /\ Holds(h, d)' <=> (j.data # NilData /\ j.data.d = d)
             /\ \A g \in Handlers \ {h} : Holds(g, d)' <=> Holds(g, d)
  BY <1>2 DEF Holds
<1>4. (j.pc \in Sending => j.data # NilData) => Handed'
  BY <1>2 DEF Copies, Handed
<1>5. (j.pc = "files" => j.on[1] \in FastInputs) => FilesFast'
  BY <1>2 DEF Copies, FilesFast, IsFast, FastInputs
<1> QED BY <1>1, <1>2, <1>3, <1>4, <1>5

\* A handler that is done has nothing; the others have what they had.
LEMMA Released ==
  ASSUME TypeOK, Copies, NEW h \in Handlers, Passes(h, NoJob), NEW d
  PROVE  \A g \in Handlers : Holds(g, d)' => g # h /\ Holds(g, d) /\ job'[g] = job[g]
<1>1. \A g \in Handlers : g # h => job'[g] = job[g]
  BY Passing
<1>2. ~Holds(h, d)'
  BY Passing DEF NoJob
<1>3. \A g \in Handlers : g # h => (Holds(g, d)' <=> Holds(g, d))
  BY <1>1 DEF Holds
<1> QED BY <1>1, <1>2, <1>3

\* What it passes on is its own draft, or nothing.
LEMMA OwnHolder ==
  ASSUME TypeOK, Copies, NEW h \in Handlers, NEW j, Passes(h, j),
         j.data # NilData => \A d \in 1 .. MaxDrafts : j.data.d = d => Holds(h, d)
  PROVE  OneHolder'
<1> SUFFICES ASSUME NEW d \in 1 .. MaxDrafts, d \notin overlapped,
                    NEW g \in Handlers, NEW f \in Handlers, Holds(g, d)', Holds(f, d)'
             PROVE  g = f
  BY DEF OneHolder, Passes
<1>1. Holds(g, d) /\ Holds(f, d)
  BY Passing
<1> QED BY <1>1 DEF Copies, OneHolder

\* A handler that stores its draft has not sent it.
LEMMA RepliesCopies ==
  ASSUME TypeOK, Copies, NEW h \in Handlers, Replies(h)
  PROVE  Copies'
<1>1. PICK s \in Steps, x \in Maps, kb \in SUBSET Buttons :
        job[h].pc \in {"run", "epic"} /\ Puts(h, s, x, kb) /\ (x # NilData => x.d = Data(h).d)
  BY DEF Replies
<1>2. Passes(h, NoJob) /\ conv'.data = x /\ drafts' = drafts
  BY <1>1 DEF Passes, Puts, Done, hist, Idle
<1>3. NoJob.data = NilData /\ NoJob.pc = Idle
  BY DEF NoJob
<1>4. \A d \in 1 .. MaxDrafts : x # NilData /\ x.d = d => Holds(h, d)
  BY <1>1, DraftInHand DEF Holds
<1>5. Numbered'
  <2>1. x # NilData => x.d <= drafts
    <3>1. CASE job[h].data = NilData
      BY <1>1, <3>1, DraftInHand DEF TypeOK
    <3>2. CASE job[h].data # NilData
      BY <1>1, <3>2, DraftInHand DEF Copies, Numbered
    <3> QED BY <3>1, <3>2
  <2> QED BY <1>2, <1>3, <2>1, Passing DEF Copies, Numbered, Passes
<1>6. OneHolder'
  BY <1>2, <1>3, OwnHolder
<1>7. NoneTwice'
  <2> SUFFICES ASSUME NEW d \in (1 .. MaxDrafts) \ (overlapped \union unsure \union kept)
               PROVE  SentOnce(d)'
    BY <1>2 DEF NoneTwice, Passes
  <2>1. issues[d] <= 1 /\ (issues[d] = 1 => Gone(d)) /\ Absent(d) /\ issues'[d] = issues[d]
    BY <1>2, Passing DEF Copies, NoneTwice, SentOnce, Passes
  <2>2. \A g \in Handlers : Holds(g, d)' => g # h /\ Holds(g, d) /\ job'[g] = job[g]
    BY <1>2, Released
  <2>3. CASE Holds(h, d)
    <3>1. issues[d] # 1
      BY <1>1, <2>1, <2>3 DEF Gone
    <3>2. \A g \in Handlers : ~Holds(g, d)'
      BY <2>2, <2>3 DEF Copies, OneHolder
    <3> QED BY <2>1, <3>1, <3>2 DEF SentOnce, Absent
  <2>4. CASE ~Holds(h, d)
    <3>1. ~Saved(d)'
      BY <1>2, <1>4, <2>4 DEF Saved
    <3>2. issues[d] = 1 => Gone(d)'
      BY <2>1, <2>2, <3>1 DEF Gone
    <3> QED BY <2>1, <3>1, <3>2 DEF SentOnce, Absent
  <2> QED BY <2>3, <2>4
<1>8. Handed' /\ FilesFast' /\ Dead'
  BY <1>2, <1>3, Passing DEF Idle, Sending
<1> QED BY <1>5, <1>6, <1>7, <1>8 DEF Copies

LEMMA EndsCopies ==
  ASSUME TypeOK, Copies, NEW h \in Handlers, Ends(h)
  PROVE  Copies'
<1>2. Passes(h, NoJob) /\ conv' \in {conv, NoConv} /\ drafts' = drafts
  BY DEF Passes, Ends, Done, hist
<1>3. NoJob.data = NilData /\ NoJob.pc = Idle /\ NoConv.data = NilData
  BY DEF NoJob, NoConv
<1>5. Numbered'
  BY <1>2, <1>3, Passing DEF Copies, Numbered, Passes
<1>6. OneHolder'
  BY <1>2, <1>3, OwnHolder
<1>7. NoneTwice'
  <2> SUFFICES ASSUME NEW d \in (1 .. MaxDrafts) \ (overlapped \union unsure \union kept)
               PROVE  SentOnce(d)'
    BY <1>2 DEF NoneTwice, Passes
  <2>1. issues[d] <= 1 /\ (issues[d] = 1 => Gone(d)) /\ Absent(d) /\ issues'[d] = issues[d]
    BY <1>2, Passing DEF Copies, NoneTwice, SentOnce, Passes
  <2>2. \A g \in Handlers : Holds(g, d)' => g # h /\ Holds(g, d) /\ job'[g] = job[g]
    BY <1>2, Released
  <2>3. Saved(d)' => Saved(d) /\ conv' = conv
    BY <1>2, <1>3 DEF Saved
  <2>4. ASSUME issues[d] = 1, Saved(d)' PROVE \E g \in Handlers : Holds(g, d)' /\ (job[g].pc = "created" /\ ~IsFast(g))'
    <3>1. PICK g \in Handlers : Holds(g, d) /\ job[g].pc = "created" /\ ~IsFast(g)
      BY <2>1, <2>3, <2>4 DEF Gone
    <3>2. g # h
      BY <1>3, <2>4, <3>1 DEF Ends, Saved
    <3>3. Holds(g, d)' /\ job'[g] = job[g]
      BY <1>2, <3>1, <3>2, Passing
    <3> QED BY <3>1, <3>3 DEF IsFast
  <2>5. issues[d] = 1 => Gone(d)'
    BY <2>1, <2>2, <2>4 DEF Gone
  <2>6. Absent(d)'
    BY <2>1, <2>2, <2>3 DEF Absent, IsFast
  <2> QED BY <2>1, <2>5, <2>6 DEF SentOnce
<1>8. Handed' /\ FilesFast' /\ Dead'
  BY <1>2, <1>3, Passing DEF Idle, Sending
<1> QED BY <1>5, <1>6, <1>7, <1>8 DEF Copies

\* The next draft is with nobody yet.
LEMMA Unbegun ==
  ASSUME TypeOK, Copies, NEW d \in 1 .. MaxDrafts, d = drafts + 1
  PROVE  issues[d] = 0 /\ ~Saved(d) /\ \A g \in Handlers : ~Holds(g, d)
<1>1. drafts \in Nat /\ d > drafts /\ ~(d <= drafts)
  BY BoundsAssumption DEF TypeOK
<1> QED BY <1>1 DEF Copies, Numbered, Saved, Holds

LEMMA AsksTypeCopies ==
  ASSUME TypeOK, Copies, NEW h \in Handlers, AsksType(h)
  PROVE  Copies'
<1>1. PICK n \in Drafts : n = NewDraft /\ n.d = drafts + 1
  BY New DEF AsksType
<1>2. Passes(h, NoJob) /\ conv'.data = n /\ drafts' = drafts + 1
  BY <1>1 DEF Passes, AsksType, Done, hist, Idle
<1>3. NoJob.data = NilData /\ NoJob.pc = Idle
  BY DEF NoJob
<1>4. drafts \in Nat
  BY BoundsAssumption DEF TypeOK
<1>5. Numbered'
  <2>1. conv'.data # NilData => conv'.data.d <= drafts'
    BY <1>1, <1>2, <1>4
  <2>2. \A g \in Handlers : job'[g].data # NilData => job'[g].data.d <= drafts'
    <3>1. TAKE g \in Handlers
    <3>2. CASE g = h
      BY <1>2, <1>3, <3>2, Passing
    <3>3. CASE g # h /\ job[g].data # NilData
      <4>1. job[g].data \in Drafts /\ job[g].data.d <= drafts
        BY <3>3 DEF TypeOK, Maps, Copies, Numbered
      <4>2. job[g].data.d \in Nat
        BY <4>1, DraftFields, BoundsAssumption
      <4> QED BY <1>2, <1>4, <3>3, <4>1, <4>2, Passing
    <3> QED BY <1>2, <3>2, <3>3, Passing
  <2>3. \A d \in 1 .. MaxDrafts : d > drafts' => issues'[d] = 0
    BY <1>2, <1>4, BoundsAssumption DEF Copies, Numbered, Passes
  <2> QED BY <2>1, <2>2, <2>3 DEF Numbered
<1>6. OneHolder'
  BY <1>2, <1>3, OwnHolder
<1>7. NoneTwice'
  <2> SUFFICES ASSUME NEW d \in (1 .. MaxDrafts) \ (overlapped \union unsure \union kept)
               PROVE  SentOnce(d)'
    BY <1>2 DEF NoneTwice, Passes
  <2>1. issues[d] <= 1 /\ (issues[d] = 1 => Gone(d)) /\ Absent(d) /\ issues'[d] = issues[d]
    BY <1>2, Passing DEF Copies, NoneTwice, SentOnce, Passes
  <2>2. \A g \in Handlers : Holds(g, d)' => g # h /\ Holds(g, d) /\ job'[g] = job[g]
    BY <1>2, Released
  <2>3. CASE d = drafts + 1
    <3>1. issues[d] = 0 /\ \A g \in Handlers : ~Holds(g, d)'
      BY <2>2, <2>3, Unbegun
    <3> QED BY <2>1, <3>1 DEF SentOnce, Absent
  <2>4. CASE d # drafts + 1
    <3>1. ~Saved(d)'
      BY <1>1, <1>2, <2>4 DEF Saved
    <3>2. issues[d] = 1 => Gone(d)'
      BY <2>1, <2>2, <3>1 DEF Gone
    <3> QED BY <2>1, <3>1, <3>2 DEF SentOnce, Absent
  <2> QED BY <2>3, <2>4
<1>8. Handed' /\ FilesFast' /\ Dead'
  BY <1>2, <1>3, Passing DEF Idle, Sending
<1> QED BY <1>5, <1>6, <1>7, <1>8 DEF Copies

LEMMA BeginsCopies ==
  ASSUME TypeOK, Copies, NEW h \in Handlers, Begins(h)
  PROVE  Copies'
<1>1. PICK j \in [on : Inputs, pc : {"run", "send"}, data : Drafts] :
        /\ job[h].pc = "run" /\ drafts < MaxDrafts /\ drafts' = drafts + 1
        /\ job' = [job EXCEPT ![h] = j] /\ j.data.d = drafts + 1
        /\ UNCHANGED <<conv, templates, fresh, issues, hist>>
  BY DEF Begins
<1>2. Passes(h, j) /\ conv' = conv
  BY <1>1 DEF Passes, hist, Idle
<1>3. j.data # NilData /\ j.pc \in {"run", "send"}
  BY NilAssumption
<1>4. drafts \in Nat /\ drafts + 1 \in 1 .. MaxDrafts
  BY <1>1, BoundsAssumption DEF TypeOK
<1>11. PICK n \in 1 .. MaxDrafts : n = drafts + 1
  BY <1>4
<1>5. \A g \in Handlers : g # h => ~Holds(g, n)'
  BY <1>2, <1>11, Unbegun, Passing
<1>6. \A d : Holds(h, d)' <=> d = n
  BY <1>1, <1>2, <1>3, <1>11, Passing
<1>7. Numbered'
  <2>1. conv'.data # NilData => conv'.data.d <= drafts'
    <3>1. ASSUME conv.data # NilData PROVE conv.data.d \in Nat /\ conv.data.d <= drafts
      <4>1. conv.data \in Drafts
        BY <3>1 DEF TypeOK, Maps
      <4> QED BY <3>1, <4>1, DraftFields, BoundsAssumption DEF Copies, Numbered
    <3> QED BY <1>1, <1>2, <1>4, <3>1
  <2>2. \A g \in Handlers : job'[g].data # NilData => job'[g].data.d <= drafts'
    <3>1. TAKE g \in Handlers
    <3>2. CASE g = h
      BY <1>1, <1>2, <1>4, <3>2, Passing
    <3>3. CASE g # h /\ job[g].data # NilData
      <4>1. job[g].data \in Drafts /\ job[g].data.d <= drafts
        BY <3>3 DEF TypeOK, Maps, Copies, Numbered
      <4>2. job[g].data.d \in Nat
        BY <4>1, DraftFields, BoundsAssumption
      <4> QED BY <1>1, <1>2, <1>4, <3>3, <4>1, <4>2, Passing
    <3> QED BY <1>2, <3>2, <3>3, Passing
  <2>3. \A d \in 1 .. MaxDrafts : d > drafts' => issues'[d] = 0
    BY <1>1, <1>4, BoundsAssumption DEF Copies, Numbered
  <2> QED BY <2>1, <2>2, <2>3 DEF Numbered
<1>8. OneHolder'
  <2> SUFFICES ASSUME NEW d \in 1 .. MaxDrafts, d \notin overlapped,
                      NEW g \in Handlers, NEW f \in Handlers, Holds(g, d)', Holds(f, d)'
               PROVE  g = f
    BY <1>2 DEF OneHolder, Passes
  <2>1. CASE d = n
    BY <1>5, <2>1
  <2>2. CASE d # n
    <3>1. ~Holds(h, d)'
      BY <1>6, <2>2
    <3>2. Holds(g, d) /\ Holds(f, d)
      BY <1>2, <3>1, Passing
    <3> QED BY <3>2 DEF Copies, OneHolder
  <2> QED BY <2>1, <2>2
<1>9. NoneTwice'
  <2> SUFFICES ASSUME NEW d \in (1 .. MaxDrafts) \ (overlapped \union unsure \union kept)
               PROVE  SentOnce(d)'
    BY <1>2 DEF NoneTwice, Passes
  <2>1. issues[d] <= 1 /\ (issues[d] = 1 => Gone(d)) /\ Absent(d) /\ issues'[d] = issues[d]
    BY <1>2, Passing DEF Copies, NoneTwice, SentOnce, Passes
  <2>2. Saved(d)' <=> Saved(d)
    BY <1>2 DEF Saved
  <2>3. CASE d = n
    <3>1. issues[d] = 0 /\ ~Saved(d)'
      BY <1>11, <2>2, <2>3, Unbegun
    <3> QED BY <2>1, <3>1 DEF SentOnce, Absent
  <2>4. CASE d # n
    <3>0. ~Holds(h, d)'
      BY <1>6, <2>4
    <3>1. \A g \in Handlers : Holds(g, d)' => g # h /\ Holds(g, d) /\ job'[g] = job[g]
      BY <1>2, <3>0, Passing
    <3>2. \A g \in Handlers : Holds(g, d) /\ job[g].pc = "created" => g # h
      BY <1>1
    <3>3. issues[d] = 1 => Gone(d)'
      <4> SUFFICES ASSUME Gone(d) PROVE Gone(d)'
        BY <2>1
      <4>1. \A g \in Handlers : Holds(g, d)' => (job[g].pc \in {"created", "files"})'
        BY <3>1 DEF Gone
      <4>2. ASSUME Saved(d) PROVE \E g \in Handlers : Holds(g, d)' /\ (job[g].pc = "created" /\ ~IsFast(g))'
        <5>1. PICK g \in Handlers : Holds(g, d) /\ job[g].pc = "created" /\ ~IsFast(g)
          BY <4>2 DEF Gone
        <5>2. Holds(g, d)' /\ job'[g] = job[g]
          BY <1>2, <3>2, <5>1, Passing
        <5> QED BY <5>1, <5>2 DEF IsFast
      <4> QED BY <2>2, <4>1, <4>2 DEF Gone
    <3>4. Absent(d)'
      BY <2>1, <2>2, <3>1 DEF Absent, IsFast
    <3> QED BY <2>1, <3>3, <3>4 DEF SentOnce
  <2> QED BY <2>3, <2>4
<1>10. Handed' /\ FilesFast' /\ Dead'
  BY <1>2, <1>3, Passing
<1> QED BY <1>7, <1>8, <1>9, <1>10 DEF Copies

\* Sends, Drops, and reading an answer of Jira: the draft is the same.
LEMMA SameDraft ==
  ASSUME TypeOK, Copies, NEW h \in Handlers, NEW j, Passes(h, j),
         j.data # NilData => job[h].data # NilData /\ j.data.d = job[h].data.d,
         conv' \in {conv, NoConv}, drafts' = drafts
  PROVE  /\ Numbered' /\ OneHolder'
         /\ \A d : \A g \in Handlers : Holds(g, d)' => Holds(g, d)
         /\ \A d : Saved(d)' => Saved(d) /\ conv' = conv
<1>0. NoConv.data = NilData
  BY DEF NoConv
<1>1. \A d : \A g \in Handlers : Holds(g, d)' => Holds(g, d)
  BY Passing DEF Holds
<1>2. \A d : Saved(d)' => Saved(d) /\ conv' = conv
  BY <1>0 DEF Saved
<1>3. OneHolder'
  BY OwnHolder DEF Holds
<1>4. Numbered'
  <2>1. conv'.data # NilData => conv'.data.d <= drafts'
    BY <1>0 DEF Copies, Numbered
  <2>2. \A g \in Handlers : job'[g].data # NilData => job'[g].data.d <= drafts'
    BY Passing DEF Copies, Numbered
  <2>3. \A d \in 1 .. MaxDrafts : d > drafts' => issues'[d] = 0
    BY DEF Copies, Numbered, Passes
  <2> QED BY <2>1, <2>2, <2>3 DEF Numbered
<1> QED BY <1>1, <1>2, <1>3, <1>4

LEMMA SendsCopies ==
  ASSUME TypeOK, Copies, NEW h \in Handlers, Sends(h)
  PROVE  Copies'
<1>1. PICK y \in Drafts : Goto(h, "send", y) /\ y.d = Data(h).d
  BY DEF Sends
<1>2. PICK j \in [on : Inputs, pc : PCs, data : Maps] :
        job' = [job EXCEPT ![h] = j] /\ j.on = job[h].on /\ j.pc = "send" /\ j.data = y
  BY <1>1, Moving DEF PCs, Maps
<1>3. /\ job[h].pc = "run" /\ Passes(h, j) /\ drafts' = drafts
      /\ conv' = IF IsFast(h) THEN NoConv ELSE conv
  BY <1>2 DEF Sends, Passes, hist, Idle
<1>4. NoConv.data = NilData /\ conv' \in {conv, NoConv}
  BY <1>3 DEF NoConv
<1>5. \A d \in 1 .. MaxDrafts : j.data.d = d => Holds(h, d)
  <2>1. CASE job[h].data = NilData
    <3>1. j.data.d = 0
      BY <1>1, <1>2, <2>1, DraftInHand
    <3> QED BY <3>1, BoundsAssumption
  <2>2. CASE job[h].data # NilData
    BY <1>1, <1>2, <2>2, DraftInHand DEF Holds
  <2> QED BY <2>1, <2>2
<1>6. OneHolder'
  BY <1>3, <1>5, OwnHolder
<1>7. \A d \in 1 .. MaxDrafts : \A g \in Handlers : Holds(g, d)' => Holds(g, d)
  <2>1. TAKE d \in 1 .. MaxDrafts
  <2>2. Holds(h, d)' => Holds(h, d)
    BY <1>3, <1>5, Passing
  <2>3. \A g \in Handlers \ {h} : job'[g] = job[g]
    BY <1>3, Passing
  <2>4. \A g \in Handlers \ {h} : Holds(g, d)' => Holds(g, d)
    BY <2>3 DEF Holds
  <2> QED BY <2>2, <2>4
<1>8. Numbered'
  <2>1. y.d <= drafts
    <3>1. CASE job[h].data = NilData
      BY <1>1, <3>1, DraftInHand DEF TypeOK
    <3>2. CASE job[h].data # NilData
      BY <1>1, <3>2, DraftInHand DEF Copies, Numbered
    <3> QED BY <3>1, <3>2
  <2>2. conv'.data # NilData => conv'.data.d <= drafts'
    BY <1>3, <1>4 DEF Copies, Numbered
  <2>3. \A g \in Handlers : job'[g].data # NilData => job'[g].data.d <= drafts'
    BY <1>2, <1>3, <2>1, Passing DEF Copies, Numbered
  <2>4. \A d \in 1 .. MaxDrafts : d > drafts' => issues'[d] = 0
    BY <1>3 DEF Copies, Numbered, Passes
  <2> QED BY <2>2, <2>3, <2>4 DEF Numbered
<1>9. NoneTwice'
  <2> SUFFICES ASSUME NEW d \in (1 .. MaxDrafts) \ (overlapped \union unsure \union kept)
               PROVE  SentOnce(d)'
    BY <1>3 DEF NoneTwice, Passes
  <2>1. issues[d] <= 1 /\ (issues[d] = 1 => Gone(d)) /\ Absent(d) /\ issues'[d] = issues[d]
    BY <1>3, Passing DEF Copies, NoneTwice, SentOnce, Passes
  <2>2. Saved(d)' => Saved(d) /\ conv' = conv /\ ~IsFast(h)
    BY <1>3, <1>4 DEF Saved
  <2>3. \A g \in Handlers : g # h /\ Holds(g, d)' => Holds(g, d) /\ job'[g] = job[g]
    BY <1>3, Passing
  <2>4. Absent(d)'
    BY <1>2, <1>3, <2>1, <2>2, <2>3, Passing DEF Absent, IsFast
  <2>5. ASSUME issues[d] = 1 PROVE Gone(d)'
    <3>1. ~Holds(h, d)
      BY <1>3, <2>1, <2>5 DEF Gone
    <3>2. ~Holds(h, d)'
      BY <1>7, <3>1
    <3>3. \A g \in Handlers : Holds(g, d)' => (job[g].pc \in {"created", "files"})'
      BY <2>1, <2>3, <2>5, <3>2 DEF Gone
    <3>4. ASSUME Saved(d)' PROVE \E g \in Handlers : Holds(g, d)' /\ (job[g].pc = "created" /\ ~IsFast(g))'
      <4>1. PICK g \in Handlers : Holds(g, d) /\ job[g].pc = "created" /\ ~IsFast(g)
        BY <2>1, <2>2, <2>5, <3>4 DEF Gone
      <4>2. Holds(g, d)' /\ job'[g] = job[g]
        BY <1>3, <3>1, <4>1, Passing
      <4> QED BY <4>1, <4>2 DEF IsFast
    <3> QED BY <3>3, <3>4 DEF Gone
  <2> QED BY <2>1, <2>4, <2>5 DEF SentOnce
<1>10. Handed' /\ FilesFast' /\ Dead'
  BY <1>2, <1>3, NilAssumption, Passing
<1> QED BY <1>6, <1>8, <1>9, <1>10 DEF Copies

LEMMA DropsCopies ==
  ASSUME TypeOK, Copies, NEW h \in Handlers, Drops(h)
  PROVE  Copies'
<1>1. PICK w \in [on : Inputs, pc : PCs, data : Maps] : w = job[h]
  BY DEF TypeOK
<1>2. PICK j : j = [w EXCEPT !.on = B("types")]
  OBVIOUS
<1>3. j.pc = "run" /\ j.data = job[h].data /\ job[h].pc = "run"
  BY <1>1, <1>2 DEF Drops
<1>4. Passes(h, j) /\ conv' = NoConv /\ drafts' = drafts
  <2>1. job' = [job EXCEPT ![h] = j]
    BY <1>1, <1>2 DEF Drops, TypeOK
  <2> QED BY <1>3, <2>1 DEF Drops, Passes, hist, Idle
<1>5. NoConv.data = NilData
  BY DEF NoConv
<1>6. Numbered' /\ OneHolder' /\ \A d : \A g \in Handlers : Holds(g, d)' => Holds(g, d)
  BY <1>3, <1>4, SameDraft
<1>7. NoneTwice'
  <2> SUFFICES ASSUME NEW d \in (1 .. MaxDrafts) \ (overlapped \union unsure \union kept)
               PROVE  SentOnce(d)'
    BY <1>4 DEF NoneTwice, Passes
  <2>1. issues[d] <= 1 /\ (issues[d] = 1 => Gone(d)) /\ issues'[d] = issues[d]
    BY <1>4, Passing DEF Copies, NoneTwice, SentOnce, Passes
  <2>2. ~Saved(d)'
    BY <1>4, <1>5 DEF Saved
  <2>3. \A g \in Handlers : Holds(g, d)' => Holds(g, d) /\ job'[g].pc = job[g].pc
    BY <1>3, <1>4, <1>6, Passing
  <2>4. issues[d] = 1 => Gone(d)'
    BY <2>1, <2>2, <2>3 DEF Gone
  <2> QED BY <2>1, <2>2, <2>4 DEF SentOnce, Absent
<1>8. Handed' /\ FilesFast' /\ Dead'
  BY <1>3, <1>4, Passing DEF Sending
<1> QED BY <1>6, <1>7, <1>8 DEF Copies

\* A state that should have been written is as it was, or the draft's own; one
\* that should have been removed makes its draft one of kept.
LEMMA LosesCopies ==
  ASSUME TypeOK, Copies, NEW h \in Handlers, Loses(h)
  PROVE  Copies'
<1>1. PICK j \in [on : Inputs, pc : PCs, data : Maps] : LosesTo(h, j)
  BY DEF Loses
<1>2. Passes(h, j)
  BY <1>1 DEF LosesTo, Passes, marks, Idle
<1>3. NoJob.data = NilData /\ NoJob.pc = Idle
  BY DEF NoJob
<1>4. drafts \in Nat /\ drafts' \in Nat /\ drafts <= drafts'
  BY <1>1, BoundsAssumption DEF LosesTo, TypeOK
<1>5. \A d \in 1 .. MaxDrafts : Data(h).d = d => Holds(h, d)
  <2>1. TAKE d \in 1 .. MaxDrafts
  <2>2. d # 0
    BY BoundsAssumption
  <2> QED BY <2>2, DraftInHand DEF Holds
<1>6. Data(h).d \in Nat /\ Data(h).d <= drafts
  <2>1. Data(h).d \in Nat
    BY DraftInHand, DraftFields, BoundsAssumption
  <2>2. CASE job[h].data = NilData
    BY <1>4, <2>1, <2>2, DraftInHand
  <2>3. CASE job[h].data # NilData
    BY <2>1, <2>3, DraftInHand DEF Copies, Numbered
  <2> QED BY <2>2, <2>3
<1>7. Numbered'
  <2>1. conv'.data # NilData => conv'.data.d <= drafts'
    <3>1. CASE conv' = conv /\ conv.data # NilData
      <4>1. conv.data \in Drafts
        BY <3>1 DEF TypeOK, Maps
      <4>2. conv.data.d \in Nat /\ conv.data.d <= drafts
        BY <3>1, <4>1, DraftFields, BoundsAssumption DEF Copies, Numbered
      <4> QED BY <1>4, <3>1, <4>2
    <3>2. CASE conv'.data.d = Data(h).d
      BY <1>4, <1>6, <3>2
    <3> QED BY <1>1, <3>1, <3>2 DEF LosesTo
  <2>2. \A g \in Handlers : job'[g].data # NilData => job'[g].data.d <= drafts'
    <3>1. TAKE g \in Handlers
    <3>2. CASE g = h
      BY <1>1, <1>2, <1>4, <1>6, <3>2, Passing DEF LosesTo
    <3>3. CASE g # h /\ job[g].data # NilData
      <4>1. job[g].data \in Drafts /\ job[g].data.d <= drafts
        BY <3>3 DEF TypeOK, Maps, Copies, Numbered
      <4>2. job[g].data.d \in Nat
        BY <4>1, DraftFields, BoundsAssumption
      <4> QED BY <1>2, <1>4, <3>3, <4>1, <4>2, Passing
    <3> QED BY <1>2, <3>2, <3>3, Passing
  <2>3. \A d \in 1 .. MaxDrafts : d > drafts' => issues'[d] = 0
    <3>1. TAKE d \in 1 .. MaxDrafts
    <3>2. d > drafts' => d > drafts
      BY <1>4, BoundsAssumption
    <3> QED BY <1>2, <3>2 DEF Copies, Numbered, Passes
  <2> QED BY <2>1, <2>2, <2>3 DEF Numbered
<1>8. OneHolder'
  BY <1>1, <1>2, <1>5, OwnHolder DEF LosesTo
<1>9. NoneTwice'
  <2> SUFFICES ASSUME NEW d \in (1 .. MaxDrafts) \ (overlapped \union unsure \union kept')
               PROVE  SentOnce(d)'
    BY <1>2 DEF NoneTwice, Passes
  <2>1. issues[d] <= 1 /\ (issues[d] = 1 => Gone(d)) /\ Absent(d) /\ issues'[d] = issues[d]
    BY <1>2, Passing DEF Copies, NoneTwice, SentOnce, Passes
  <2>2. \A g \in Handlers : g # h => (Holds(g, d)' <=> Holds(g, d)) /\ job'[g] = job[g]
    BY <1>2, Passing
  <2>3. job'[h] = j /\ (Holds(h, d)' => Holds(h, d))
    BY <1>1, <1>2, <1>5, Passing DEF LosesTo
  <2>4. Saved(d)' => (Saved(d) /\ conv' = conv) \/ Holds(h, d)
    BY <1>1, <1>5 DEF LosesTo, Saved
  <2>5. \A g, f \in Handlers : Holds(g, d) /\ Holds(f, d) => g = f
    BY DEF Copies, OneHolder
  <2>6. Absent(d)'
    <3> SUFFICES ASSUME NEW g \in Handlers, Holds(g, d)', IsFast(g)',
                        job'[g].pc \in {"send", "created", "files"}
                 PROVE  ~Saved(d)'
      BY DEF Absent
    <3>1. CASE g = h
      <4>1. j.pc = "send" /\ j.on[1] \in FastInputs
        BY <1>1, <2>3, <3>1 DEF LosesTo, IsFast, FastInputs, Idle
      <4> QED BY <1>1, <4>1 DEF LosesTo
    <3>2. CASE g # h
      <4>1. Holds(g, d) /\ IsFast(g) /\ job[g].pc \in {"send", "created", "files"}
        BY <2>2, <3>2 DEF IsFast
      <4>2. ~Saved(d) /\ ~Holds(h, d)
        BY <2>1, <2>5, <3>2, <4>1 DEF Absent
      <4> QED BY <2>4, <4>2
    <3> QED BY <3>1, <3>2
  <2>7. ASSUME issues[d] = 1 PROVE Gone(d)'
    <3>1. Holds(h, d) => job[h].pc = "created"
      BY <1>1, <2>1, <2>7 DEF Gone, LosesTo
    <3>2. \A g \in Handlers : Holds(g, d)' => (job[g].pc \in {"created", "files"})'
      <4>1. ~Holds(h, d)'
        BY <1>1, <1>2, <1>3, <2>3, <3>1, Passing DEF LosesTo
      <4> QED BY <2>1, <2>2, <2>7, <4>1 DEF Gone
    <3>3. ASSUME Saved(d)' PROVE \E g \in Handlers : Holds(g, d)' /\ (job[g].pc = "created" /\ ~IsFast(g))'
      <4>1. job[h].pc # "created"
        BY <1>1, <3>3 DEF LosesTo
      <4>2. Saved(d) /\ ~Holds(h, d)
        BY <2>4, <3>1, <3>3, <4>1
      <4>3. PICK g \in Handlers : Holds(g, d) /\ job[g].pc = "created" /\ ~IsFast(g)
        BY <2>1, <2>7, <4>2 DEF Gone
      <4>4. Holds(g, d)' /\ job'[g] = job[g]
        BY <2>2, <4>2, <4>3
      <4> QED BY <4>3, <4>4 DEF IsFast
    <3> QED BY <3>2, <3>3 DEF Gone
  <2> QED BY <2>1, <2>6, <2>7 DEF SentOnce
<1>10. Handed' /\ FilesFast' /\ Dead'
  BY <1>1, <1>2, Passing DEF LosesTo, Idle, Sending
<1> QED BY <1>7, <1>8, <1>9, <1>10 DEF Copies

LEMMA ComesCopies ==
  ASSUME TypeOK, Copies, NEW h \in Handlers, Comes(h)
  PROVE  Copies'
<1> QED BY RepliesCopies, LosesCopies, EndsCopies, AsksTypeCopies, BeginsCopies, SendsCopies, DropsCopies
        DEF Comes, Tells

\* The only step that makes an issue: the draft had none, and is in the hands
\* of the handler alone.
LEMMA SendIssueCopies ==
  ASSUME TypeOK, Copies, NEW h \in Handlers, SendIssue(h)
  PROVE  Copies'
<1>1. PICK x \in Drafts : x = job[h].data
  BY DEF SendIssue, Copies, Handed, Sending, TypeOK, Maps
<1>2. PICK p \in {"created", "failed", "epic"} : Goto(h, p, x) /\ (issues' # issues => p # "epic")
  BY <1>1 DEF SendIssue
<1>3. PICK j \in [on : Inputs, pc : PCs, data : Maps] :
        job' = [job EXCEPT ![h] = j] /\ j.on = job[h].on /\ j.pc = p /\ j.data = x
  BY <1>1, <1>2, Moving DEF PCs, Maps
<1>4. job'[h] = j /\ \A g \in Handlers \ {h} : job'[g] = job[g]
  BY <1>3 DEF TypeOK
<1>5. job[h].pc = "send" /\ UNCHANGED <<conv, drafts, overlapped, kept, panicked>>
  BY DEF SendIssue
<1>6. ~panicked
  BY <1>5 DEF Copies, Dead, Idle
<1>7. \A d : (Saved(d)' <=> Saved(d)) /\ \A g \in Handlers : Holds(g, d)' <=> Holds(g, d)
  BY <1>1, <1>3, <1>4, <1>5 DEF Holds, Saved
<1>8. x.d <= drafts /\ x # NilData
  BY <1>1, NilAssumption DEF Copies, Numbered
<1>9. /\ \/ Acceptable(x) /\ issues[x.d] < MaxIssues /\ issues' = [issues EXCEPT ![x.d] = @ + 1]
         \/ issues' = issues
      /\ unsure \subseteq unsure'
      /\ issues' # issues /\ p # "created" => x.d \in unsure'
      /\ issues' = issues => p # "created"
  <2>1. CASE /\ Acceptable(x) /\ issues[x.d] < MaxIssues
             /\ issues' = [issues EXCEPT ![x.d] = @ + 1]
             /\ \/ Goto(h, "created", x) /\ UNCHANGED unsure
                \/ Goto(h, "failed", x) /\ unsure' = unsure \union {x.d}
    <3>1. x.d \in 1 .. MaxDrafts /\ issues[x.d] \in Nat
      BY <2>1, DraftFields, BoundsAssumption DEF Acceptable, TypeOK
    <3>2. issues' # issues
      BY <2>1, <3>1 DEF TypeOK
    <3>3. CASE p = "created"
      BY <2>1, <3>2, <3>3
    <3>4. CASE p # "created"
      <4>1. ~Goto(h, "created", x)
        BY <1>3, <1>4, <3>4 DEF Goto, TypeOK
      <4> QED BY <2>1, <3>2, <4>1
    <3> QED BY <3>3, <3>4
  <2>2. CASE /\ Goto(h, "failed", x) \/ (~x.epic /\ Goto(h, "epic", x))
             /\ UNCHANGED <<issues, unsure>>
    <3>1. p # "created"
      BY <1>3, <1>4, <2>2 DEF Goto, TypeOK
    <3> QED BY <2>2, <3>1
  <2> QED BY <1>1, <2>1, <2>2 DEF SendIssue
<1>10. Numbered'
  <2>1. conv'.data # NilData => conv'.data.d <= drafts'
    BY <1>5 DEF Copies, Numbered
  <2>2. \A g \in Handlers : job'[g].data # NilData => job'[g].data.d <= drafts'
    BY <1>3, <1>4, <1>5, <1>8 DEF Copies, Numbered
  <2>3. ASSUME NEW d \in 1 .. MaxDrafts, d > drafts PROVE issues'[d] = 0
    <3>1. d # x.d
      BY <1>8, <2>3, DraftFields, BoundsAssumption DEF TypeOK
    <3> QED BY <1>9, <2>3, <3>1 DEF Copies, Numbered, TypeOK
  <2> QED BY <1>5, <2>1, <2>2, <2>3 DEF Numbered
<1>11. OneHolder'
  BY <1>5, <1>7 DEF Copies, OneHolder
<1>12. NoneTwice'
  <2> SUFFICES ASSUME NEW d \in (1 .. MaxDrafts) \ (overlapped' \union unsure' \union kept')
               PROVE  SentOnce(d)'
    BY DEF NoneTwice
  <2>1. issues[d] <= 1 /\ (issues[d] = 1 => Gone(d)) /\ Absent(d) /\ issues[d] \in Nat
    BY <1>5, <1>6, <1>9 DEF Copies, NoneTwice, SentOnce, TypeOK
  <2>2. Absent(d)'
    BY <1>3, <1>4, <1>5, <1>7, <2>1 DEF Absent, IsFast
  <2>3. CASE x.d = d
    <3>1. Holds(h, d)
      BY <1>1, <1>8, <2>3 DEF Holds
    <3>2. issues[d] = 0
      BY <1>5, <2>1, <3>1 DEF Gone
    <3>3. \A g \in Handlers : Holds(g, d) => g = h
      BY <1>5, <3>1 DEF Copies, OneHolder
    <3>4. CASE issues' = issues
      BY <2>2, <3>2, <3>4 DEF SentOnce
    <3>5. CASE issues' # issues
      <4>1. p = "created" /\ issues'[d] = 1
        <5>1. d \notin unsure' /\ d \in 1 .. MaxDrafts
          OBVIOUS
        <5>2. p = "created"
          BY <1>9, <2>3, <3>5, <5>1
        <5>3. issues' = [issues EXCEPT ![d] = @ + 1]
          BY <1>9, <2>3, <3>5
        <5> QED BY <3>2, <5>1, <5>2, <5>3 DEF TypeOK
      <4>2. \A g \in Handlers : Holds(g, d)' => (job[g].pc \in {"created", "files"})'
        BY <1>3, <1>4, <1>7, <3>3, <4>1
      <4>3. Saved(d) => ~IsFast(h)
        BY <1>5, <2>1, <3>1 DEF Absent
      <4>4. Gone(d)'
        BY <1>3, <1>4, <1>7, <3>1, <4>1, <4>2, <4>3 DEF Gone, IsFast
      <4> QED BY <2>2, <4>1, <4>4 DEF SentOnce
    <3> QED BY <3>4, <3>5
  <2>4. CASE x.d # d
    <3>1. issues'[d] = issues[d]
      BY <1>9, <2>4 DEF TypeOK
    <3>2. ~Holds(h, d)
      BY <1>1, <2>4 DEF Holds
    <3>3. issues[d] = 1 => Gone(d)'
      BY <1>4, <1>7, <2>1, <3>2 DEF Gone, IsFast
    <3> QED BY <2>1, <2>2, <3>1, <3>3 DEF SentOnce
  <2> QED BY <2>3, <2>4
<1>13. Handed' /\ FilesFast' /\ Dead'
  BY <1>3, <1>4, <1>6, <1>5, <1>8 DEF Copies, Handed, FilesFast, Dead, IsFast
<1> QED BY <1>10, <1>11, <1>12, <1>13 DEF Copies

\* The fast way has cleared the state before: nothing is left but files.
LEMMA CreatedCopies ==
  ASSUME TypeOK, Copies, NEW h \in Handlers, Created(h), IsFast(h)
  PROVE  Copies'
<1>1. PICK x \in Maps : x = job[h].data
  BY DEF TypeOK
<1>2. job[h].pc = "created" /\ Goto(h, "files", x) /\ x # NilData
  BY <1>1 DEF Created, Copies, Handed, Sending
<1>3. PICK j \in [on : Inputs, pc : PCs, data : Maps] :
        job' = [job EXCEPT ![h] = j] /\ j.on = job[h].on /\ j.pc = "files" /\ j.data = x
  BY <1>2, Moving DEF PCs
<1>4. Passes(h, j) /\ conv' = conv /\ drafts' = drafts
  BY <1>2, <1>3 DEF Created, Passes, hist, Idle
<1>5. Numbered' /\ OneHolder' /\ \A d : \A g \in Handlers : Holds(g, d)' => Holds(g, d)
  BY <1>1, <1>3, <1>4, SameDraft
<1>6. NoneTwice'
  <2> SUFFICES ASSUME NEW d \in (1 .. MaxDrafts) \ (overlapped \union unsure \union kept)
               PROVE  SentOnce(d)'
    BY <1>4 DEF NoneTwice, Passes
  <2>1. issues[d] <= 1 /\ (issues[d] = 1 => Gone(d)) /\ Absent(d) /\ issues'[d] = issues[d]
    BY <1>4, Passing DEF Copies, NoneTwice, SentOnce, Passes
  <2>2. Saved(d)' <=> Saved(d)
    BY <1>4 DEF Saved
  <2>3. \A g \in Handlers : g # h => (Holds(g, d)' <=> Holds(g, d)) /\ job'[g] = job[g]
    BY <1>4, Passing
  <2>4. job'[h] = j /\ (Holds(h, d)' => Holds(h, d))
    BY <1>4, <1>5, Passing
  <2>5. Absent(d)'
    BY <1>2, <1>3, <2>1, <2>2, <2>3, <2>4 DEF Absent, IsFast
  <2>6. ASSUME issues[d] = 1 PROVE Gone(d)'
    <3>1. \A g \in Handlers : Holds(g, d)' => (job[g].pc \in {"created", "files"})'
      BY <1>3, <2>1, <2>3, <2>4, <2>6 DEF Gone
    <3>2. ASSUME Saved(d) PROVE \E g \in Handlers : Holds(g, d)' /\ (job[g].pc = "created" /\ ~IsFast(g))'
      <4>1. PICK g \in Handlers : Holds(g, d) /\ job[g].pc = "created" /\ ~IsFast(g)
        BY <2>1, <2>6, <3>2 DEF Gone
      <4>2. Holds(g, d)' /\ job'[g] = job[g]
        BY <2>3, <4>1
      <4> QED BY <4>1, <4>2 DEF IsFast
    <3> QED BY <2>2, <3>1, <3>2 DEF Gone
  <2> QED BY <2>1, <2>5, <2>6 DEF SentOnce
<1>7. Handed' /\ FilesFast' /\ Dead'
  BY <1>2, <1>3, <1>4, Passing DEF IsFast, FastInputs
<1> QED BY <1>5, <1>6, <1>7 DEF Copies

\* A handler that takes up a draft another has is counted as an overlap.
LEMMA TakesUp ==
  ASSUME TypeOK, Copies, ~panicked, NEW h \in Handlers, NEW on \in Inputs,
         NEW pc \in {"run", "routed"}, NEW x \in Reads \union {NilData},
         job' = [job EXCEPT ![h] = [on |-> on, pc |-> pc, data |-> x]],
         job[h].pc \in {Idle, "routed"},
         overlapped' = overlapped \union (DraftOf(x) \intersect Held(h)),
         UNCHANGED <<conv, issues, drafts, unsure, kept, panicked>>
  PROVE  Copies'
<1>1. PICK j : j = [on |-> on, pc |-> pc, data |-> x]
  OBVIOUS
<1>2. job'[h] = j /\ (\A g \in Handlers \ {h} : job'[g] = job[g]) /\ j.pc \in {"run", "routed"} /\ j.data = x
  BY <1>1 DEF TypeOK
<1>3. \A d : Holds(h, d)' <=> (x # NilData /\ x.d = d)
  BY <1>2 DEF Holds
<1>4. \A d : \A g \in Handlers \ {h} : Holds(g, d)' <=> Holds(g, d)
  BY <1>2 DEF Holds
<1>5. x # NilData => x.d = 0 \/ Saved(x.d)
  BY EmptyDraft DEF Reads, Saved
<1>6. \A d \in 1 .. MaxDrafts : x # NilData /\ x.d = d => Saved(d)
  BY <1>5
<1>7. \A d \in 1 .. MaxDrafts : d \notin overlapped' /\ x # NilData /\ x.d = d =>
        \A g \in Handlers \ {h} : ~Holds(g, d)
  BY DEF DraftOf, Held, Holds
<1>8. overlapped \subseteq overlapped' /\ \A d : Saved(d)' <=> Saved(d)
  BY DEF Saved
<1>9. Numbered'
  <2>1. x # NilData => x.d <= drafts
    BY EmptyDraft, BoundsAssumption DEF Reads, Copies, Numbered, TypeOK
  <2>2. conv'.data # NilData => conv'.data.d <= drafts'
    BY DEF Copies, Numbered
  <2>3. \A g \in Handlers : job'[g].data # NilData => job'[g].data.d <= drafts'
    BY <1>2, <2>1 DEF Copies, Numbered
  <2>4. \A d \in 1 .. MaxDrafts : d > drafts' => issues'[d] = 0
    BY DEF Copies, Numbered
  <2> QED BY <2>2, <2>3, <2>4 DEF Numbered
<1>10. OneHolder'
  <2> SUFFICES ASSUME NEW d \in 1 .. MaxDrafts, d \notin overlapped',
                      NEW g \in Handlers, NEW f \in Handlers, Holds(g, d)', Holds(f, d)'
               PROVE  g = f
    BY DEF OneHolder
  <2>1. CASE x # NilData /\ x.d = d
    BY <1>4, <1>7, <2>1
  <2>2. CASE ~(x # NilData /\ x.d = d)
    <3>1. ~Holds(h, d)'
      BY <1>3, <2>2
    <3>2. Holds(g, d) /\ Holds(f, d) /\ d \notin overlapped
      BY <1>4, <1>8, <3>1
    <3> QED BY <3>2 DEF Copies, OneHolder
  <2> QED BY <2>1, <2>2
<1>11. NoneTwice'
  <2> SUFFICES ASSUME NEW d \in (1 .. MaxDrafts) \ (overlapped' \union unsure' \union kept')
               PROVE  SentOnce(d)'
    BY DEF NoneTwice
  <2>1. issues[d] <= 1 /\ (issues[d] = 1 => Gone(d)) /\ Absent(d)
    BY <1>8 DEF Copies, NoneTwice, SentOnce
  <2>2. Saved(d)' <=> Saved(d)
    BY <1>8
  <2>3. Absent(d)'
    BY <1>2, <1>4, <2>1, <2>2 DEF Absent, IsFast
  <2>4. ASSUME issues[d] = 1 PROVE Gone(d)'
    <3>1. \A g \in Handlers : Holds(g, d) /\ job[g].pc = "created" => g # h
      BY DEF Idle
    <3>2. ~(x # NilData /\ x.d = d)
      <4> SUFFICES ASSUME x # NilData, x.d = d PROVE FALSE
        OBVIOUS
      <4>1. PICK g \in Handlers : Holds(g, d) /\ job[g].pc = "created"
        BY <1>6, <2>1, <2>4 DEF Gone
      <4> QED BY <1>7, <3>1, <4>1
    <3>3. ~Holds(h, d)'
      BY <1>3, <3>2
    <3>4. \A g \in Handlers : Holds(g, d)' => (job[g].pc \in {"created", "files"})'
      BY <1>2, <1>4, <2>1, <2>4, <3>3 DEF Gone
    <3>5. ASSUME Saved(d) PROVE \E g \in Handlers : Holds(g, d)' /\ (job[g].pc = "created" /\ ~IsFast(g))'
      <4>1. PICK g \in Handlers : Holds(g, d) /\ job[g].pc = "created" /\ ~IsFast(g)
        BY <2>1, <2>4, <3>5 DEF Gone
      <4>2. Holds(g, d)' /\ job'[g] = job[g]
        BY <1>2, <1>4, <3>1, <4>1
      <4> QED BY <4>1, <4>2 DEF IsFast
    <3> QED BY <2>2, <3>4, <3>5 DEF Gone
  <2> QED BY <2>1, <2>3, <2>4 DEF SentOnce
<1>12. Handed' /\ FilesFast' /\ Dead'
  BY <1>2 DEF Copies, Handed, FilesFast, Dead, Sending, IsFast
<1> QED BY <1>9, <1>10, <1>11, <1>12 DEF Copies

LEMMA ArrivesCopies ==
  ASSUME TypeOK, Copies, NEW h \in Handlers, NEW on \in Inputs, NEW pc \in {"run", "routed"},
         NEW x \in Maps, NEW t \in BOOLEAN, Arrives(h, on, pc, x, t)
  PROVE  Copies'
<1>1. x \in Reads \union {NilData} /\ ~panicked /\ job[h].pc \in {Idle, "routed"}
  BY DEF Arrives, Free
<1>2. /\ job' = [job EXCEPT ![h] = [on |-> on, pc |-> pc, data |-> x]]
      /\ overlapped' = overlapped \union (DraftOf(x) \intersect Held(h))
      /\ UNCHANGED <<conv, issues, drafts, unsure, kept, panicked>>
  BY DEF Arrives, Begin
<1> QED BY <1>1, <1>2, TakesUp

LEMMA ReadAgainCopies ==
  ASSUME TypeOK, Copies, NEW h \in Handlers, ReadAgain(h)
  PROVE  Copies'
<1>1. PICK x \in Reads \union {NilData} :
                         /\ Goto(h, "run", x)
                         /\ overlapped' = overlapped \union (DraftOf(x) \intersect Held(h))
  BY DEF ReadAgain, Goto
<1>2. job[h].pc = "routed" /\ UNCHANGED <<conv, issues, drafts, unsure, kept, panicked>>
  BY DEF ReadAgain
<1>3. ~panicked
  BY <1>2 DEF Copies, Dead, Idle
<1>4. PICK j \in [on : Inputs, pc : PCs, data : Maps] :
        job' = [job EXCEPT ![h] = j] /\ j.on = job[h].on /\ j.pc = "run" /\ j.data = x
  BY <1>1, ReadsTyped, Moving DEF PCs, Maps
<1>5. PICK on \in Inputs : on = j.on
  OBVIOUS
<1>6. j = [on |-> on, pc |-> "run", data |-> x]
  BY <1>4, <1>5
<1>7. job' = [job EXCEPT ![h] = [on |-> on, pc |-> "run", data |-> x]]
  BY <1>4, <1>6
<1> QED BY <1>1, <1>2, <1>3, <1>7, TakesUp

\* Expiry empties the stored state; a restart and a panic leave nobody busy,
\* and an issue not yet reported is unsure after a restart.
LEMMA OtherCopies ==
  ASSUME TypeOK, Copies, Expire \/ Restart \/ \E h \in Handlers : Panic(h)
  PROVE  Copies'
<1>0. NoConv.data = NilData /\ NoJob.data = NilData /\ NoJob.pc = Idle
  BY DEF NoConv, NoJob
<1>1. CASE Expire
  <2>1. ~Saved(0)' /\ \A d : ~Saved(d)'
    BY <1>0, <1>1 DEF Expire, Saved
  <2>2. UNCHANGED <<job, issues, drafts, overlapped, unsure, kept, panicked>>
    BY <1>1 DEF Expire
  <2>3. Numbered' /\ OneHolder' /\ Handed' /\ FilesFast' /\ Dead'
    BY <1>0, <1>1, <2>2 DEF Expire, Copies, Numbered, OneHolder, Holds, Handed, FilesFast, Dead, IsFast
  <2>4. NoneTwice'
    <3> SUFFICES ASSUME NEW d \in (1 .. MaxDrafts) \ (overlapped \union unsure \union kept)
                 PROVE  SentOnce(d)'
      BY <2>2 DEF NoneTwice
    <3>1. issues[d] <= 1 /\ (~panicked => (issues[d] = 1 => Gone(d)))
      BY DEF Copies, NoneTwice, SentOnce
    <3>2. Gone(d) => Gone(d)'
      BY <2>1, <2>2 DEF Gone, Holds
    <3> QED BY <2>1, <2>2, <3>1, <3>2 DEF SentOnce, Absent
  <2> QED BY <2>3, <2>4 DEF Copies
<1>2. ASSUME job' = [h \in Handlers |-> NoJob], UNCHANGED <<conv, issues, drafts, overlapped, kept>>,
             unsure \subseteq unsure',
             panicked' \/ (panicked' = panicked /\ Restart)
      PROVE  Copies'
  <2>1. \A h \in Handlers : job'[h] = NoJob
    BY <1>2
  <2>2. \A d : \A h \in Handlers : ~Holds(h, d)'
    BY <1>0, <2>1 DEF Holds
  <2>3. Numbered' /\ OneHolder' /\ Handed' /\ FilesFast' /\ Dead'
    BY <1>0, <1>2, <2>1, <2>2 DEF Copies, Numbered, OneHolder, Handed, FilesFast, Dead, Sending, Idle
  <2>4. NoneTwice'
    <3> SUFFICES ASSUME NEW d \in (1 .. MaxDrafts) \ (overlapped' \union unsure' \union kept')
                 PROVE  SentOnce(d)'
      BY DEF NoneTwice
    <3>1. SentOnce(d) /\ issues' = issues
      BY <1>2 DEF Copies, NoneTwice
    <3>2. CASE panicked'
      BY <3>1, <3>2 DEF SentOnce
    <3>3. CASE panicked' = panicked /\ Restart
      <4>1. ASSUME ~panicked, issues[d] = 1, Saved(d) PROVE FALSE
        <5>1. PICK h \in Handlers : Holds(h, d) /\ job[h].pc = "created"
          BY <3>1, <4>1 DEF SentOnce, Gone
        <5>2. d \in DraftOf(job[h].data)
          BY <5>1 DEF Holds, DraftOf
        <5>3. d \in unsure'
          BY <3>3, <5>1, <5>2 DEF Restart
        <5> QED BY <5>3
      <4>2. Saved(d)' <=> Saved(d)
        BY <1>2 DEF Saved
      <4> QED BY <2>2, <3>1, <3>3, <4>1, <4>2 DEF SentOnce, Gone, Absent
    <3> QED BY <1>2, <3>2, <3>3
  <2> QED BY <2>3, <2>4 DEF Copies
<1>3. CASE Restart
  BY <1>2, <1>3 DEF Restart
<1>4. CASE \E h \in Handlers : Panic(h)
  BY <1>2, <1>4 DEF Panic
<1> QED BY <1>1, <1>3, <1>4

-----------------------------------------------------------------------------
(* Results                                                                 *)

LEMMA IInvInit == Init => IInv
<1> SUFFICES ASSUME Init PROVE IInv
  OBVIOUS
<1>1. TypeOK
  <2>1. 0 \in 0 .. MaxDrafts /\ 0 \in 0 .. MaxIssues /\ 0 \in 0 .. MaxDisorder
    BY BoundsAssumption
  <2>2. job \in [Handlers -> [on : Inputs, pc : PCs, data : Maps]]
    BY MenuTyped DEF Init
  <2>3. issues \in [1 .. MaxDrafts -> 0 .. MaxIssues]
    BY <2>1 DEF Init
  <2> QED BY <2>1, <2>2, <2>3, MenuTyped DEF Init, TypeOK
<1>2. \A h \in Handlers : job[h] = NoJob
  BY DEF Init
<1>3. conv.step = "" /\ conv.data = NilData /\ fresh = {} /\ ~panicked
  BY DEF Init, NoConv
<1>4. NoJob.data = NilData /\ NoJob.pc = Idle
  BY DEF NoJob
<1>5. InTurn
  <2>1. Alone /\ Answered /\ Offered
    BY <1>2, <1>3, <1>4 DEF Alone, Answered, Offered
  <2>2. Working
    BY <1>2, <1>4, Nothing DEF Working, Idle
  <2> QED BY <1>3, <2>1, <2>2, Nothing DEF InTurn
<1>6. Copies
  <2>1. Numbered /\ OneHolder /\ Handed /\ FilesFast /\ Dead
    BY <1>2, <1>3, <1>4 DEF Init, Numbered, OneHolder, Holds, Handed, FilesFast, Dead, Sending, Idle
  <2>2. NoneTwice
    BY <1>2, <1>4 DEF Init, NoneTwice, SentOnce, Absent, Holds
  <2> QED BY <2>1, <2>2 DEF Copies
<1> QED BY <1>1, <1>5, <1>6 DEF IInv

LEMMA IInvNext == IInv /\ [Next]_vars => IInv'
<1> SUFFICES ASSUME IInv, [Next]_vars PROVE IInv'
  OBVIOUS
<1>0. TypeOK /\ InTurn /\ Copies /\ Handed
  BY DEF IInv, Copies
<1>1. CASE UNCHANGED vars
  BY <1>1 DEF IInv, vars, TypeOK, InTurn, Orderly, Alone, Answered, Offered, Working, Copies, Numbered,
     OneHolder, NoneTwice, SentOnce, Gone, Absent, Holds, Saved, IsFast, Handed, FilesFast, Dead
<1>2. CASE Next
  <2>1. TypeOK'
    BY <1>0, <1>2, NextTyped
  <2>2. InTurn'
    <3>1. ASSUME NEW h \in Handlers, NEW on \in Inputs, NEW pc \in {"run", "routed"}, NEW x \in Maps,
                 NEW t \in BOOLEAN, Arrives(h, on, pc, x, t)
          PROVE  InTurn'
      BY <1>0, <3>1, ArrivesInTurn
    <3> QED BY <1>0, <1>2, <3>1, Stepping, ComesInTurn, SendInTurn, OtherInTurn
  <2>3. Copies'
    <3>1. ASSUME NEW h \in Handlers, NEW on \in Inputs, NEW pc \in {"run", "routed"}, NEW x \in Maps,
                 NEW t \in BOOLEAN, Arrives(h, on, pc, x, t)
          PROVE  Copies'
      BY <1>0, <3>1, ArrivesCopies
    <3> QED BY <1>0, <1>2, <3>1, Stepping, ComesCopies, SendIssueCopies, CreatedCopies,
               ReadAgainCopies, OtherCopies
  <2> QED BY <2>1, <2>2, <2>3 DEF IInv
<1> QED BY <1>1, <1>2

LEMMA IInvAlways == Spec => []IInv
<1> QED BY IInvInit, IInvNext, PTL DEF Spec

\* What is stored and worked on are drafts of the right shape, and no counter
\* passes its bound.
THEOREM Typing == Spec => []TypeOK
<1>1. IInv => TypeOK
  BY DEF IInv
<1> QED BY <1>1, IInvAlways, PTL

\* Answered one question after the other, the wizard offers to confirm only
\* an issue with every required field of cf_order, a required epic and a summary.
THEOREM AllAnswered == Spec => []RequiredAnswered
<1>1. IInv => RequiredAnswered
  BY DEF IInv, InTurn, RequiredAnswered, Reached, Complete, EpicGiven, Described
<1> QED BY <1>1, IInvAlways, PTL

\* One draft becomes two issues only if two handlers had it at once, if the
\* bot did not learn of the first, or if its state could not be removed.
THEOREM SecondIssue == Spec => []DuplicateNeedsOverlap
<1>1. ASSUME IInv PROVE DuplicateNeedsOverlap
  <2> SUFFICES ASSUME NEW d \in 1 .. MaxDrafts, issues[d] > 1, d \notin overlapped \union unsure \union kept
               PROVE  FALSE
    BY DEF DuplicateNeedsOverlap
  <2>1. issues[d] <= 1 /\ issues[d] \in 0 .. MaxIssues
    BY <1>1 DEF IInv, Copies, NoneTwice, SentOnce, TypeOK
  <2> QED BY <2>1, BoundsAssumption
<1> QED BY <1>1, IInvAlways, PTL

\* While inputs come in turn, nothing expires and no read or write of the state
\* fails, no handler finds the map it writes to missing.
THEOREM NoPanicInTurn == Spec => []PanicNeedsDisorder
<1>1. IInv => PanicNeedsDisorder
  BY DEF IInv, InTurn, PanicNeedsDisorder
<1> QED BY <1>1, IInvAlways, PTL
=============================================================================
