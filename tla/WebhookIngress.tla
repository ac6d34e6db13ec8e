--------------------------- MODULE WebhookIngress ---------------------------
(***************************************************************************)
(* webhook-svc's ingress (internal/webhook): ServeHTTP answers Jira's      *)
(* requests and queues their events, processQueue hands them to a pool of  *)
(* workers, and each worker matches its event with subscriptions and tells *)
(* every chat once.  Requests repeat (Jira retries), slots of the guard    *)
(* lapse, reads and sends fail, the process crashes or is told to stop at  *)
(* any moment.                                                             *)
(*                                                                         *)
(* Requests that ServeHTTP turns away before the queue (method, signature, *)
(* body) change nothing and are left out.  All events name an issue.       *)
(* Subscriptions do not change.  The guard is Redis, which outlives the    *)
(* process.                                                                *)
(***************************************************************************)
EXTENDS Naturals, FiniteSets, Sequences

CONSTANTS
  Events,
  KeyOf, Keys,   \* an event's guard key: issue, event type and comment
  AuthorOf,      \* the user whose change it is
  Subs, ChatOf, UserOf, Chats, Users,
  Found,         \* the subscriptions each lookup finds for an event
  QueueSize,     \* eventQueueSize
  Workers,       \* as many as maxConcurrentJobs
  Main,          \* the goroutine of processQueue, working on an event itself
  MaxRequests,   \* bound: requests Jira sends
  MaxFailures,   \* bound: failures, lapsed slots, stops and crashes
  NoEvent

Lookups == {"project", "issue", "mention"}

ASSUME EventsAssumption ==
  /\ KeyOf \in [Events -> Keys] /\ AuthorOf \in [Events -> Users] /\ NoEvent \notin Events
  /\ ChatOf \in [Subs -> Chats] /\ UserOf \in [Subs -> Users]
  /\ Found \in [Events -> [Lookups -> Seq(Subs)]]
ASSUME BoundsAssumption ==
  /\ QueueSize \in Nat \ {0} /\ {MaxRequests, MaxFailures} \subseteq Nat
  /\ Main \notin Workers /\ IsFiniteSet(Workers)

Requests == 1 .. MaxRequests
Jobs == Workers \union {Main}
Slots == Chats \X Keys

\* A job: its request (0: none), the next thing it does ("look" up, "next"
\* subscription, "send"), the subscriptions left and the chats dealt with.
Job == [req : Requests \union {0}, at : {"idle", "look", "next", "send"},
        todo : Seq(Subs), sent : SUBSET Chats]
Idle == [req |-> 0, at |-> "idle", todo |-> <<>>, sent |-> {}]

VARIABLES
  event,     \* the event of each request Jira sent
  process,   \* "up", "stopping" (context cancelled), "closed" (no new requests) or "down"
  serving,   \* requests in ServeHTTP
  queue,     \* eventQueue
  loop,      \* processQueue: "select", "hold", "inline", "drain" or "exit"
  held,      \* the request it holds while it waits for a worker
  job,
  guard,     \* slots in use
  \* history
  accepted,  \* requests answered with 200
  early,     \* those of them answered before the context was cancelled
  processed, \* requests whose processEvent returned
  lost,      \* accepted requests that went down with the process
  told,      \* times a chat was told an event of a key, per slot
  lapses,    \* times each slot lapsed
  failures

inbox == <<event, process, serving>>
dispatch == <<queue, loop, held>>
answers == <<accepted, early>>
outcome == <<told, lapses>>
vars == <<event, process, serving, queue, loop, held, job, guard, accepted,
          early, processed, lost, told, lapses, failures>>

TypeOK ==
  /\ event \in [Requests -> Events \union {NoEvent}]
  /\ process \in {"up", "stopping", "closed", "down"}
  /\ serving \subseteq Requests
  /\ queue \in Seq(Requests) /\ Len(queue) <= QueueSize
  /\ loop \in {"select", "hold", "inline", "drain", "exit"}
  /\ held \in Requests \union {0} /\ (held = 0 <=> loop # "hold")
  /\ job \in [Jobs -> Job]
  /\ job[Main] # Idle => loop \in {"inline", "drain"}
  /\ guard \subseteq Slots
  /\ early \subseteq accepted /\ processed \subseteq accepted /\ lost \subseteq accepted
  /\ accepted \subseteq Requests
  /\ told \in [Slots -> Nat] /\ lapses \in [Slots -> Nat]
  /\ failures \in 0 .. MaxFailures

Init ==
  /\ event = [r \in Requests |-> NoEvent] /\ process = "up" /\ serving = {}
  /\ queue = <<>> /\ loop = "select" /\ held = 0
  /\ job = [w \in Jobs |-> Idle]
  /\ guard = {}
  /\ accepted = {} /\ early = {} /\ processed = {} /\ lost = {}
  /\ told = [k \in Slots |-> 0] /\ lapses = [k \in Slots |-> 0]
  /\ failures = 0

Fail == failures < MaxFailures /\ failures' = failures + 1

-----------------------------------------------------------------------------
(* Requests                                                                *)

\* Jira posts an event, perhaps again.
Post(r, e) ==
  /\ process \in {"up", "stopping"}
  /\ event[r] = NoEvent /\ \A q \in Requests : q < r => event[q] # NoEvent
  /\ event' = [event EXCEPT ![r] = e]
  /\ serving' = serving \union {r}
  /\ UNCHANGED <<process, dispatch, job, guard, answers, processed, lost, outcome, failures>>

\* Mutant of ServeHTTP: the queue has no limit.
ServeAlways(r) ==
  /\ process # "down" /\ r \in serving
  /\ serving' = serving \ {r}
  /\ queue' = Append(queue, r)
  /\ accepted' = accepted \union {r}
  /\ early' = IF process = "up" THEN early \union {r} ELSE early
  /\ UNCHANGED <<event, process, loop, held, job, guard, processed, lost, outcome, failures>>

\* ServeHTTP queues the event and answers 200, or 503 if the queue is full.
ServeHTTP(r) ==
  /\ process # "down" /\ r \in serving
  /\ serving' = serving \ {r}
  /\ \/ /\ Len(queue) < QueueSize
        /\ queue' = Append(queue, r)
        /\ accepted' = accepted \union {r}
        /\ early' = IF process = "up" THEN early \union {r} ELSE early
     \/ Len(queue) = QueueSize /\ UNCHANGED <<queue, answers>>
  /\ UNCHANGED <<event, process, loop, held, job, guard, processed, lost, outcome, failures>>

-----------------------------------------------------------------------------
(* processQueue and drainQueue                                             *)

Begin(w, r) == job' = [job EXCEPT ![w] = [Idle EXCEPT !.req = r, !.at = "look"]]

\* An event is taken, also when the context is done: select picks any case
\* that is ready.
Take ==
  /\ process # "down" /\ loop = "select" /\ queue # <<>>
  /\ held' = Head(queue) /\ queue' = Tail(queue) /\ loop' = "hold"
  /\ UNCHANGED <<inbox, job, guard, answers, processed, lost, outcome, failures>>

Spawn(w) ==
  /\ process # "down" /\ loop = "hold" /\ w \in Workers /\ job[w] = Idle
  /\ Begin(w, held)
  /\ held' = 0 /\ loop' = "select"
  /\ UNCHANGED <<inbox, queue, guard, answers, processed, lost, outcome, failures>>

\* Mutant of HoldCancelled: the event in hand is forgotten.
HoldDropped ==
  /\ process \in {"stopping", "closed"} /\ loop = "hold"
  /\ held' = 0 /\ loop' = "drain"
  /\ UNCHANGED <<inbox, queue, job, guard, answers, processed, lost, outcome, failures>>

\* The context ends while the loop waits for a worker: it works itself, then
\* drains.
HoldCancelled ==
  /\ process \in {"stopping", "closed"} /\ loop = "hold"
  /\ Begin(Main, held)
  /\ held' = 0 /\ loop' = "inline"
  /\ UNCHANGED <<inbox, queue, guard, answers, processed, lost, outcome, failures>>

SelectCancelled ==
  /\ process \in {"stopping", "closed"}
  /\ \/ loop = "select"
     \/ loop = "inline" /\ job[Main] = Idle
  /\ loop' = "drain"
  /\ UNCHANGED <<inbox, queue, held, job, guard, answers, processed, lost, outcome, failures>>

Drain ==
  /\ process # "down" /\ loop = "drain" /\ job[Main] = Idle
  /\ \/ queue = <<>> /\ loop' = "exit" /\ UNCHANGED <<queue, job>>
     \/ queue # <<>> /\ Begin(Main, Head(queue)) /\ queue' = Tail(queue) /\ UNCHANGED loop
  /\ UNCHANGED <<inbox, held, guard, answers, processed, lost, outcome, failures>>

-----------------------------------------------------------------------------
(* processEvent                                                            *)

EventOf(w) == event[job[w].req]
Sub(w) == Head(job[w].todo)
Slot(w) == <<ChatOf[Sub(w)], KeyOf[EventOf(w)]>>
\* Mutant of Return: the worker is not given back.
ReturnLeaks(w) == job' = [job EXCEPT ![w].at = "idle"] /\ processed' = processed \union {job[w].req}

Return(w) == job' = [job EXCEPT ![w] = Idle] /\ processed' = processed \union {job[w].req}

\* The lookups, each of which may fail on its own.
Answer(e, l, ok) == IF l \in ok THEN Found[e][l] ELSE <<>>
Matches(e, ok) == Answer(e, "project", ok) \o Answer(e, "issue", ok) \o Answer(e, "mention", ok)

\* Mutant of Skips: one chat dealt with counts for all.
SkipsAll(todo, sent, n) == n = IF sent = {} THEN 0 ELSE Len(todo)

\* The first n subscriptions are of chats dealt with, the next is not.
Skips(todo, sent, n) ==
  /\ \A k \in 1 .. n : ChatOf[todo[k]] \in sent
  /\ n < Len(todo) => ChatOf[todo[n + 1]] \notin sent

\* On with the subscriptions in todo, or processEvent returns.
Continue(w, todo, sent) ==
  \E n \in 0 .. Len(todo) :
    /\ Skips(todo, sent, n)
    /\ IF n = Len(todo) THEN Return(w)
       ELSE /\ job' = [job EXCEPT ![w] = [@ EXCEPT !.at = "next", !.todo = SubSeq(todo, n + 1, Len(todo)),
                                                    !.sent = sent]]
            /\ UNCHANGED processed

\* Past the next subscription: its chat is dealt with.
Past(w) == Continue(w, Tail(job[w].todo), job[w].sent \union {ChatOf[Sub(w)]})

LookUp(w) ==
  /\ process # "down" /\ job[w].at = "look"
  /\ \E ok \in SUBSET Lookups :
       /\ Continue(w, Matches(EventOf(w), ok), {})
       /\ IF ok = Lookups THEN UNCHANGED failures ELSE Fail
  /\ UNCHANGED <<inbox, dispatch, guard, answers, lost, outcome>>

\* Mutant of ClaimSlot: the slot is tested and not recorded.
ClaimNothing(slot) == UNCHANGED guard

ClaimSlot(slot) == guard' = guard \union {slot}

\* The author's own change is not told, nor one whose slot is in use or that
\* Redis fails to answer for.  An unreadable user is taken for somebody else.
Notify(w) ==
  /\ process # "down" /\ job[w].at = "next"
  /\ LET own == UserOf[Sub(w)] = AuthorOf[EventOf(w)]
         misjudged == IF own THEN Fail ELSE UNCHANGED failures
     IN \/ own /\ Past(w) /\ UNCHANGED <<guard, failures>>
        \/ Slot(w) \in guard /\ Past(w) /\ UNCHANGED guard /\ misjudged
        \/ Past(w) /\ UNCHANGED guard /\ Fail
        \/ /\ Slot(w) \notin guard /\ ClaimSlot(Slot(w)) /\ misjudged
           /\ job' = [job EXCEPT ![w].at = "send"] /\ UNCHANGED processed
  /\ UNCHANGED <<inbox, dispatch, answers, lost, outcome>>

\* A send error is logged; the slot stays claimed.
Send(w) ==
  /\ process # "down" /\ job[w].at = "send"
  /\ Past(w)
  /\ \/ /\ told' = [told EXCEPT ![Slot(w)] = @ + 1]
        /\ UNCHANGED failures
     \/ UNCHANGED told /\ Fail
  /\ UNCHANGED <<inbox, dispatch, guard, answers, lost, lapses>>

\* A panic is recovered: the event is given up, the worker is free again.
Panic(w) ==
  /\ process # "down" /\ job[w] # Idle
  /\ Return(w)
  /\ Fail
  /\ UNCHANGED <<inbox, dispatch, guard, answers, lost, outcome>>

Lapse(slot) ==
  /\ slot \in guard
  /\ guard' = guard \ {slot} /\ lapses' = [lapses EXCEPT ![slot] = @ + 1]
  /\ Fail
  /\ UNCHANGED <<inbox, dispatch, job, answers, processed, lost, told>>

-----------------------------------------------------------------------------
(* The process                                                             *)

Cancel ==
  /\ process = "up" /\ process' = "stopping"
  /\ Fail
  /\ UNCHANGED <<event, serving, dispatch, job, guard, answers, processed, lost, outcome>>

\* srv.Shutdown: no new requests.
Shutdown ==
  /\ process = "stopping" /\ process' = "closed"
  /\ UNCHANGED <<event, serving, dispatch, job, guard, answers, processed, lost, outcome, failures>>

\* What is in memory goes.
Die ==
  /\ process' = "down"
  /\ lost' = lost \union (accepted \ processed)
  /\ serving' = {} /\ queue' = <<>> /\ held' = 0 /\ loop' = "exit"
  /\ job' = [w \in Jobs |-> Idle]
  /\ UNCHANGED <<event, guard, answers, processed, outcome>>

\* Start returned and Shutdown too, with its requests answered or timed out.
Exit ==
  /\ process = "closed" /\ loop = "exit" /\ \A w \in Jobs : job[w] = Idle
  /\ IF serving = {} THEN UNCHANGED failures ELSE Fail
  /\ Die

Crash == process # "down" /\ Fail /\ Die

Restart ==
  /\ process = "down"
  /\ process' = "up" /\ loop' = "select"
  /\ UNCHANGED <<event, serving, queue, held, job, guard, answers, processed, lost, outcome, failures>>

-----------------------------------------------------------------------------
Serve == \E r \in Requests : ServeHTTP(r)
Dispatch == Take \/ HoldCancelled \/ SelectCancelled \/ Drain \/ \E w \in Workers : Spawn(w)
Work(w) == LookUp(w) \/ Notify(w) \/ Send(w)
Life == Cancel \/ Shutdown \/ Exit \/ Crash \/ Restart

Next ==
  \/ \E r \in Requests, e \in Events : Post(r, e)
  \/ Serve \/ Dispatch \/ Life
  \/ \E w \in Jobs : Work(w) \/ Panic(w)
  \/ \E slot \in Slots : Lapse(slot)

\* While a goroutine can go on, one does, and a stopping process stops.  Nothing
\* makes Jira post, anything fail or a process restart.
Program == Serve \/ Dispatch \/ Shutdown \/ Exit \/ \E w \in Jobs : Work(w)
Spec == Init /\ [][Next]_vars /\ WF_vars(Program)

-----------------------------------------------------------------------------
(* Properties                                                              *)

\* Start "blocks until ctx is cancelled and all in-flight events finish
\* processing" (handler.go:120-121): once it has returned, every event
\* accepted before the cancellation was processed, whatever the workers and
\* the queue held then.
DrainsAccepted ==
  process = "closed" /\ loop = "exit" /\ (\A w \in Jobs : job[w] = Idle) =>
    early \subseteq processed \union lost

\* The events of one guard key are told to a chat once, and once more for each
\* time the slot lapsed, however often Jira repeats a request and however many
\* workers hold one: claiming is atomic.
RepeatNeedsLapse == \A slot \in Slots : told[slot] <= 1 + lapses[slot]

\* The chat's first subscription that matches e belongs to somebody else than
\* its author.
Concerns(e, c) ==
  LET m == Matches(e, Lookups) IN
    \E i \in DOMAIN m :
      /\ ChatOf[m[i]] = c /\ \A k \in 1 .. i - 1 : ChatOf[m[k]] # c
      /\ UserOf[m[i]] # AuthorOf[e]

\* While nothing fails and no slot lapses, a processed event was told to every
\* chat it concerns, or another of its key was, or is about to be.
EachChatIsTold ==
  failures = 0 =>
    \A r \in processed, c \in Chats : Concerns(event[r], c) =>
      \/ told[<<c, KeyOf[event[r]]>>] > 0
      \/ \E w \in Jobs : job[w].at = "send" /\ Slot(w) = <<c, KeyOf[event[r]]>>

\* Every accepted event is processed or goes down with its process (requests
\* are finitely many, and handled for good): no panic, full queue or busy pool
\* leaves one waiting for ever.
AcceptedIsHandled == []<>(accepted \subseteq processed \union lost)

\* drainQueue "processes remaining events in the queue before shutdown": a
\* process that stops in good order loses nothing it accepted.
StopLosesNothing ==
  [][Exit => lost' = lost]_vars
=============================================================================
