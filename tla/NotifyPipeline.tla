--------------------------- MODULE NotifyPipeline ---------------------------
(***************************************************************************)
(* The way of a notification from a producer (poller, webhook, calendar,   *)
(* scheduler) to a Telegram chat: EventNotifier.Send publishes it to the   *)
(* NOTIFY stream without waiting for the ack (pkg/natsx), telegram-svc     *)
(* pulls batches through a durable consumer, sends each message and acks   *)
(* or naks it (cmd/telegram-svc).  Processes crash and shut down between   *)
(* any two steps, the ack wait runs out while a message sits in a batch,   *)
(* and Telegram may deliver a message whose answer never arrives.          *)
(*                                                                         *)
(* JetStream is external and modelled from how the code configures it:     *)
(* de-duplication by Nats-Msg-Id in a window, explicit acks, AckWait and    *)
(* MaxDeliver.  nats.go deletes a durable consumer when the subscription   *)
(* that created it is unsubscribed; a durable that is created again starts *)
(* at the beginning of the stream.  Time is abstract: a timer may fire at  *)
(* any step.  Retention (one week) is longer than any behaviour.           *)
(***************************************************************************)
EXTENDS Naturals, FiniteSets

CONSTANTS
  Notes,       \* notifications (NotifyRequested events)
  Malformed,   \* those telegram-svc rejects: no chat, no text, bad JSON
  Keys,        \* Nats-Msg-Ids
  KeyOf,       \* the id of a notification (IdempotencyKey)
  Procs,       \* telegram-svc processes
  NoNote,      \* no message waits for its ack
  FetchBatch,  \* messages per Fetch
  MaxDeliver,  \* deliveries per message
  MaxRestarts  \* bound: crashes and shutdowns

ASSUME MalformedAssumption == Malformed \subseteq Notes
ASSUME KeyOfAssumption == KeyOf \in [Notes -> Keys]
ASSUME NoNoteAssumption == NoNote \notin Notes
ASSUME MaxDeliverAssumption == MaxDeliver \in Nat \ {0}
ASSUME MaxRestartsAssumption == MaxRestarts \in Nat
ASSUME FetchBatchAssumption == FetchBatch \in Nat \ {0}

\* A notification on the server: absent, stored and not handed out yet, out
\* with a process, waiting to be handed out again, or closed (acked,
\* terminated, or out of deliveries).
Statuses == {"absent", "new", "out", "again", "closed"}

VARIABLES
  \* producers
  asked,    \* notifications whose Send was called
  outbox,   \* published asynchronously, not yet at the server
  \* JetStream
  window,   \* ids the stream remembers
  status,   \* the durable consumer's view of each notification
  tries,    \* deliveries of each notification by this durable
  durable,  \* the durable consumer exists
  \* telegram-svc
  up,       \* the process runs
  creator,  \* its PullSubscribe created the durable
  batch,    \* messages fetched and not handled yet
  acking,   \* the message that was sent and is not acked yet
  \* Telegram and history
  shown,    \* times each notification appeared in its chat
  failed,   \* notifications NotifyFailed was published for
  blurred,  \* notifications whose delivery a fault made uncertain
  resets,   \* times the durable was created anew after deliveries
  restarts  \* crashes and shutdowns so far

server == <<window, status, tries, durable>>
procs == <<up, creator, batch, acking>>
history == <<shown, failed, blurred, resets, restarts>>
pipelineVars == <<asked, outbox, window, status, tries, durable, up, creator, batch,
          acking, shown, failed, blurred, resets, restarts>>

PipelineTypeOK ==
  /\ asked \subseteq Notes
  /\ outbox \subseteq asked
  /\ window \subseteq Keys
  /\ status \in [Notes -> Statuses]
  /\ tries \in [Notes -> 0 .. MaxDeliver]
  /\ durable \in BOOLEAN
  /\ up \in [Procs -> BOOLEAN]
  /\ creator \in [Procs -> BOOLEAN]
  /\ batch \in [Procs -> SUBSET Notes]
  /\ acking \in [Procs -> Notes \union {NoNote}]
  /\ shown \in [Notes -> Nat]
  /\ failed \subseteq Notes
  /\ blurred \subseteq Notes
  /\ resets \in Nat
  /\ restarts \in 0 .. MaxRestarts

PipelineInit ==
  /\ asked = {} /\ outbox = {} /\ window = {}
  /\ status = [n \in Notes |-> "absent"]
  /\ tries = [n \in Notes |-> 0]
  /\ durable = FALSE
  /\ up = [p \in Procs |-> FALSE]
  /\ creator = [p \in Procs |-> FALSE]
  /\ batch = [p \in Procs |-> {}]
  /\ acking = [p \in Procs |-> NoNote]
  /\ shown = [n \in Notes |-> 0]
  /\ failed = {} /\ blurred = {} /\ resets = 0 /\ restarts = 0

-----------------------------------------------------------------------------
(* Publishing                                                              *)

\* EventNotifier.Send: PublishMsgAsync queues the message and returns nil.
Send(n) ==
  /\ n \notin asked
  /\ asked' = asked \union {n}
  /\ outbox' = outbox \union {n}
  /\ UNCHANGED <<server, procs, history>>

\* The server stores the message, or takes it for a duplicate of one whose
\* id it remembers.
Store(n) ==
  /\ n \in outbox
  /\ outbox' = outbox \ {n}
  /\ window' = window \union {KeyOf[n]}
  /\ status' = IF KeyOf[n] \in window THEN status
               ELSE [status EXCEPT ![n] = "new"]
  /\ UNCHANGED <<asked, tries, durable, procs, history>>

\* The publish fails after Send returned (the producer stops, NATS is gone):
\* the ack error is logged and nothing is tried again.
LosePublish(n) ==
  /\ n \in outbox
  /\ outbox' = outbox \ {n}
  /\ UNCHANGED <<asked, server, procs, history>>

\* The duplicates window moves past an id.
Forget(k) ==
  /\ k \in window
  /\ window' = window \ {k}
  /\ UNCHANGED <<asked, outbox, status, tries, durable, procs, history>>

-----------------------------------------------------------------------------
(* The durable consumer                                                    *)

Retained == {n \in Notes : status[n] # "absent"}
Delivered == {n \in Notes : tries[n] > 0}
Holds(p, n) == n \in batch[p] \/ acking[p] = n

\* Mutant of Requeue: no limit on deliveries.
RequeueAlways(n) == "again"

\* A message the durable will not hand out again after this delivery.
Requeue(n) == IF tries[n] = MaxDeliver THEN "closed" ELSE "again"

\* AckWait passes with no ack, whether or not a process still has the message.
AckWaitEnds(n) ==
  /\ status[n] = "out"
  /\ status' = [status EXCEPT ![n] = Requeue(n)]
  /\ blurred' = IF \E p \in Procs : Holds(p, n) THEN blurred \union {n} ELSE blurred
  /\ UNCHANGED <<asked, outbox, window, tries, durable, procs>>
  /\ UNCHANGED <<shown, failed, resets, restarts>>

\* Mutant of PullSubscribe: bind to the durable and never create it again.
StartBound(p) ==
  /\ ~up[p]
  /\ up' = [up EXCEPT ![p] = TRUE]
  /\ durable' = (durable \/ restarts = 0)
  /\ creator' = [creator EXCEPT ![p] = ~durable /\ durable']
  /\ UNCHANGED <<asked, outbox, window, status, tries, batch, acking, history>>

\* PullSubscribe on start: reuse the durable, or create it at the beginning
\* of the stream.
PullSubscribe(p) ==
  /\ ~up[p]
  /\ up' = [up EXCEPT ![p] = TRUE]
  /\ creator' = [creator EXCEPT ![p] = ~durable]
  /\ durable' = TRUE
  /\ resets' = IF durable \/ Delivered = {} THEN resets ELSE resets + 1
  /\ IF durable
     THEN UNCHANGED <<status, tries, blurred>>
     ELSE /\ status' = [n \in Notes |-> IF n \in Retained THEN "new" ELSE "absent"]
          /\ tries' = [n \in Notes |-> 0]
          /\ blurred' = blurred \union Delivered
  /\ UNCHANGED <<asked, outbox, window, batch, acking, shown, failed, restarts>>

\* The context is cancelled: runConsumer returns between two batches and the
\* deferred Unsubscribe deletes the durable if this process created it.
Shutdown(p) ==
  /\ up[p] /\ batch[p] = {} /\ acking[p] = NoNote
  /\ restarts < MaxRestarts
  /\ restarts' = restarts + 1
  /\ up' = [up EXCEPT ![p] = FALSE]
  /\ durable' = (durable /\ ~creator[p])
  /\ creator' = [creator EXCEPT ![p] = FALSE]
  /\ UNCHANGED <<asked, outbox, window, status, tries, batch, acking>>
  /\ UNCHANGED <<shown, failed, blurred, resets>>

\* The process dies: what it fetched stays out until the ack wait ends.
PipelineCrash(p) ==
  /\ up[p]
  /\ restarts < MaxRestarts
  /\ restarts' = restarts + 1
  /\ up' = [up EXCEPT ![p] = FALSE]
  /\ creator' = [creator EXCEPT ![p] = FALSE]
  /\ batch' = [batch EXCEPT ![p] = {}]
  /\ acking' = [acking EXCEPT ![p] = NoNote]
  /\ blurred' = blurred \union {n \in Notes : acking[p] = n}
  /\ UNCHANGED <<asked, outbox, server, shown, failed, resets>>

-----------------------------------------------------------------------------
(* runConsumer and handleMessage                                           *)

\* Fetch hands out up to FetchBatch messages; it fails while there is no
\* durable and the loop tries again.
Fetch(p) ==
  /\ up[p] /\ batch[p] = {} /\ acking[p] = NoNote
  /\ durable
  /\ \E S \in SUBSET {n \in Notes : status[n] \in {"new", "again"}} :
       /\ S # {} /\ Cardinality(S) <= FetchBatch
       /\ batch' = [batch EXCEPT ![p] = S]
       /\ status' = [n \in Notes |-> IF n \in S THEN "out" ELSE status[n]]
       /\ tries' = [n \in Notes |-> IF n \in S THEN tries[n] + 1 ELSE tries[n]]
  /\ UNCHANGED <<asked, outbox, window, durable, up, creator, acking, history>>

\* What an ack or a term does at the server; late ones count as well, and one
\* for a message the durable does not wait for has no effect.  Acks, terms and
\* naks are published and forgotten (`_ = msg.Ack()`): the code never learns
\* that one was lost, and the ack wait hands the message out again.
Close(n) ==
  status' = IF durable /\ status[n] \in {"out", "again"}
            THEN [status EXCEPT ![n] = "closed"] ELSE status

\* Mutant of Return: a failed send is acked.
ReturnAcked(n) == Close(n)

\* ... and to a nak.
Return(n) ==
  status' = IF durable /\ status[n] = "out"
            THEN [status EXCEPT ![n] = Requeue(n)] ELSE status

\* The batch is handled one message after the other; the order is open.
Handling(p, n) == up[p] /\ acking[p] = NoNote /\ n \in batch[p]

Handled(p, n) == batch' = [batch EXCEPT ![p] = @ \ {n}]

Reject(p, n) ==
  /\ Handling(p, n)
  /\ n \in Malformed
  /\ Handled(p, n)
  /\ Close(n) \/ UNCHANGED status  \* the term arrives, or is lost
  /\ UNCHANGED <<asked, outbox, window, tries, durable, up, creator, acking, history>>

SendOk(p, n) ==
  /\ Handling(p, n)
  /\ n \notin Malformed
  /\ Handled(p, n)
  /\ acking' = [acking EXCEPT ![p] = n]
  /\ shown' = [shown EXCEPT ![n] = @ + 1]
  /\ UNCHANGED <<asked, outbox, server, up, creator, failed, blurred, resets, restarts>>

\* Send returns an error: NotifyFailed goes out and the message is nak'ed.
\* After a timeout the message may be in the chat all the same.
Nak(p, n) ==
  /\ Handling(p, n)
  /\ n \notin Malformed
  /\ Handled(p, n)
  /\ \/ UNCHANGED <<shown, blurred>>
     \/ /\ shown' = [shown EXCEPT ![n] = @ + 1]
        /\ blurred' = blurred \union {n}
  /\ failed' = failed \union {n}
  /\ Return(n) \/ UNCHANGED status  \* the nak arrives, or is lost
  /\ UNCHANGED <<asked, outbox, window, tries, durable, up, creator, acking>>
  /\ UNCHANGED <<resets, restarts>>

\* Mutant of Ack: a delivered message is not acked.
AckForgotten(p) ==
  /\ up[p] /\ acking[p] # NoNote
  /\ acking' = [acking EXCEPT ![p] = NoNote]
  /\ UNCHANGED <<asked, outbox, server, up, creator, batch, history>>

Ack(p) ==
  /\ up[p] /\ acking[p] # NoNote
  /\ acking' = [acking EXCEPT ![p] = NoNote]
  /\ \/ Close(acking[p]) /\ UNCHANGED blurred
     \/ /\ blurred' = blurred \union {acking[p]}  \* the ack is lost
        /\ UNCHANGED status
  /\ UNCHANGED <<asked, outbox, window, tries, durable, up, creator, batch>>
  /\ UNCHANGED <<shown, failed, resets, restarts>>

-----------------------------------------------------------------------------
Handle(p, n) == Reject(p, n) \/ SendOk(p, n) \/ Nak(p, n)
Publishing(n) == Send(n) \/ Store(n) \/ LosePublish(n)
Process(p) == PullSubscribe(p) \/ Shutdown(p) \/ PipelineCrash(p) \/ Fetch(p) \/ Ack(p)

PipelineNext ==
  \/ \E n \in Notes : Publishing(n) \/ AckWaitEnds(n)
  \/ \E k \in Keys : Forget(k)
  \/ \E p \in Procs : Process(p)
  \/ \E p \in Procs, n \in Notes : Handle(p, n)

PipelineSpec == PipelineInit /\ [][PipelineNext]_pipelineVars

\* Calls to Telegram and NATS return, the server's timers fire, and the
\* container runtime starts a process that is down (restart: unless-stopped).
PipelineFairness ==
  /\ \A n \in Notes : WF_pipelineVars(Store(n) \/ LosePublish(n)) /\ WF_pipelineVars(AckWaitEnds(n))
  /\ \A p \in Procs :
       /\ WF_pipelineVars(PullSubscribe(p)) /\ WF_pipelineVars(Fetch(p)) /\ WF_pipelineVars(Ack(p))
       /\ WF_pipelineVars(\E n \in Notes : Handle(p, n))

FairSpec == PipelineSpec /\ PipelineFairness

-----------------------------------------------------------------------------
(* Properties                                                              *)

\* A chat sees a notification twice only after a fault: the ack wait ended
\* with the message in hand, a process died between the send and the ack,
\* the ack or Telegram's answer was lost, or the durable was created anew.
DuplicateNeedsFault == \A n \in Notes : shown[n] > 1 => n \in blurred

\* A notification the stream accepted is given up only for a reason: it is
\* malformed, its chat has seen it, or its deliveries are used up.  Stated as
\* the refinement of NotifyContract.
Contract ==
  INSTANCE NotifyContract WITH
    st <- [n \in Notes |-> IF status[n] \in {"new", "out", "again"} THEN "open"
                           ELSE status[n]],
    seen <- {n \in Notes : shown[n] > 0}

ImplementsContract == Contract!CSpec

\* Every notification the stream accepted is settled in the end: no crash,
\* shutdown or lost ack leaves it waiting for ever.
AcceptedIsSettled == \A n \in Notes : status[n] \notin {"absent", "closed"} ~> status[n] = "closed"

\* events/v1: "NotifyFailed is emitted when telegram-svc exhausts retries".
FailedIsFinal == \A n \in failed : tries[n] = MaxDeliver

\* natsx: "The durable name survives restarts", so a restart never hands out
\* again, as if for the first time, what was handed out before.
DurableSurvivesRestarts == resets = 0
=============================================================================
