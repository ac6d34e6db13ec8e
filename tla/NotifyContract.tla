--------------------------- MODULE NotifyContract ---------------------------
(***************************************************************************)
(* What the notify pipeline promises about the notifications JetStream     *)
(* accepted, with no streams, consumers or processes: each one is tried at *)
(* most MaxDeliver times and is given up only when a chat has seen it, when *)
(* it is malformed, or when the tries are used up.  Reset is the price of  *)
(* losing the durable consumer: everything retained is open once more.     *)
(***************************************************************************)
EXTENDS Naturals

CONSTANTS
  Notes,      \* notifications
  Malformed,  \* those without a chat or a text
  MaxDeliver  \* tries per notification

VARIABLES
  st,    \* "absent", "open" or "closed"
  tries, \* tries so far
  seen   \* the notifications a chat has seen
cvars == <<st, tries, seen>>

CInit ==
  /\ st = [n \in Notes |-> "absent"]
  /\ tries = [n \in Notes |-> 0]
  /\ seen = {}

Accept(n) ==
  /\ st[n] = "absent"
  /\ st' = [st EXCEPT ![n] = "open"]
  /\ UNCHANGED <<tries, seen>>

\* A batch of open notifications is handed out, each one try further.
Try(S) ==
  /\ \A n \in S : st[n] = "open" /\ tries[n] < MaxDeliver
  /\ tries' = [n \in Notes |-> IF n \in S THEN tries[n] + 1 ELSE tries[n]]
  /\ UNCHANGED <<st, seen>>

\* A chat sees the notification, which may close it at once: never one that
\* is malformed or that the stream did not accept.
Show(n) ==
  /\ st[n] # "absent"
  /\ n \notin Malformed
  /\ seen' = seen \union {n}
  /\ st' = st \/ st' = [st EXCEPT ![n] = "closed"]
  /\ UNCHANGED tries

Settle(n) ==
  /\ st[n] = "open"
  /\ n \in seen \/ n \in Malformed \/ tries[n] = MaxDeliver
  /\ st' = [st EXCEPT ![n] = "closed"]
  /\ UNCHANGED <<tries, seen>>

Reset ==
  /\ st' = [n \in Notes |-> IF st[n] = "absent" THEN "absent" ELSE "open"]
  /\ tries' = [n \in Notes |-> 0]
  /\ UNCHANGED seen

CNext ==
  \/ \E n \in Notes : Accept(n) \/ Show(n) \/ Settle(n)
  \/ \E S \in SUBSET Notes : Try(S)
  \/ Reset

CSpec == CInit /\ [][CNext]_cvars
=============================================================================
