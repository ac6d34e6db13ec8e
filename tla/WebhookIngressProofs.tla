------------------------ MODULE WebhookIngressProofs ------------------------
(***************************************************************************)
(* Proofs about WebhookIngress for any events, subscriptions, workers,     *)
(* queue and bounds: its states are well typed, a stop drains what was     *)
(* accepted before it, a key is told once per life of its slot, and every  *)
(* chat an event concerns is told of it.                                   *)
(***************************************************************************)
EXTENDS WebhookIngress, FiniteSetTheorems, TLAPS

USE EventsAssumption, BoundsAssumption

(* ---------------------------------------------------------------------- *)
(* The inductive invariant                                                 *)

In(q, r) == \E i \in DOMAIN q : q[i] = r

\* Requests past ServeHTTP have an event and were answered once.
Known ==
  /\ \A r \in serving \union accepted : event[r] \in Events
  /\ serving \intersect accepted = {}
  /\ \A i \in DOMAIN queue : queue[i] \in accepted
  /\ held # 0 => held \in accepted

\* A busy goroutine has an accepted request, and one past the lookups a
\* subscription whose chat is not dealt with.
Busy(w) ==
  /\ job[w].at = "idle" => job[w] = Idle
  /\ job[w].at # "idle" => job[w].req \in accepted
  /\ job[w].at \in {"next", "send"} =>
       job[w].todo # <<>> /\ ChatOf[Head(job[w].todo)] \notin job[w].sent

\* The loop leaves select for good once the context is cancelled.
Modes ==
  /\ process = "up" => loop \in {"select", "hold"}
  /\ process = "down" => loop = "exit" /\ queue = <<>> /\ \A w \in Jobs : job[w] = Idle
  /\ process # "up" => failures > 0

\* Where an accepted request is that is not handled.
Located ==
  \A r \in accepted \ (processed \union lost) :
    \/ In(queue, r)
    \/ held = r
    \/ \E w \in Jobs : job[w].at # "idle" /\ job[w].req = r

\* Whoever left the queue left nothing there that was accepted in time.
Exited == loop = "exit" => \A i \in DOMAIN queue : queue[i] \notin early

Sending(w, s) == job[w].at = "send" /\ Slot(w) = s
Senders(s) == {w \in Jobs : Sending(w, s)}

\* A slot was told, or is about to be, once for each time it was claimed.
Claimed ==
  \A s \in Slots : told[s] + Cardinality(Senders(s)) <= lapses[s] + (IF s \in guard THEN 1 ELSE 0)

\* What is left of m, after its first subscriptions, whose chats are in sent.
Tails(m, todo, sent) ==
  \E n \in 0 .. Len(m) :
    /\ Len(todo) = Len(m) - n
    /\ \A i \in 1 .. Len(todo) : todo[i] = m[n + i]
    /\ \A k \in 1 .. n : ChatOf[m[k]] \in sent

Told(s) == told[s] > 0 \/ \E w \in Jobs : Sending(w, s)
Deals(e, sent) == \A c \in sent : Concerns(e, c) => Told(<<c, KeyOf[e]>>)

\* A job goes through all matches of its event, and the chats it dealt with
\* are told.
Dealing(w) ==
  job[w].at \in {"next", "send"} =>
    /\ Tails(Matches(EventOf(w), Lookups), job[w].todo, job[w].sent)
    /\ Deals(EventOf(w), job[w].sent)

\* While nothing fails, a slot in use is told, and so are the chats of jobs
\* and of processed events.
InUseIsTold == \A s \in guard : Told(s)
DoneIsTold == \A r \in processed : Deals(event[r], Chats)
Telling == failures = 0 => InUseIsTold /\ (\A w \in Jobs : Dealing(w)) /\ DoneIsTold

Core == TypeOK /\ Known /\ (\A w \in Jobs : Busy(w)) /\ Modes /\ Located /\ Exited
IInv == Core /\ Claimed /\ Telling

(* ---------------------------------------------------------------------- *)
(* The queue and the subscriptions left                                    *)

LEMMA InAppend ==
  ASSUME NEW S, NEW q \in Seq(S), NEW x \in S, NEW r
  PROVE  In(Append(q, x), r) <=> In(q, r) \/ r = x
<1>1. PICK p : p = Append(q, x)
  OBVIOUS
<1>2. /\ DOMAIN q = 1 .. Len(q) /\ Len(q) \in Nat /\ DOMAIN p = 1 .. Len(q) + 1
      /\ \A i \in 1 .. Len(q) : p[i] = q[i]
      /\ p[Len(q) + 1] = x
  BY <1>1
<1>3. (\E i \in 1 .. Len(q) + 1 : p[i] = r) <=> (\E i \in 1 .. Len(q) : q[i] = r) \/ r = x
  <2>1. ASSUME NEW i \in 1 .. Len(q) + 1, p[i] = r, i \notin 1 .. Len(q) PROVE r = x
    <3>1. i = Len(q) + 1
      BY <1>2, <2>1
    <3> QED
      BY <1>2, <2>1, <3>1, Zenon
  <2>2. \A i \in 1 .. Len(q) : i \in 1 .. Len(q) + 1
    BY <1>2
  <2>3. Len(q) + 1 \in 1 .. Len(q) + 1
    BY <1>2
  <2> QED
    BY <1>2, <2>1, <2>2, <2>3, Zenon
<1> QED
  BY <1>1, <1>2, <1>3, Zenon DEF In

LEMMA InTail ==
  ASSUME NEW S, NEW q \in Seq(S), q # <<>>, NEW r
  PROVE  /\ Head(q) \in S /\ Tail(q) \in Seq(S) /\ Len(Tail(q)) = Len(q) - 1
         /\ \A i \in DOMAIN Tail(q) : Tail(q)[i] = q[i + 1] /\ i + 1 \in DOMAIN q
         /\ Head(q) = q[1] /\ 1 \in DOMAIN q
         /\ In(q, r) <=> r = Head(q) \/ In(Tail(q), r)
<1>1. /\ Head(q) \in S /\ Tail(q) \in Seq(S) /\ Len(Tail(q)) = Len(q) - 1
      /\ Head(q) = q[1] /\ 1 \in DOMAIN q
      /\ \A i \in DOMAIN Tail(q) : Tail(q)[i] = q[i + 1] /\ i + 1 \in DOMAIN q
  OBVIOUS
<1>2. ASSUME NEW i \in DOMAIN q, i # 1
      PROVE  i - 1 \in DOMAIN Tail(q) /\ Tail(q)[i - 1] = q[i]
  BY <1>1, <1>2
<1>3. In(q, r) => r = Head(q) \/ In(Tail(q), r)
  BY <1>1, <1>2 DEF In
<1>4. r = Head(q) \/ In(Tail(q), r) => In(q, r)
  BY <1>1 DEF In
<1> QED
  BY <1>1, <1>3, <1>4

\* The matches of an event are subscriptions, whichever lookups answer.
LEMMA MatchesType ==
  ASSUME NEW e \in Events, NEW ok \in SUBSET Lookups
  PROVE  Matches(e, ok) \in Seq(Subs)
<1>1. \A l \in Lookups : Answer(e, l, ok) \in Seq(Subs)
  BY DEF Answer
<1> QED
  BY <1>1 DEF Matches, Lookups

\* Nothing left of m: the chats of all its subscriptions are in sent.
LEMMA TailsEmpty ==
  ASSUME NEW m \in Seq(Subs), NEW sent, Tails(m, <<>>, sent)
  PROVE  \A i \in DOMAIN m : ChatOf[m[i]] \in sent
BY DEF Tails

\* Past the next subscription and those after it whose chats are dealt with.
LEMMA TailsPast ==
  ASSUME NEW m \in Seq(Subs), NEW todo \in Seq(Subs), NEW rest \in Seq(Subs), NEW sent,
         todo # <<>>, Tails(m, todo, sent),
         Tails(Tail(todo), rest, sent \union {ChatOf[Head(todo)]})
  PROVE  Tails(m, rest, sent \union {ChatOf[Head(todo)]})
<1>1. PICK n \in 0 .. Len(m) :
        /\ Len(todo) = Len(m) - n
        /\ \A i \in 1 .. Len(todo) : todo[i] = m[n + i]
        /\ \A k \in 1 .. n : ChatOf[m[k]] \in sent
  BY DEF Tails
<1>2. /\ Tail(todo) \in Seq(Subs) /\ Len(Tail(todo)) = Len(todo) - 1 /\ Len(todo) > 0
      /\ \A i \in 1 .. Len(Tail(todo)) : Tail(todo)[i] = todo[i + 1]
      /\ Head(todo) = todo[1]
  OBVIOUS
<1>3. PICK k \in 0 .. Len(Tail(todo)) :
        /\ Len(rest) = Len(Tail(todo)) - k
        /\ \A i \in 1 .. Len(rest) : rest[i] = Tail(todo)[k + i]
        /\ \A i \in 1 .. k : ChatOf[Tail(todo)[i]] \in sent \union {ChatOf[Head(todo)]}
  BY DEF Tails
<1>4. n + 1 + k \in 0 .. Len(m) /\ Len(rest) = Len(m) - (n + 1 + k)
  BY <1>1, <1>2, <1>3
<1>5. ASSUME NEW i \in 1 .. Len(rest) PROVE rest[i] = m[(n + 1 + k) + i]
  <2>1. k + i \in 1 .. Len(Tail(todo)) /\ k + i + 1 \in 1 .. Len(todo)
    BY <1>2, <1>3
  <2>2. rest[i] = Tail(todo)[k + i] /\ Tail(todo)[k + i] = todo[k + i + 1]
    BY <1>2, <1>3, <2>1
  <2>3. todo[k + i + 1] = m[n + (k + i + 1)] /\ n + (k + i + 1) = (n + 1 + k) + i
    BY <1>1, <1>3, <2>1
  <2> QED
    BY <2>2, <2>3
<1>6. ASSUME NEW i \in 1 .. n + 1 + k PROVE ChatOf[m[i]] \in sent \union {ChatOf[Head(todo)]}
  <2>1. CASE i <= n
    BY <2>1, <1>1, <1>3
  <2>2. CASE i = n + 1
    BY <2>2, <1>1, <1>2
  <2>3. CASE i > n + 1
    <3>1. i - (n + 1) \in 1 .. k /\ i - n \in 1 .. Len(todo) /\ i - (n + 1) \in 1 .. Len(Tail(todo))
      <4>1. i \in Nat /\ i > n + 1 /\ i <= n + 1 + k /\ k <= Len(todo) - 1 /\ k \in Nat /\ n \in Nat /\ Len(todo) \in Nat
        BY <2>3, <1>2, <1>3
      <4> QED
        BY <4>1, <1>2
    <3>2. Tail(todo)[i - (n + 1)] = todo[(i - (n + 1)) + 1] /\ (i - (n + 1)) + 1 = i - n
      BY <1>2, <3>1, <1>1
    <3>3. todo[i - n] = m[n + (i - n)] /\ n + (i - n) = i
      BY <1>1, <3>1
    <3> QED
      BY <3>1, <3>2, <3>3, <1>3
  <2> QED
    BY <2>1, <2>2, <2>3, <1>1, <1>3
<1> QED
  BY <1>4, <1>5, <1>6 DEF Tails

\* The next subscription is the first of its chat.
LEMMA NextIsFirst ==
  ASSUME NEW e \in Events, NEW todo \in Seq(Subs), NEW sent \in SUBSET Chats, todo # <<>>,
         Tails(Matches(e, Lookups), todo, sent), ChatOf[Head(todo)] \notin sent,
         UserOf[Head(todo)] = AuthorOf[e]
  PROVE  ~Concerns(e, ChatOf[Head(todo)])
<1> DEFINE m == Matches(e, Lookups)
<1>0. m \in Seq(Subs)
  BY MatchesType
<1>1. PICK n \in 0 .. Len(m) :
        /\ Len(todo) = Len(m) - n
        /\ \A i \in 1 .. Len(todo) : todo[i] = m[n + i]
        /\ \A k \in 1 .. n : ChatOf[m[k]] \in sent
  BY DEF Tails
<1>2. n + 1 \in DOMAIN m /\ Head(todo) = m[n + 1]
  BY SMTT(30), <1>0, <1>1
<1> SUFFICES ASSUME NEW i \in DOMAIN m, ChatOf[m[i]] = ChatOf[Head(todo)],
                    \A k \in 1 .. i - 1 : ChatOf[m[k]] # ChatOf[Head(todo)],
                    UserOf[m[i]] # AuthorOf[e]
             PROVE  FALSE
  BY DEF Concerns
<1>3. ~(i <= n)
  BY <1>0, <1>1
<1>4. ~(i > n + 1)
  <2>1. i > n + 1 => n + 1 \in 1 .. i - 1
    BY <1>0
  <2> QED
    BY <2>1, <1>2
<1>5. i = n + 1
  BY <1>0, <1>1, <1>3, <1>4
<1> QED
  BY <1>2, <1>5

\* The chats an event concerns are chats of its matches.
LEMMA ConcernsMatches ==
  ASSUME NEW e \in Events, NEW sent, NEW c \in Chats, Concerns(e, c),
         \A i \in DOMAIN Matches(e, Lookups) : ChatOf[Matches(e, Lookups)[i]] \in sent
  PROVE  c \in sent
BY DEF Concerns

(* ---------------------------------------------------------------------- *)
(* What a step of a goroutine does to its job                              *)

Puts(w, j) == job' = [job EXCEPT ![w] = j]

LEMMA Put ==
  ASSUME TypeOK, NEW w \in Jobs, NEW j \in Job, Puts(w, j)
  PROVE  job' \in [Jobs -> Job] /\ job'[w] = j /\ \A v \in Jobs \ {w} : job'[v] = job[v]
BY DEF TypeOK, Puts

\* A job on the subscriptions in rest, and one at its beginning.
AtNext(r, rest, sent) == [req |-> r, at |-> "next", todo |-> rest, sent |-> sent]
AtLook(r) == [req |-> r, at |-> "look", todo |-> <<>>, sent |-> {}]

LEMMA JobTypes ==
  /\ Idle \in Job /\ Idle.at = "idle"
  /\ \A r \in Requests : AtLook(r) \in Job /\ AtLook(r).at = "look" /\ AtLook(r).req = r
  /\ \A r \in Requests, rest \in Seq(Subs), sent \in SUBSET Chats : AtNext(r, rest, sent) \in Job
  /\ \A r, rest, sent : LET j == AtNext(r, rest, sent) IN
       j.req = r /\ j.at = "next" /\ j.todo = rest /\ j.sent = sent
<1>1. <<>> \in Seq(Subs)
  OBVIOUS
<1> QED
  BY <1>1 DEF Idle, AtLook, AtNext, Job

\* The job goes on, or its processEvent returns.
Ends(w) == Puts(w, Idle) /\ processed' = processed \union {job[w].req}
GoesOn(w, rest, sent) ==
  /\ rest # <<>> /\ ChatOf[Head(rest)] \notin sent
  /\ Puts(w, AtNext(job[w].req, rest, sent)) /\ processed' = processed

\* Continue goes on with what Skips leaves.
LEMMA Continues ==
  ASSUME TypeOK, NEW w \in Jobs, NEW todo \in Seq(Subs), NEW sent \in SUBSET Chats,
         Continue(w, todo, sent)
  PROVE  \E rest \in Seq(Subs) :
           /\ Tails(todo, rest, sent)
           /\ (rest = <<>> /\ Ends(w)) \/ GoesOn(w, rest, sent)
<1>1. PICK n \in 0 .. Len(todo) :
        /\ Skips(todo, sent, n)
        /\ IF n = Len(todo) THEN Return(w)
           ELSE /\ job' = [job EXCEPT ![w] = [@ EXCEPT !.at = "next", !.todo = SubSeq(todo, n + 1, Len(todo)),
                                                        !.sent = sent]]
                /\ UNCHANGED processed
  BY DEF Continue
<1>2. CASE n = Len(todo)
  <2>1. <<>> \in Seq(Subs) /\ Tails(todo, <<>>, sent)
    BY <1>1, <1>2 DEF Skips, Tails
  <2>2. Ends(w)
    BY <1>1, <1>2 DEF Return, Ends, Puts
  <2> QED
    BY <2>1, <2>2
<1>3. CASE n # Len(todo)
  <2>1. PICK rest : rest = SubSeq(todo, n + 1, Len(todo))
    OBVIOUS
  <2>2. n + 1 \in 1 .. Len(todo) /\ Len(todo) \in Nat /\ n \in Nat
    BY <1>3
  <2>3. /\ rest \in Seq(Subs) /\ Len(rest) = Len(todo) - n /\ rest # <<>>
        /\ \A i \in 1 .. Len(rest) : rest[i] = todo[n + i]
    <3>1. /\ rest \in Seq(Subs) /\ Len(rest) = Len(todo) - n
          /\ \A i \in 1 .. Len(todo) - n : rest[i] = todo[n + 1 + i - 1]
      BY <2>1, <2>2
    <3>2. Len(rest) > 0
      BY <2>2, <3>1
    <3>3. \A i \in 1 .. Len(todo) - n : n + 1 + i - 1 = n + i
      BY <2>2
    <3> QED
      BY <3>1, <3>2, <3>3
  <2>4. Head(rest) = todo[n + 1]
    BY <2>2, <2>3
  <2>5. Tails(todo, rest, sent)
    BY <1>1, <2>3 DEF Skips, Tails
  <2>6. ChatOf[Head(rest)] \notin sent
    BY <1>1, <2>2, <2>4 DEF Skips
  <2>7. job[w] \in Job
    BY DEF TypeOK
  <2>8. [job[w] EXCEPT !.at = "next", !.todo = rest, !.sent = sent] = AtNext(job[w].req, rest, sent)
    <3>1. PICK j : j = [job[w] EXCEPT !.at = "next", !.todo = rest, !.sent = sent]
      OBVIOUS
    <3>2. j \in Job /\ j.req = job[w].req /\ j.at = "next" /\ j.todo = rest /\ j.sent = sent
      BY <2>3, <2>7, <3>1 DEF Job
    <3>3. j = [req |-> j.req, at |-> j.at, todo |-> j.todo, sent |-> j.sent]
      BY <3>2 DEF Job
    <3> QED
      BY <3>1, <3>2, <3>3 DEF AtNext
  <2>9. Puts(w, AtNext(job[w].req, rest, sent)) /\ processed' = processed
    BY <1>1, <1>3, <2>1, <2>8 DEF TypeOK, Puts
  <2> QED
    BY <2>3, <2>5, <2>6, <2>9 DEF GoesOn
<1> QED
  BY <1>2, <1>3

\* Past takes the next subscription's chat as dealt with.
LEMMA Pasts ==
  ASSUME TypeOK, NEW w \in Jobs, Busy(w), job[w].at \in {"next", "send"}, Past(w)
  PROVE  \E sent \in SUBSET Chats, rest \in Seq(Subs) :
           /\ sent = job[w].sent \union {ChatOf[Sub(w)]}
           /\ Tails(Tail(job[w].todo), rest, sent)
           /\ (rest = <<>> /\ Ends(w)) \/ GoesOn(w, rest, sent)
<1>1. job[w] \in Job /\ job[w].todo \in Seq(Subs) /\ job[w].sent \in SUBSET Chats /\ job[w].todo # <<>>
  BY DEF TypeOK, Job, Busy
<1>2. Sub(w) \in Subs /\ Tail(job[w].todo) \in Seq(Subs)
  BY <1>1, InTail DEF Sub
<1>3. PICK sent \in SUBSET Chats, todo \in Seq(Subs) :
        sent = job[w].sent \union {ChatOf[Sub(w)]} /\ todo = Tail(job[w].todo)
  BY <1>1, <1>2
<1>4. Continue(w, todo, sent)
  BY <1>3 DEF Past
<1>5. PICK rest \in Seq(Subs) : Tails(todo, rest, sent) /\ ((rest = <<>> /\ Ends(w)) \/ GoesOn(w, rest, sent))
  BY <1>4, Continues
<1> QED
  BY <1>3, <1>5

\* What a busy job's turn leaves: it ends, or has a subscription before it.
Turn(w, j) ==
  /\ j \in Job /\ Puts(w, j) /\ job[w].at # "idle"
  /\ \/ j = Idle /\ processed' = processed \union {job[w].req}
     \/ /\ j.at \in {"next", "send"} /\ j.req = job[w].req
        /\ j.todo # <<>> /\ ChatOf[Head(j.todo)] \notin j.sent
        /\ processed' = processed

\* The job ended, with nothing left to do, or has rest before it.
Leaves(j, rest, sent) ==
  \/ j = Idle /\ rest = <<>>
  \/ j # Idle /\ j.todo = rest /\ j.sent = sent

\* A job that ends or goes on has a turn, and tells nobody after it.
LEMMA TurnOfNext ==
  ASSUME TypeOK, NEW w \in Jobs, Busy(w), job[w].at # "idle",
         NEW rest \in Seq(Subs), NEW sent \in SUBSET Chats,
         (rest = <<>> /\ Ends(w)) \/ GoesOn(w, rest, sent)
  PROVE  \E j \in Job :
           Turn(w, j) /\ j.at # "send" /\ Leaves(j, rest, sent)
<1>1. job[w].req \in Requests
  BY DEF Busy, TypeOK
<1>2. CASE rest = <<>> /\ Ends(w)
  BY <1>2, JobTypes DEF Ends, Turn, Leaves
<1>3. CASE GoesOn(w, rest, sent)
  <2>1. PICK j : j = AtNext(job[w].req, rest, sent)
    OBVIOUS
  <2>2. j \in Job /\ j.at = "next" /\ j.req = job[w].req /\ j.todo = rest /\ j.sent = sent
    BY <1>1, <2>1, JobTypes
  <2>3. Turn(w, j)
    BY <1>3, <2>1, <2>2 DEF GoesOn, Turn
  <2> QED
    BY <2>2, <2>3, JobTypes DEF Leaves
<1> QED
  BY <1>2, <1>3

(* ---------------------------------------------------------------------- *)
(* Requests and the queue: Core is inductive                               *)

\* The histories a step may touch besides, within their types.
Records ==
  /\ guard' \subseteq Slots /\ told' \in [Slots -> Nat] /\ lapses' \in [Slots -> Nat]
  /\ failures' \in 0 .. MaxFailures /\ failures' >= failures

LEMMA CoreInit ==
  ASSUME Init
  PROVE  Core
<1>1. Idle \in Job /\ Idle.at = "idle"
  BY JobTypes
<1>2. \A w \in Jobs : job[w] = Idle
  BY DEF Init
<1>3. TypeOK
  BY <1>1 DEF Init, TypeOK, Jobs
<1>4. Known
  BY DEF Init, Known
<1>5. \A w \in Jobs : Busy(w)
  BY <1>1, <1>2 DEF Busy
<1>6. Modes
  BY DEF Init, Modes
<1>7. Located /\ Exited
  BY DEF Init, Located, Exited
<1> QED
  BY <1>3, <1>4, <1>5, <1>6, <1>7 DEF Core

LEMMA CorePost ==
  ASSUME Core, NEW r \in Requests, NEW e \in Events, Post(r, e)
  PROVE  Core'
<1>1. /\ event[r] = NoEvent /\ event' = [event EXCEPT ![r] = e] /\ serving' = serving \union {r}
      /\ UNCHANGED <<process, queue, loop, held, job, guard, accepted, early, processed, lost, told, lapses, failures>>
  BY DEF Post, dispatch, answers, outcome
<1>2. TypeOK'
  BY <1>1 DEF Core, TypeOK
<1>3. Known'
  BY <1>1 DEF Core, TypeOK, Known
<1>4. \A w \in Jobs : Busy(w)'
  BY <1>1 DEF Core, Busy
<1>5. Modes' /\ Located' /\ Exited'
  BY <1>1 DEF Core, Modes, Located, Exited
<1> QED
  BY <1>2, <1>3, <1>4, <1>5 DEF Core

LEMMA CoreServe ==
  ASSUME Core, NEW r \in Requests, ServeHTTP(r)
  PROVE  Core'
<1>1. /\ process # "down" /\ r \in serving /\ serving' = serving \ {r}
      /\ UNCHANGED <<event, process, loop, held, job, guard, processed, lost, told, lapses, failures>>
  BY DEF ServeHTTP, outcome
<1>2. CASE UNCHANGED <<queue, answers>>
  <2>1. TypeOK' /\ Known'
    BY <1>1, <1>2 DEF Core, TypeOK, Known, answers
  <2>2. \A w \in Jobs : Busy(w)'
    BY <1>1, <1>2 DEF Core, Busy, answers
  <2>3. Modes' /\ Located' /\ Exited'
    BY <1>1, <1>2 DEF Core, Modes, Located, Exited, answers
  <2> QED
    BY <2>1, <2>2, <2>3 DEF Core
<1>3. CASE /\ Len(queue) < QueueSize /\ queue' = Append(queue, r) /\ accepted' = accepted \union {r}
           /\ early' = IF process = "up" THEN early \union {r} ELSE early
  <2>1. /\ queue' \in Seq(Requests) /\ Len(queue') = Len(queue) + 1
        /\ DOMAIN queue' = 1 .. Len(queue) + 1 /\ queue'[Len(queue) + 1] = r
        /\ \A i \in 1 .. Len(queue) : queue'[i] = queue[i] /\ i \in DOMAIN queue
    BY <1>3 DEF Core, TypeOK
  <2>2. TypeOK'
    BY <1>1, <1>3, <2>1 DEF Core, TypeOK
  <2>3. Known'
    <3>1. \A i \in DOMAIN queue' : queue'[i] \in accepted'
      <4> TAKE i \in DOMAIN queue'
      <4>1. CASE i \in 1 .. Len(queue)
        BY <4>1, <1>3, <2>1 DEF Core, Known
      <4>2. CASE i = Len(queue) + 1
        BY <4>2, <1>3, <2>1
      <4> QED
        BY <4>1, <4>2, <2>1 DEF Core, TypeOK
    <3> QED
      BY <3>1, <1>1, <1>3 DEF Core, TypeOK, Known
  <2>4. \A w \in Jobs : Busy(w)'
    BY <1>1, <1>3 DEF Core, Busy
  <2>5. Modes'
    BY <1>1 DEF Core, Modes
  <2>6. Located'
    <3>1. \A q : In(queue', q) <=> In(queue, q) \/ q = r
      BY <1>3, InAppend DEF Core, TypeOK
    <3> QED
      BY <3>1, <1>1, <1>3 DEF Core, Located
  <2>7. Exited'
    <3>1. loop = "exit" => early' = early
      BY <1>3 DEF Core, Modes
    <3>2. r \notin early
      BY <1>1 DEF Core, Known, TypeOK
    <3>3. ASSUME NEW i \in DOMAIN queue', loop = "exit" PROVE queue'[i] \notin early'
      <4>1. CASE i \in 1 .. Len(queue)
        BY <4>1, <2>1, <3>1, <3>3 DEF Core, Exited
      <4>2. CASE i = Len(queue) + 1
        BY <4>2, <2>1, <3>1, <3>2, <3>3
      <4> QED
        BY <4>1, <4>2, <2>1 DEF Core, TypeOK
    <3> QED
      BY <1>1, <3>3 DEF Exited
  <2> QED
    BY <2>2, <2>3, <2>4, <2>5, <2>6, <2>7 DEF Core
<1> QED
  BY <1>2, <1>3 DEF ServeHTTP

LEMMA BeginPuts ==
  ASSUME NEW w \in Jobs, NEW r \in Requests, Begin(w, r)
  PROVE  Puts(w, AtLook(r))
<1>1. r \in Requests
  OBVIOUS
<1>2. [Idle EXCEPT !.req = r, !.at = "look"] = AtLook(r)
  <2>1. PICK j : j = [Idle EXCEPT !.req = r, !.at = "look"]
    OBVIOUS
  <2>2. Idle \in Job /\ Idle.todo = <<>> /\ Idle.sent = {}
    BY JobTypes DEF Idle
  <2>3. j \in Job /\ j.req = r /\ j.at = "look" /\ j.todo = <<>> /\ j.sent = {}
    BY <1>1, <2>1, <2>2 DEF Job
  <2>4. j = [req |-> j.req, at |-> j.at, todo |-> j.todo, sent |-> j.sent]
    BY <2>3 DEF Job
  <2> QED
    BY <2>1, <2>3, <2>4 DEF AtLook
<1> QED
  BY <1>2 DEF Begin, Puts

\* An accepted request is given to an idle goroutine.
LEMMA CoreBegin ==
  ASSUME Core, NEW w \in Jobs, NEW r \in accepted, job[w] = Idle, Begin(w, r), process # "down",
         process' = process, UNCHANGED <<event, serving, accepted, early, processed, lost>>, Records,
         queue' \in Seq(Requests), Len(queue') <= QueueSize, \A q : In(queue', q) => In(queue, q),
         loop' \in {"select", "inline", "drain"}, w = Main => loop' # "select",
         loop' = "select" => loop = "hold", loop' # "select" => process # "up", held' = 0,
         \A q : In(queue, q) \/ held = q => In(queue', q) \/ q = r \/ q = 0
  PROVE  Core'
<1>1. r \in Requests /\ 0 \notin Requests
  BY DEF Core, TypeOK, Requests
<1>3. AtLook(r) \in Job /\ Puts(w, AtLook(r)) /\ AtLook(r).at = "look" /\ AtLook(r).req = r
  BY <1>1, JobTypes, BeginPuts
<1>4. job' \in [Jobs -> Job] /\ job'[w] = AtLook(r) /\ \A v \in Jobs \ {w} : job'[v] = job[v]
  BY <1>3, Put DEF Core
<1>5. TypeOK'
  <2>1. job'[Main] # Idle => loop' \in {"inline", "drain"}
    <3>1. CASE w = Main
      BY <3>1
    <3>2. CASE w # Main
      BY <3>2, <1>4 DEF Core, TypeOK, Jobs
    <3> QED
      BY <3>1, <3>2
  <2> QED
    BY <1>4, <2>1 DEF Core, TypeOK, Records
<1>6. Known'
  BY DEF Core, Known, In
<1>7. ASSUME NEW v \in Jobs PROVE Busy(v)'
  <2>1. CASE v = w
    BY <2>1, <1>3, <1>4 DEF Busy
  <2>2. CASE v # w
    BY <2>2, <1>4 DEF Core, Busy
  <2> QED
    BY <2>1, <2>2
<1>8. Modes'
  BY DEF Core, Modes, Records, TypeOK
<1>9. Located'
  <2> SUFFICES ASSUME NEW q \in accepted \ (processed \union lost), ~In(queue', q)
               PROVE  \E v \in Jobs : job'[v].at # "idle" /\ job'[v].req = q
    BY DEF Located
  <2>1. q # 0
    BY <1>1 DEF Core, TypeOK
  <2>2. CASE q = r
    BY <2>2, <1>3, <1>4
  <2>3. CASE q # r
    <3>1. PICK v \in Jobs : job[v].at # "idle" /\ job[v].req = q
      BY <2>1, <2>3 DEF Core, Located
    <3>2. v # w
      BY <3>1, JobTypes
    <3> QED
      BY <3>1, <3>2, <1>4
  <2> QED
    BY <2>2, <2>3
<1>10. Exited'
  BY DEF Exited
<1> QED
  BY <1>5, <1>6, <1>7, <1>8, <1>9, <1>10 DEF Core

\* A busy goroutine's turn.
LEMMA CoreTurn ==
  ASSUME Core, NEW w \in Jobs, NEW j \in Job, Turn(w, j),
         UNCHANGED <<inbox, dispatch, answers, lost>>, Records
  PROVE  Core'
<1>1. job' \in [Jobs -> Job] /\ job'[w] = j /\ \A v \in Jobs \ {w} : job'[v] = job[v]
  BY Put DEF Turn, Core
<1>2. job[w].req \in accepted /\ job[w] # Idle
  BY JobTypes DEF Core, Busy, Turn
<1>3. TypeOK'
  <2>1. job'[Main] # Idle => loop' \in {"inline", "drain"}
    BY <1>1, <1>2 DEF Core, TypeOK, Jobs, dispatch
  <2>2. processed' \subseteq accepted'
    BY <1>2 DEF Turn, Core, TypeOK, answers
  <2> QED
    BY <1>1, <2>1, <2>2 DEF Core, TypeOK, Records, inbox, dispatch, answers
<1>4. Known'
  BY DEF Core, Known, inbox, dispatch, answers
<1>5. ASSUME NEW v \in Jobs PROVE Busy(v)'
  <2>1. CASE v = w
    BY <2>1, <1>1, <1>2, JobTypes DEF Busy, Turn, answers
  <2>2. CASE v # w
    BY <2>2, <1>1 DEF Core, Busy, answers
  <2> QED
    BY <2>1, <2>2
<1>6. Modes'
  BY <1>2 DEF Core, Modes, Records, TypeOK, inbox, dispatch
<1>7. Located'
  <2> SUFFICES ASSUME NEW r \in accepted \ (processed' \union lost), ~In(queue, r), held # r
               PROVE  \E v \in Jobs : job'[v].at # "idle" /\ job'[v].req = r
    BY DEF Located, dispatch, answers
  <2>1. PICK v \in Jobs : job[v].at # "idle" /\ job[v].req = r
    BY DEF Core, Located, Turn
  <2>2. CASE v = w
    BY <2>1, <2>2, <1>1 DEF Turn
  <2>3. CASE v # w
    BY <2>1, <2>3, <1>1
  <2> QED
    BY <2>2, <2>3
<1>8. Exited'
  BY DEF Core, Exited, dispatch, answers
<1> QED
  BY <1>3, <1>4, <1>5, <1>6, <1>7, <1>8 DEF Core

LEMMA CoreDispatch ==
  ASSUME Core, Dispatch
  PROVE  Core'
<1>1. CASE Take
  <2>1. /\ process # "down" /\ loop = "select" /\ queue # <<>>
        /\ held' = Head(queue) /\ queue' = Tail(queue) /\ loop' = "hold"
        /\ UNCHANGED <<event, process, serving, job, guard, accepted, early, processed, lost, told, lapses, failures>>
    BY <1>1 DEF Take, inbox, answers, outcome
  <2>2. /\ Head(queue) \in Requests /\ Tail(queue) \in Seq(Requests) /\ Len(Tail(queue)) = Len(queue) - 1
        /\ \A i \in DOMAIN Tail(queue) : Tail(queue)[i] = queue[i + 1] /\ i + 1 \in DOMAIN queue
        /\ Head(queue) = queue[1] /\ 1 \in DOMAIN queue
        /\ \A r : In(queue, r) <=> r = Head(queue) \/ In(Tail(queue), r)
    BY <2>1, InTail DEF Core, TypeOK
  <2>3. TypeOK'
    BY SMTT(30), <2>1, <2>2 DEF Core, TypeOK, Requests
  <2>4. Known'
    BY <2>1, <2>2 DEF Core, Known
  <2>5. \A w \in Jobs : Busy(w)'
    BY <2>1 DEF Core, Busy
  <2>6. Modes' /\ Exited'
    BY <2>1 DEF Core, Modes, Exited
  <2>7. Located'
    <3> SUFFICES ASSUME NEW r \in accepted \ (processed \union lost), ~In(queue', r), held' # r
                 PROVE  \E w \in Jobs : job[w].at # "idle" /\ job[w].req = r
      BY <2>1 DEF Located
    <3>1. ~In(queue, r)
      BY <2>1, <2>2
    <3>2. held # r
      BY <2>1 DEF Core, TypeOK, Requests
    <3> QED
      BY <3>1, <3>2 DEF Core, Located
  <2> QED
    BY <2>3, <2>4, <2>5, <2>6, <2>7 DEF Core
<1>2. ASSUME NEW w \in Workers, Spawn(w) PROVE Core'
  <2>1. /\ process # "down" /\ loop = "hold" /\ job[w] = Idle /\ Begin(w, held)
        /\ held' = 0 /\ loop' = "select"
        /\ UNCHANGED <<event, process, serving, queue, guard, accepted, early, processed, lost, told, lapses, failures>>
    BY <1>2 DEF Spawn, inbox, answers, outcome
  <2>2. held \in accepted
    BY <2>1 DEF Core, TypeOK, Known
  <2>3. Records /\ queue \in Seq(Requests) /\ Len(queue) <= QueueSize
    BY <2>1 DEF Records, Core, TypeOK
  <2>4. \A q : (In(queue', q) <=> In(queue, q))
    BY <2>1
  <2>5. w \in Jobs /\ w # Main
    BY DEF Jobs
  <2> HIDE DEF Begin
  <2> QED
    BY <2>1, <2>2, <2>3, <2>4, <2>5, CoreBegin
<1>3. CASE HoldCancelled
  <2>1. /\ process \in {"stopping", "closed"} /\ loop = "hold" /\ Begin(Main, held)
        /\ held' = 0 /\ loop' = "inline"
        /\ UNCHANGED <<event, process, serving, queue, guard, accepted, early, processed, lost, told, lapses, failures>>
    BY <1>3 DEF HoldCancelled, inbox, answers, outcome
  <2>2. held \in accepted /\ Main \in Jobs /\ job[Main] = Idle
    BY <2>1 DEF Core, TypeOK, Known, Jobs
  <2>3. Records /\ queue \in Seq(Requests) /\ Len(queue) <= QueueSize
    BY <2>1 DEF Records, Core, TypeOK
  <2>4. \A q : (In(queue', q) <=> In(queue, q))
    BY <2>1
  <2> QED
    BY <2>1, <2>2, <2>3, <2>4, CoreBegin
<1>4. CASE SelectCancelled
  <2>1. /\ process \in {"stopping", "closed"} /\ loop \in {"select", "inline"} /\ loop' = "drain"
        /\ UNCHANGED <<event, process, serving, queue, held, job, guard, accepted, early, processed, lost, told, lapses, failures>>
    BY <1>4 DEF SelectCancelled, inbox, answers, outcome
  <2>2. TypeOK' /\ Known'
    BY <2>1 DEF Core, TypeOK, Known
  <2>3. \A w \in Jobs : Busy(w)'
    BY <2>1 DEF Core, Busy
  <2>4. Modes' /\ Located' /\ Exited'
    BY <2>1 DEF Core, Modes, Located, Exited
  <2> QED
    BY <2>2, <2>3, <2>4 DEF Core
<1>5. CASE Drain
  <2>1. /\ process # "down" /\ loop = "drain" /\ job[Main] = Idle
        /\ UNCHANGED <<event, process, serving, held, guard, accepted, early, processed, lost, told, lapses, failures>>
    BY <1>5 DEF Drain, inbox, answers, outcome
  <2>2. process # "up" /\ held = 0 /\ Main \in Jobs
    BY <2>1 DEF Core, Modes, TypeOK, Jobs
  <2>3. CASE queue = <<>> /\ loop' = "exit" /\ UNCHANGED <<queue, job>>
    <3>1. TypeOK' /\ Known'
      BY <2>1, <2>3 DEF Core, TypeOK, Known
    <3>2. \A w \in Jobs : Busy(w)'
      BY <2>1, <2>3 DEF Core, Busy
    <3>3. Modes' /\ Located'
      BY <2>1, <2>2, <2>3 DEF Core, Modes, Located
    <3>4. Exited'
      BY <2>3 DEF Exited
    <3> QED
      BY <3>1, <3>2, <3>3, <3>4 DEF Core
  <2>4. CASE queue # <<>> /\ Begin(Main, Head(queue)) /\ queue' = Tail(queue) /\ UNCHANGED loop
    <3>1. /\ Head(queue) \in Requests /\ Tail(queue) \in Seq(Requests) /\ Len(Tail(queue)) = Len(queue) - 1
          /\ Head(queue) = queue[1] /\ 1 \in DOMAIN queue
          /\ \A r : In(queue, r) <=> r = Head(queue) \/ In(Tail(queue), r)
      BY <2>4, InTail DEF Core, TypeOK
    <3>2. Head(queue) \in accepted /\ Len(Tail(queue)) <= QueueSize
      BY <3>1 DEF Core, Known, TypeOK
    <3>3. Records
      BY <2>1 DEF Records, Core, TypeOK
    <3> QED
      BY <2>1, <2>2, <2>4, <3>1, <3>2, <3>3, CoreBegin
  <2> QED
    BY <1>5, <2>3, <2>4 DEF Drain
<1> QED
  BY <1>1, <1>2, <1>3, <1>4, <1>5 DEF Dispatch

LEMMA CoreDie ==
  ASSUME Core, Die, failures' \in 1 .. MaxFailures
  PROVE  Core'
<1>1. /\ process' = "down" /\ lost' = lost \union (accepted \ processed)
      /\ serving' = {} /\ queue' = <<>> /\ held' = 0 /\ loop' = "exit"
      /\ job' = [w \in Jobs |-> Idle]
      /\ UNCHANGED <<event, guard, accepted, early, processed, told, lapses>>
  BY DEF Die, answers, outcome
<1>2. Idle \in Job /\ Main \in Jobs
  BY JobTypes DEF Jobs
<1>3. TypeOK'
  BY <1>1, <1>2 DEF Core, TypeOK
<1>4. Known'
  BY <1>1 DEF Core, Known
<1>5. \A w \in Jobs : Busy(w)'
  BY <1>1, JobTypes DEF Busy
<1>6. Modes' /\ Located' /\ Exited'
  BY <1>1 DEF Modes, Located, Exited
<1> QED
  BY <1>3, <1>4, <1>5, <1>6 DEF Core

LEMMA CoreLife ==
  ASSUME Core, Life
  PROVE  Core'
<1>1. CASE Cancel
  <2>1. /\ process = "up" /\ process' = "stopping" /\ failures' \in 1 .. MaxFailures
        /\ UNCHANGED <<event, serving, queue, loop, held, job, guard, accepted, early, processed, lost, told, lapses>>
    BY <1>1 DEF Cancel, Fail, Core, TypeOK, dispatch, answers, outcome
  <2>2. TypeOK' /\ Known'
    BY <2>1 DEF Core, TypeOK, Known
  <2>3. \A w \in Jobs : Busy(w)'
    BY <2>1 DEF Core, Busy
  <2>4. Modes' /\ Located' /\ Exited'
    BY <2>1 DEF Core, Modes, Located, Exited
  <2> QED
    BY <2>2, <2>3, <2>4 DEF Core
<1>2. CASE Shutdown
  <2>1. /\ process = "stopping" /\ process' = "closed"
        /\ UNCHANGED <<event, serving, queue, loop, held, job, guard, accepted, early, processed, lost, told, lapses, failures>>
    BY <1>2 DEF Shutdown, dispatch, answers, outcome
  <2>2. TypeOK' /\ Known'
    BY <2>1 DEF Core, TypeOK, Known
  <2>3. \A w \in Jobs : Busy(w)'
    BY <2>1 DEF Core, Busy
  <2>4. Modes' /\ Located' /\ Exited'
    BY <2>1 DEF Core, Modes, Located, Exited
  <2> QED
    BY <2>2, <2>3, <2>4 DEF Core
<1>3. CASE Exit
  <2>1. failures' \in 1 .. MaxFailures
    BY <1>3 DEF Exit, Fail, Core, TypeOK, Modes
  <2> QED
    BY <1>3, <2>1, CoreDie DEF Exit
<1>4. CASE Crash
  <2>1. failures' \in 1 .. MaxFailures
    BY <1>4 DEF Crash, Fail, Core, TypeOK
  <2> QED
    BY <1>4, <2>1, CoreDie DEF Crash
<1>5. CASE Restart
  <2>1. /\ process = "down" /\ process' = "up" /\ loop' = "select"
        /\ UNCHANGED <<event, serving, queue, held, job, guard, accepted, early, processed, lost, told, lapses, failures>>
    BY <1>5 DEF Restart, answers, outcome
  <2>2. loop = "exit" /\ held = 0 /\ job[Main] = Idle
    BY <2>1 DEF Core, Modes, TypeOK, Jobs
  <2>3. TypeOK' /\ Known'
    BY <2>1, <2>2 DEF Core, TypeOK, Known
  <2>4. \A w \in Jobs : Busy(w)'
    BY <2>1 DEF Core, Busy
  <2>5. Modes' /\ Located' /\ Exited'
    BY <2>1 DEF Core, Modes, Located, Exited
  <2> QED
    BY <2>3, <2>4, <2>5 DEF Core
<1> QED
  BY <1>1, <1>2, <1>3, <1>4, <1>5 DEF Life

LEMMA CoreLapse ==
  ASSUME Core, NEW slot \in Slots, Lapse(slot)
  PROVE  Core'
<1>1. /\ slot \in guard /\ guard' = guard \ {slot} /\ lapses' = [lapses EXCEPT ![slot] = @ + 1]
      /\ failures < MaxFailures /\ failures' = failures + 1
      /\ UNCHANGED <<event, process, serving, queue, loop, held, job, accepted, early, processed, lost, told>>
  BY DEF Lapse, Fail, inbox, dispatch, answers
<1>2. TypeOK' /\ Known'
  BY <1>1 DEF Core, TypeOK, Known
<1>3. \A w \in Jobs : Busy(w)'
  BY <1>1 DEF Core, Busy
<1>4. Modes' /\ Located' /\ Exited'
  BY <1>1 DEF Core, Modes, Located, Exited, TypeOK
<1> QED
  BY <1>2, <1>3, <1>4 DEF Core

(* ---------------------------------------------------------------------- *)
(* Telling: what a turn does for its chat                                  *)

\* A slot is of a chat and a key.
LEMMA SlotType ==
  ASSUME Core, NEW w \in Jobs, job[w].at \in {"next", "send"}
  PROVE  /\ job[w].req \in accepted /\ EventOf(w) = event[job[w].req] /\ EventOf(w) \in Events
         /\ job[w].todo \in Seq(Subs) /\ job[w].todo # <<>> /\ job[w].sent \in SUBSET Chats
         /\ Sub(w) = Head(job[w].todo) /\ Sub(w) \in Subs
         /\ ChatOf[Sub(w)] \in Chats /\ ChatOf[Sub(w)] \notin job[w].sent
         /\ Slot(w) = <<ChatOf[Sub(w)], KeyOf[EventOf(w)]>> /\ Slot(w) \in Slots
<1>1. Busy(w) /\ job[w] \in Job
  BY DEF Core, TypeOK
<1>2. job[w].req \in accepted /\ job[w].todo # <<>> /\ ChatOf[Head(job[w].todo)] \notin job[w].sent
  BY <1>1 DEF Busy
<1>3. job[w].todo \in Seq(Subs) /\ job[w].sent \in SUBSET Chats
  BY <1>1 DEF Job
<1>4. Head(job[w].todo) \in Subs
  BY <1>2, <1>3, InTail
<1>5. event[job[w].req] \in Events
  BY <1>2 DEF Core, Known
<1> QED
  BY <1>2, <1>3, <1>4, <1>5 DEF EventOf, Sub, Slot, Slots

\* Steps that neither claim, send nor process, and leave those about to alone.
LEMMA CalmKeeps ==
  ASSUME IInv, UNCHANGED <<guard, told, lapses, processed>>, failures' = 0 => failures = 0,
         \A r \in accepted : event'[r] = event[r],
         \A w \in Jobs : \/ job'[w] = job[w]
                         \/ job[w].at \notin {"next", "send"} /\ job'[w].at \notin {"next", "send"}
  PROVE  Claimed' /\ Telling'
<1>1. ASSUME NEW w \in Jobs
      PROVE  /\ job'[w].at \in {"next", "send"} <=> job[w].at \in {"next", "send"}
             /\ job[w].at \in {"next", "send"} =>
                  /\ job'[w] = job[w] /\ EventOf(w)' = EventOf(w) /\ Slot(w)' = Slot(w)
             /\ \A s : Sending(w, s)' <=> Sending(w, s)
  <2>1. CASE job[w].at \in {"next", "send"}
    <3>1. job'[w] = job[w]
      BY <2>1
    <3>2. EventOf(w)' = EventOf(w) /\ Slot(w)' = Slot(w)
      BY <2>1, <3>1, SlotType DEF IInv, EventOf, Slot, Sub
    <3> QED
      BY <2>1, <3>1, <3>2 DEF Sending
  <2>2. CASE job[w].at \notin {"next", "send"}
    <3>1. job'[w].at \notin {"next", "send"}
      BY <2>2
    <3> QED
      BY <2>2, <3>1 DEF Sending
  <2> QED
    BY <2>1, <2>2
<1>2. \A s : Senders(s)' = Senders(s)
  BY <1>1 DEF Senders
<1>3. Claimed'
  BY <1>2 DEF IInv, Claimed
<1>4. \A s : Told(s)' <=> Told(s)
  BY <1>1 DEF Told
<1>5. \A e, sent : Deals(e, sent)' <=> Deals(e, sent)
  BY <1>4 DEF Deals
<1>6. Telling'
  <2> SUFFICES ASSUME failures' = 0 PROVE InUseIsTold' /\ (\A w \in Jobs : Dealing(w)') /\ DoneIsTold'
    BY DEF Telling
  <2>0. InUseIsTold /\ (\A w \in Jobs : Dealing(w)) /\ DoneIsTold
    BY DEF IInv, Telling
  <2>1. InUseIsTold'
    BY <1>4, <2>0 DEF InUseIsTold
  <2>2. ASSUME NEW w \in Jobs PROVE Dealing(w)'
    BY <1>1, <1>5, <2>0 DEF Dealing
  <2>3. DoneIsTold'
    <3>1. \A r \in processed : event'[r] = event[r]
      BY DEF IInv, Core, TypeOK
    <3> QED
      BY <3>1, <1>5, <2>0 DEF DoneIsTold
  <2> QED
    BY <2>1, <2>2, <2>3
<1> QED
  BY <1>3, <1>6

\* The other goroutines stay where they are.
LEMMA OthersStay ==
  ASSUME IInv, NEW w \in Jobs, NEW j \in Job, Turn(w, j), UNCHANGED event
  PROVE  /\ job'[w] = j
         /\ \A v \in Jobs \ {w} :
              /\ job'[v] = job[v] /\ EventOf(v)' = EventOf(v)
              /\ \A s : Sending(v, s)' <=> Sending(v, s)
<1>1. job'[w] = j /\ \A v \in Jobs \ {w} : job'[v] = job[v]
  BY Put DEF Turn, IInv, Core
<1>2. ASSUME NEW v \in Jobs \ {w}
      PROVE  EventOf(v)' = EventOf(v) /\ \A s : Sending(v, s)' <=> Sending(v, s)
  BY <1>1 DEF EventOf, Sending, Slot, Sub
<1> QED
  BY <1>1, <1>2

\* A turn keeps Telling when, unless something failed, no chat told is taken
\* back and the job's chats are told.
LEMMA TurnTells ==
  ASSUME IInv, NEW w \in Jobs, NEW j \in Job, Turn(w, j), UNCHANGED event, failures' >= failures,
         NEW e \in Events, e = EventOf(w), failures' \in Nat,
         failures' = 0 =>
           /\ InUseIsTold'
           /\ \A s \in Slots : Told(s) => Told(s)'
           /\ j = Idle => Deals(e, Chats)'
           /\ j # Idle => Tails(Matches(e, Lookups), j.todo, j.sent) /\ Deals(e, j.sent)'
  PROVE  Telling'
<1> SUFFICES ASSUME failures' = 0 PROVE InUseIsTold' /\ (\A v \in Jobs : Dealing(v)') /\ DoneIsTold'
  BY DEF Telling
<1>0. InUseIsTold /\ (\A v \in Jobs : Dealing(v)) /\ DoneIsTold
  BY DEF IInv, Telling, Core, TypeOK
<1>1. /\ job'[w] = j
      /\ \A v \in Jobs \ {w} : job'[v] = job[v] /\ EventOf(v)' = EventOf(v)
  BY OthersStay
<1>2. \A s \in Slots : Told(s) => Told(s)'
  OBVIOUS
<1>3. \A f \in Events, sent \in SUBSET Chats : Deals(f, sent) => Deals(f, sent)'
  BY <1>2 DEF Deals, Slots
<1>4. ASSUME NEW v \in Jobs PROVE Dealing(v)'
  <2>1. CASE v = w
    <3>1. CASE j = Idle
      BY <2>1, <3>1, <1>1, JobTypes DEF Dealing
    <3>2. CASE j # Idle
      <4>1. EventOf(w)' = e
        BY <1>1, <3>2 DEF Turn, EventOf
      <4>2. Tails(Matches(e, Lookups), job'[w].todo, job'[w].sent) /\ Deals(e, j.sent)'
        BY <1>1, <3>2
      <4> QED
        BY <2>1, <1>1, <4>1, <4>2 DEF Dealing
    <3> QED
      BY <3>1, <3>2
  <2>2. CASE v # w
    <3>1. job'[v] = job[v] /\ EventOf(v)' = EventOf(v)
      BY <2>2, <1>1
    <3>2. job[v].at \in {"next", "send"} => EventOf(v) \in Events /\ job[v].sent \in SUBSET Chats
      BY SlotType DEF IInv
    <3>3. ASSUME job[v].at \in {"next", "send"} PROVE Dealing(v)'
      <4>1. PICK f \in Events, before \in SUBSET Chats : f = EventOf(v) /\ before = job[v].sent
        BY <3>2, <3>3
      <4>2. Tails(Matches(f, Lookups), job[v].todo, before) /\ Deals(f, before)
        BY <1>0, <3>3, <4>1 DEF Dealing
      <4>3. Deals(f, before)'
        BY <1>3, <4>2
      <4> QED
        BY <3>1, <4>1, <4>2, <4>3 DEF Dealing
    <3> QED
      BY <3>1, <3>3 DEF Dealing
  <2> QED
    BY <2>1, <2>2
<1>5. DoneIsTold'
  <2> SUFFICES ASSUME NEW r \in processed' PROVE Deals(event[r], Chats)'
    BY DEF DoneIsTold
  <2>1. CASE r \in processed
    <3>1. event[r] \in Events
      BY <2>1 DEF IInv, Core, TypeOK, Known
    <3>2. Deals(event[r], Chats)'
      BY <2>1, <3>1, <1>0, <1>3 DEF DoneIsTold
    <3> QED
      BY <3>2
  <2>2. CASE r \notin processed
    <3>1. j = Idle /\ event[r] = e
      BY <2>2 DEF Turn, EventOf
    <3> QED
      BY <3>1
  <2> QED
    BY <2>1, <2>2
<1> QED
  BY <1>4, <1>5

\* Past the next subscription: its chat was told, or is not concerned.
LEMMA PastTells ==
  ASSUME IInv, NEW w \in Jobs, job[w].at \in {"next", "send"}, Past(w),
         UNCHANGED event, failures' >= failures, failures' \in Nat,
         NEW e \in Events, e = EventOf(w), NEW c \in Chats, c = ChatOf[Sub(w)],
         failures' = 0 =>
           /\ InUseIsTold'
           /\ \A s \in Slots : Told(s) => Told(s)'
           /\ Concerns(e, c) => Told(<<c, KeyOf[e]>>)'
  PROVE  Telling'
<1>1. Core /\ TypeOK /\ Busy(w) /\ accepted \subseteq Requests /\ job[w].at # "idle"
  BY DEF IInv, Core, TypeOK
<1>2. PICK sent \in SUBSET Chats, rest \in Seq(Subs) :
        /\ sent = job[w].sent \union {c}
        /\ Tails(Tail(job[w].todo), rest, sent)
        /\ (rest = <<>> /\ Ends(w)) \/ GoesOn(w, rest, sent)
  BY <1>1, Pasts
<1>3. PICK j \in Job : Turn(w, j) /\ j.at # "send" /\ Leaves(j, rest, sent)
  BY <1>1, <1>2, TurnOfNext
<1>4. ASSUME failures' = 0
      PROVE  /\ j = Idle => Deals(e, Chats)'
             /\ j # Idle => Tails(Matches(e, Lookups), j.todo, j.sent) /\ Deals(e, j.sent)'
  <2>1. Tails(Matches(e, Lookups), job[w].todo, job[w].sent) /\ Deals(e, job[w].sent)
    BY <1>4 DEF IInv, Telling, Dealing, Core, TypeOK
  <2>2. Tails(Matches(e, Lookups), rest, sent)
    <3>1. Matches(e, Lookups) \in Seq(Subs)
      BY MatchesType
    <3>2. PICK todo \in Seq(Subs), before \in SUBSET Chats :
            todo = job[w].todo /\ before = job[w].sent /\ todo # <<>> /\ c = ChatOf[Head(todo)]
      BY <1>1, SlotType DEF Sub
    <3>3. PICK m \in Seq(Subs) : m = Matches(e, Lookups)
      BY <3>1
    <3>4. /\ Tails(m, todo, before) /\ sent = before \union {ChatOf[Head(todo)]}
          /\ Tails(Tail(todo), rest, before \union {ChatOf[Head(todo)]})
      BY <1>2, <2>1, <3>2, <3>3
    <3>5. Tails(m, rest, before \union {ChatOf[Head(todo)]})
      BY <3>2, <3>4, TailsPast
    <3> QED
      BY <3>3, <3>4, <3>5
  <2>3. \A d \in sent : Concerns(e, d) => Told(<<d, KeyOf[e]>>)'
    BY <1>2, <1>4, <2>1 DEF Deals, Slots
  <2>4. CASE j = Idle
    <3>1. rest = <<>>
      BY <1>3, <2>4 DEF Leaves
    <3>2. Matches(e, Lookups) \in Seq(Subs)
      BY MatchesType
    <3>3. \A i \in DOMAIN Matches(e, Lookups) : ChatOf[Matches(e, Lookups)[i]] \in sent
      BY <2>2, <3>1, <3>2, TailsEmpty
    <3>4. \A d \in Chats : Concerns(e, d) => d \in sent
      BY <3>3, ConcernsMatches
    <3> QED
      BY <2>3, <2>4, <3>4 DEF Deals
  <2>5. CASE j # Idle
    BY <2>2, <2>3, <2>5, <1>3 DEF Deals, Leaves
  <2> QED
    BY <2>4, <2>5
<1> QED
  BY <1>3, <1>4, TurnTells

\* A step past the next subscription has a turn.
LEMMA PastTurn ==
  ASSUME IInv, NEW w \in Jobs, job[w].at \in {"next", "send"}, Past(w)
  PROVE  \E j \in Job : Turn(w, j) /\ j.at # "send"
<1>1. TypeOK /\ Busy(w) /\ job[w].at # "idle"
  BY DEF IInv, Core
<1>2. PICK sent \in SUBSET Chats, rest \in Seq(Subs) : (rest = <<>> /\ Ends(w)) \/ GoesOn(w, rest, sent)
  BY <1>1, Pasts
<1> QED
  BY <1>1, <1>2, TurnOfNext

(* ---------------------------------------------------------------------- *)
(* Claims: one telling per claim                                           *)

LEMMA SendersCount ==
  ASSUME NEW s
  PROVE  IsFiniteSet(Senders(s)) /\ Cardinality(Senders(s)) \in Nat /\ Senders(s) \subseteq Jobs
<1>1. IsFiniteSet(Jobs)
  BY FS_AddElement DEF Jobs
<1>2. Senders(s) \subseteq Jobs
  BY DEF Senders
<1> QED
  BY <1>1, <1>2, FS_Subset, FS_CardinalityType

\* The job tells nobody, before and after.
LEMMA ClaimedQuiet ==
  ASSUME IInv, NEW w \in Jobs, NEW j \in Job, Turn(w, j), UNCHANGED <<event, guard, told, lapses>>, j.at # "send"
  PROVE  Claimed'
<1>1. \A s : Senders(s)' \subseteq Senders(s)
  BY OthersStay DEF Senders, Sending
<1> SUFFICES ASSUME NEW s \in Slots
             PROVE  told[s] + Cardinality(Senders(s)') <= lapses[s] + (IF s \in guard THEN 1 ELSE 0)
  BY DEF Claimed
<1>2. IsFiniteSet(Senders(s)) /\ Cardinality(Senders(s)) \in Nat
  BY SendersCount
<1>3. Cardinality(Senders(s)') <= Cardinality(Senders(s)) /\ Cardinality(Senders(s)') \in Nat
  BY <1>1, <1>2, FS_Subset, FS_CardinalityType
<1>4. told[s] + Cardinality(Senders(s)) <= lapses[s] + (IF s \in guard THEN 1 ELSE 0)
  BY DEF IInv, Claimed
<1>5. told[s] \in Nat /\ lapses[s] \in Nat
  BY DEF IInv, Core, TypeOK
<1> QED
  BY <1>2, <1>3, <1>4, <1>5

\* The job claims its slot, and is the one to tell it.
LEMMA ClaimedClaim ==
  ASSUME IInv, NEW w \in Jobs, NEW j \in Job, Turn(w, j), UNCHANGED <<event, told, lapses>>,
         job[w].at = "next", NEW s0 \in Slots, s0 \notin guard, guard' = guard \union {s0},
         \A s : Sending(w, s)' <=> s = s0
  PROVE  Claimed'
<1> SUFFICES ASSUME NEW s \in Slots
             PROVE  told[s] + Cardinality(Senders(s)') <= lapses[s] + (IF s \in guard' THEN 1 ELSE 0)
  BY DEF Claimed
<1>1. told[s] + Cardinality(Senders(s)) <= lapses[s] + (IF s \in guard THEN 1 ELSE 0)
  BY DEF IInv, Claimed
<1>2. told[s] \in Nat /\ lapses[s] \in Nat
  BY DEF IInv, Core, TypeOK
<1>3. IsFiniteSet(Senders(s)) /\ Cardinality(Senders(s)) \in Nat /\ w \notin Senders(s)
  BY SendersCount DEF Senders, Sending
<1>4. CASE s = s0
  <2>1. Senders(s)' = Senders(s) \union {w}
    BY <1>4, OthersStay DEF Senders
  <2>2. Cardinality(Senders(s)') = Cardinality(Senders(s)) + 1
    BY <2>1, <1>3, FS_AddElement
  <2> QED
    BY <1>1, <1>2, <1>3, <1>4, <2>2
<1>5. CASE s # s0
  <2>1. Senders(s)' = Senders(s)
    BY <1>3, <1>5, OthersStay DEF Senders
  <2> QED
    BY <1>1, <1>5, <2>1
<1> QED
  BY <1>4, <1>5

\* The job told its slot, or failed to.
LEMMA ClaimedSend ==
  ASSUME IInv, NEW w \in Jobs, NEW j \in Job, Turn(w, j), UNCHANGED <<event, guard, lapses>>,
         job[w].at = "send", j.at # "send",
         told' = told \/ told' = [told EXCEPT ![Slot(w)] = @ + 1]
  PROVE  Claimed'
<1> SUFFICES ASSUME NEW s \in Slots
             PROVE  told'[s] + Cardinality(Senders(s)') <= lapses[s] + (IF s \in guard THEN 1 ELSE 0)
  BY DEF Claimed
<1>1. told[s] + Cardinality(Senders(s)) <= lapses[s] + (IF s \in guard THEN 1 ELSE 0)
  BY DEF IInv, Claimed
<1>2. told[s] \in Nat /\ lapses[s] \in Nat /\ told \in [Slots -> Nat]
  BY DEF IInv, Core, TypeOK
<1>3. IsFiniteSet(Senders(s)) /\ Cardinality(Senders(s)) \in Nat
  BY SendersCount
<1>4. Senders(s)' = Senders(s) \ {w}
  <2>1. ~Sending(w, s)'
    BY OthersStay DEF Sending
  <2>2. \A v \in Jobs \ {w} : Sending(v, s)' <=> Sending(v, s)
    BY OthersStay
  <2> QED
    BY <2>1, <2>2 DEF Senders
<1>5. CASE s = Slot(w)
  <2>1. w \in Senders(s)
    BY <1>5 DEF Senders, Sending
  <2>2. Cardinality(Senders(s)') = Cardinality(Senders(s)) - 1
    <3>1. Cardinality(Senders(s) \ {w}) = Cardinality(Senders(s)) - 1
      BY <2>1, <1>3, FS_RemoveElement, Zenon
    <3> QED
      BY <3>1, <1>4
  <2>3. told'[s] \in {told[s], told[s] + 1}
    BY <1>2, <1>5
  <2> QED
    BY <1>1, <1>2, <1>3, <2>2, <2>3
<1>6. CASE s # Slot(w)
  <2>1. Senders(s)' = Senders(s)
    BY <1>4, <1>6 DEF Senders, Sending
  <2>2. told'[s] = told[s]
    BY <1>2, <1>6
  <2> QED
    BY <1>1, <2>1, <2>2
<1> QED
  BY <1>5, <1>6

(* ---------------------------------------------------------------------- *)
(* The steps of processEvent                                               *)

LEMMA LookUpKeeps ==
  ASSUME IInv, NEW w \in Jobs, LookUp(w)
  PROVE  IInv'
<1>1. PICK ok \in SUBSET Lookups :
        /\ Continue(w, Matches(EventOf(w), ok), {})
        /\ IF ok = Lookups THEN UNCHANGED failures ELSE Fail
  BY DEF LookUp
<1>2. /\ process # "down" /\ job[w].at = "look"
      /\ UNCHANGED <<inbox, dispatch, guard, answers, lost, outcome>>
  BY DEF LookUp
<1>3. Core /\ TypeOK /\ Busy(w) /\ accepted \subseteq Requests
  BY DEF IInv, Core, TypeOK
<1>4. PICK e \in Events : e = EventOf(w)
  BY <1>2, <1>3 DEF Busy, Core, Known, EventOf
<1>5. Records
  BY <1>1, <1>2, <1>3 DEF Records, outcome, Fail, TypeOK
<1>6. PICK sent \in SUBSET Chats, rest \in Seq(Subs) :
        /\ sent = {}
        /\ Tails(Matches(e, ok), rest, sent)
        /\ (rest = <<>> /\ Ends(w)) \/ GoesOn(w, rest, sent)
  <2>1. PICK m \in Seq(Subs), sent \in SUBSET Chats : m = Matches(e, ok) /\ sent = {}
    BY MatchesType
  <2>2. Continue(w, m, sent)
    BY <1>1, <1>4, <2>1
  <2> QED
    BY <1>3, <2>1, <2>2, Continues
<1>7. PICK j \in Job : Turn(w, j) /\ j.at # "send" /\ Leaves(j, rest, sent)
  BY <1>2, <1>3, <1>6, TurnOfNext
<1>8. Core'
  BY <1>2, <1>3, <1>5, <1>7, CoreTurn
<1>9. Claimed'
  BY <1>2, <1>7, ClaimedQuiet DEF inbox, outcome
<1>10. Telling'
  <2>1. failures' \in Nat /\ failures' >= failures
    BY <1>5 DEF Records
  <2>3. ASSUME failures' = 0
        PROVE  /\ InUseIsTold'
               /\ \A s \in Slots : Told(s) => Told(s)'
               /\ j = Idle => Deals(e, Chats)'
               /\ j # Idle => Tails(Matches(e, Lookups), j.todo, j.sent) /\ Deals(e, j.sent)'
    <3>1. ok = Lookups
      BY <1>1, <1>3, <2>3 DEF Fail, TypeOK
    <3>2. \A v \in Jobs : \A s : Sending(v, s) => Sending(v, s)'
      BY <1>2, <1>7, OthersStay DEF Sending, inbox
    <3>3. \A s \in Slots : Told(s) => Told(s)'
      BY <1>2, <3>2 DEF Told, outcome
    <3>4. InUseIsTold'
      <4>1. failures = 0 /\ guard \subseteq Slots
        BY <1>1, <1>3, <3>1, <2>3 DEF TypeOK
      <4> QED
        BY <1>2, <4>1, <3>3 DEF IInv, Telling, InUseIsTold
    <3>5. j = Idle => Deals(e, Chats)'
      <4>1. Matches(e, Lookups) \in Seq(Subs)
        BY MatchesType
      <4>2. ASSUME j = Idle PROVE \A i \in DOMAIN Matches(e, Lookups) : ChatOf[Matches(e, Lookups)[i]] \in {}
        BY <4>1, <4>2, <1>6, <1>7, <3>1, TailsEmpty DEF Leaves
      <4>3. ASSUME j = Idle, NEW d \in Chats PROVE ~Concerns(e, d)
        BY <4>2, <4>3, ConcernsMatches
      <4> QED
        BY <4>3 DEF Deals
    <3>6. j # Idle => Tails(Matches(e, Lookups), j.todo, j.sent) /\ Deals(e, j.sent)'
      BY <1>6, <1>7, <3>1 DEF Deals, Leaves
    <3> QED
      BY <3>3, <3>4, <3>5, <3>6
  <2> QED
    BY <1>2, <1>4, <1>7, <2>1, <2>3, TurnTells DEF inbox
<1> QED
  BY <1>8, <1>9, <1>10 DEF IInv

LEMMA NotifyKeeps ==
  ASSUME IInv, NEW w \in Jobs, Notify(w)
  PROVE  IInv'
<1>1. /\ process # "down" /\ job[w].at = "next"
      /\ UNCHANGED <<inbox, dispatch, answers, lost, told, lapses>>
  BY DEF Notify, outcome
<1>2. Core /\ TypeOK /\ Busy(w) /\ failures \in Nat
  BY DEF IInv, Core, TypeOK
<1>3. /\ job[w].req \in accepted /\ EventOf(w) \in Events /\ Sub(w) \in Subs /\ Sub(w) = Head(job[w].todo)
      /\ job[w].todo \in Seq(Subs) /\ job[w].todo # <<>> /\ job[w].sent \in SUBSET Chats
      /\ ChatOf[Sub(w)] \in Chats /\ ChatOf[Sub(w)] \notin job[w].sent
      /\ Slot(w) = <<ChatOf[Sub(w)], KeyOf[EventOf(w)]>> /\ Slot(w) \in Slots
  BY <1>1, <1>2, SlotType
<1>4. PICK e \in Events, c \in Chats : e = EventOf(w) /\ c = ChatOf[Sub(w)] /\ Slot(w) = <<c, KeyOf[e]>>
  BY <1>3
<1>5. CASE /\ Past(w) /\ guard' = guard
           /\ failures' = failures \/ Fail
           /\ failures' = failures => UserOf[Sub(w)] = AuthorOf[EventOf(w)] \/ Slot(w) \in guard
  <2>1. Records
    BY <1>1, <1>2, <1>5 DEF Records, Fail, TypeOK
  <2>2. failures' \in Nat /\ failures' >= failures
    BY <2>1 DEF Records
  <2>3. ASSUME NEW j \in Job, Turn(w, j), j.at # "send" PROVE \A s \in Slots : Told(s) => Told(s)'
    <3>1. \A v \in Jobs : \A s : Sending(v, s) => Sending(v, s)'
      BY <1>1, <2>3, OthersStay DEF Sending, inbox
    <3> QED
      BY <1>1, <3>1 DEF Told
  <2>4. \E j \in Job : Turn(w, j) /\ j.at # "send"
    BY <1>1, <1>5, PastTurn
  <2>5. ASSUME failures' = 0
        PROVE  /\ InUseIsTold'
               /\ \A s \in Slots : Told(s) => Told(s)'
               /\ Concerns(e, c) => Told(<<c, KeyOf[e]>>)'
    <3>1. failures' = failures /\ failures = 0
      BY <1>2, <1>5, <2>5 DEF Fail
    <3>2. \A s \in Slots : Told(s) => Told(s)'
      BY <2>3, <2>4
    <3>3. InUseIsTold /\ Dealing(w)
      BY <3>1 DEF IInv, Telling
    <3>4. InUseIsTold'
      BY <1>2, <1>5, <3>2, <3>3 DEF InUseIsTold, TypeOK
    <3>5. CASE UserOf[Sub(w)] = AuthorOf[EventOf(w)]
      <4>1. Tails(Matches(e, Lookups), job[w].todo, job[w].sent)
        BY <1>1, <1>4, <3>3 DEF Dealing
      <4>2. ~Concerns(e, c)
        BY <1>3, <1>4, <3>5, <4>1, NextIsFirst
      <4> QED
        BY <3>2, <3>4, <4>2
    <3>6. CASE Slot(w) \in guard
      <4>1. PICK s \in Slots : s = Slot(w)
        BY <1>3
      <4>2. Told(s)
        BY <3>3, <3>6, <4>1 DEF InUseIsTold
      <4>3. Told(s)'
        BY <3>2, <4>2
      <4> QED
        BY <1>4, <3>2, <3>4, <4>1, <4>3
    <3> QED
      BY <1>5, <3>1, <3>5, <3>6
  <2>6. Telling'
    BY <1>1, <1>4, <1>5, <2>2, <2>5, PastTells DEF inbox
  <2>7. Core' /\ Claimed'
    <3>1. PICK j \in Job : Turn(w, j) /\ j.at # "send"
      BY <2>4
    <3>2. Core'
      BY <1>1, <1>2, <2>1, <3>1, CoreTurn
    <3>3. Claimed'
      BY <1>1, <1>5, <3>1, ClaimedQuiet DEF inbox
    <3> QED
      BY <3>2, <3>3
  <2> QED
    BY <2>6, <2>7 DEF IInv
<1>6. CASE /\ Slot(w) \notin guard /\ guard' = guard \union {Slot(w)} /\ (failures' = failures \/ Fail)
           /\ job' = [job EXCEPT ![w].at = "send"] /\ processed' = processed
  <2>1. PICK j : j = [job[w] EXCEPT !.at = "send"]
    OBVIOUS
  <2>2. j \in Job /\ j.req = job[w].req /\ j.at = "send" /\ j.todo = job[w].todo /\ j.sent = job[w].sent
    <3>1. job[w] \in Job
      BY <1>2 DEF TypeOK
    <3> QED
      BY <2>1, <3>1 DEF Job
  <2>3. Puts(w, j)
    BY <1>2, <1>6, <2>1 DEF Puts, TypeOK
  <2>4. Turn(w, j)
    BY <1>1, <1>3, <1>6, <2>2, <2>3 DEF Turn
  <2>5. Records
    <3>1. guard' \subseteq Slots
      BY <1>2, <1>3, <1>6 DEF TypeOK
    <3>2. failures' \in 0 .. MaxFailures /\ failures' >= failures
      BY <1>2, <1>6 DEF Fail, TypeOK
    <3> QED
      BY <1>1, <1>2, <3>1, <3>2 DEF Records, TypeOK
  <2>6. Core'
    BY <1>1, <1>2, <2>2, <2>4, <2>5, CoreTurn
  <2>7. job'[w] = j /\ \A v \in Jobs \ {w} : \A s : Sending(v, s)' <=> Sending(v, s)
    BY <1>1, <2>2, <2>4, OthersStay DEF inbox
  <2>8. \A s : Sending(w, s)' <=> s = Slot(w)
    BY <1>1, <2>2, <2>7 DEF Sending, Slot, Sub, EventOf, inbox
  <2>9. Claimed'
    <3>1. PICK s0 \in Slots : s0 = Slot(w)
      BY <1>3
    <3>2. s0 \notin guard /\ guard' = guard \union {s0} /\ \A s : Sending(w, s)' <=> s = s0
      BY <1>6, <2>8, <3>1
    <3>3. Turn(w, j) /\ UNCHANGED <<event, told, lapses>>
      BY <1>1, <2>4 DEF inbox
    <3> QED
      BY <1>1, <2>2, <3>2, <3>3, ClaimedClaim
  <2>10. Telling'
    <3>1. failures' \in Nat /\ failures' >= failures
      BY <2>5 DEF Records
    <3>2. ASSUME failures' = 0
          PROVE  /\ InUseIsTold'
                 /\ \A s \in Slots : Told(s) => Told(s)'
                 /\ Tails(Matches(e, Lookups), j.todo, j.sent) /\ Deals(e, j.sent)'
      <4>1. InUseIsTold /\ Dealing(w)
        BY <1>2, <3>1, <3>2 DEF IInv, Telling
      <4>2. \A v \in Jobs : \A s : Sending(v, s) => Sending(v, s)'
        BY <1>1, <2>7 DEF Sending
      <4>3. \A s \in Slots : Told(s) => Told(s)'
        BY <1>1, <4>2 DEF Told
      <4>4. InUseIsTold'
        <5>1. PICK s0 \in Slots : s0 = Slot(w)
          BY <1>3
        <5>2. Sending(w, s0)'
          BY <2>8, <5>1
        <5>3. guard' = guard \union {s0}
          BY <1>6, <5>1
        <5>4. Told(s0)'
          BY <5>2 DEF Told
        <5>5. \A s \in guard : s \in Slots /\ Told(s)'
          BY <1>2, <4>1, <4>3 DEF InUseIsTold, TypeOK
        <5> QED
          BY <5>3, <5>4, <5>5 DEF InUseIsTold
      <4>5. Tails(Matches(e, Lookups), j.todo, j.sent) /\ Deals(e, j.sent)
        BY <1>1, <1>4, <2>2, <4>1 DEF Dealing
      <4>6. Deals(e, j.sent)'
        <5>1. j.sent \in SUBSET Chats
          BY <1>3, <2>2
        <5> QED
          BY <4>3, <4>5, <5>1 DEF Deals, Slots
      <4> QED
        BY <4>3, <4>4, <4>5, <4>6
    <3>3. j # Idle
      BY <2>2, JobTypes
    <3> QED
      BY <1>1, <1>4, <2>2, <2>4, <3>1, <3>2, <3>3, TurnTells DEF inbox
  <2> QED
    BY <2>6, <2>9, <2>10 DEF IInv
<1> QED
  <2>1. failures' = failures \/ Fail
    BY DEF Notify
  <2>2. Fail => failures' # failures
    BY <1>2 DEF Fail
  <2> QED
    BY <1>5, <1>6, <2>1, <2>2 DEF Notify, ClaimSlot

LEMMA SendKeeps ==
  ASSUME IInv, NEW w \in Jobs, Send(w)
  PROVE  IInv'
<1>1. /\ process # "down" /\ job[w].at = "send" /\ Past(w)
      /\ \/ told' = [told EXCEPT ![Slot(w)] = @ + 1] /\ failures' = failures
         \/ told' = told /\ Fail
      /\ UNCHANGED <<inbox, dispatch, guard, answers, lost, lapses>>
  BY DEF Send
<1>2. Core /\ TypeOK /\ Busy(w) /\ failures \in Nat
  BY DEF IInv, Core, TypeOK
<1>3. PICK e \in Events, c \in Chats : e = EventOf(w) /\ c = ChatOf[Sub(w)] /\ Slot(w) = <<c, KeyOf[e]>>
  BY <1>1, <1>2, SlotType
<1>4. Slot(w) \in Slots
  BY <1>1, <1>2, SlotType
<1>5. told' \in [Slots -> Nat]
  BY <1>1, <1>2, <1>4 DEF TypeOK
<1>6. Records
  BY <1>1, <1>2, <1>5 DEF Records, Fail, TypeOK
<1>7. failures' \in Nat /\ failures' >= failures
  BY <1>6 DEF Records
<1>8. PICK j \in Job : Turn(w, j) /\ j.at # "send"
  BY <1>1, PastTurn
<1>9. Core'
  BY <1>1, <1>2, <1>6, <1>8, CoreTurn
<1>10. Claimed'
  BY <1>1, <1>8, ClaimedSend DEF inbox
<1>11. ASSUME failures' = 0
       PROVE  /\ InUseIsTold'
              /\ \A s \in Slots : Told(s) => Told(s)'
              /\ Concerns(e, c) => Told(<<c, KeyOf[e]>>)'
  <2>1. told' = [told EXCEPT ![Slot(w)] = @ + 1] /\ failures = 0
    BY <1>1, <1>2, <1>11 DEF Fail
  <2>2. \A s \in Slots : told'[s] >= told[s] /\ told[s] \in Nat /\ told'[Slot(w)] > 0
    BY <1>2, <1>4, <2>1 DEF TypeOK
  <2>4. ASSUME NEW s \in Slots, Told(s) PROVE Told(s)'
    <3>1. CASE told[s] > 0
      <4>1. told'[s] > 0
        BY <1>5, <2>2, <3>1
      <4> QED
        BY <4>1 DEF Told
    <3>2. CASE Sending(w, s)
      <4>1. told'[s] > 0
        BY <2>2, <3>2 DEF Sending
      <4> QED
        BY <4>1 DEF Told
    <3>3. CASE \E v \in Jobs \ {w} : Sending(v, s)
      BY <1>1, <1>8, <3>3, OthersStay DEF Told, inbox
    <3> QED
      BY <2>4, <3>1, <3>2, <3>3 DEF Told
  <2>5. InUseIsTold'
    BY <1>1, <1>2, <2>1, <2>4 DEF IInv, Telling, InUseIsTold, TypeOK
  <2>6. Concerns(e, c) => Told(<<c, KeyOf[e]>>)'
    <3>1. told'[<<c, KeyOf[e]>>] > 0
      <4>1. told'[Slot(w)] > 0
        BY <1>4, <2>2
      <4> QED
        BY <1>3, <4>1, Zenon
    <3> QED
      BY <3>1 DEF Told
  <2> QED
    BY <2>4, <2>5, <2>6
<1>12. Telling'
  BY <1>1, <1>3, <1>7, <1>11, PastTells DEF inbox
<1> QED
  BY <1>9, <1>10, <1>12 DEF IInv

LEMMA PanicKeeps ==
  ASSUME IInv, NEW w \in Jobs, Panic(w)
  PROVE  IInv'
<1>1. /\ job[w] # Idle /\ job' = [job EXCEPT ![w] = Idle] /\ processed' = processed \union {job[w].req}
      /\ failures < MaxFailures /\ failures' = failures + 1
      /\ UNCHANGED <<inbox, dispatch, guard, answers, lost, told, lapses>>
  BY DEF Panic, Return, Fail, outcome
<1>2. Core /\ TypeOK /\ Busy(w)
  BY DEF IInv, Core
<1>3. Turn(w, Idle) /\ Idle \in Job /\ Idle.at # "send"
  BY <1>1, <1>2, JobTypes DEF Turn, Puts, Busy
<1>4. Records /\ failures' > 0
  BY <1>1, <1>2 DEF Records, TypeOK
<1>5. Core'
  BY <1>1, <1>2, <1>3, <1>4, CoreTurn
<1>6. Claimed'
  BY <1>1, <1>3, ClaimedQuiet DEF inbox
<1>7. Telling'
  BY <1>4 DEF Telling
<1> QED
  BY <1>5, <1>6, <1>7 DEF IInv

LEMMA LapseKeeps ==
  ASSUME IInv, NEW slot \in Slots, Lapse(slot)
  PROVE  IInv'
<1>1. /\ slot \in guard /\ guard' = guard \ {slot} /\ lapses' = [lapses EXCEPT ![slot] = @ + 1]
      /\ failures' = failures + 1 /\ UNCHANGED <<event, job, told>>
  BY DEF Lapse, Fail, inbox
<1>2. Core /\ Core'
  BY CoreLapse DEF IInv
<1>3. Claimed'
  <2> SUFFICES ASSUME NEW s \in Slots
               PROVE  told[s] + Cardinality(Senders(s)') <= lapses'[s] + (IF s \in guard' THEN 1 ELSE 0)
    BY <1>1 DEF Claimed
  <2>1. told[s] + Cardinality(Senders(s)) <= lapses[s] + (IF s \in guard THEN 1 ELSE 0)
    BY DEF IInv, Claimed
  <2>2. Senders(s)' = Senders(s)
    BY <1>1 DEF Senders, Sending, Slot, Sub, EventOf
  <2>3. told[s] \in Nat /\ lapses[s] \in Nat /\ lapses \in [Slots -> Nat] /\ Cardinality(Senders(s)) \in Nat
    BY <1>2, SendersCount DEF Core, TypeOK
  <2>4. CASE s = slot
    <3>1. lapses'[s] = lapses[s] + 1 /\ s \in guard /\ s \notin guard'
      BY <1>1, <2>3, <2>4
    <3> QED
      BY <2>1, <2>2, <2>3, <3>1
  <2>5. CASE s # slot
    <3>1. lapses'[s] = lapses[s] /\ (s \in guard <=> s \in guard')
      BY <1>1, <2>3, <2>5
    <3> QED
      BY <2>1, <2>2, <2>3, <3>1
  <2> QED
    BY <2>4, <2>5
<1>4. Telling'
  BY <1>1, <1>2 DEF Telling, Core, TypeOK
<1> QED
  BY <1>2, <1>3, <1>4 DEF IInv

LEMMA LifeKeeps ==
  ASSUME IInv, Life
  PROVE  IInv'
<1>1. Core /\ Core' /\ failures \in Nat
  BY CoreLife DEF IInv, Core, TypeOK
<1>2. CASE Cancel \/ Shutdown \/ Restart
  <2>1. UNCHANGED <<event, job, guard, told, lapses, processed>> /\ (failures' = 0 => failures = 0)
    BY <1>1, <1>2 DEF Cancel, Shutdown, Restart, Fail, outcome
  <2>2. Claimed' /\ Telling'
    BY <2>1, CalmKeeps
  <2> QED
    BY <1>1, <2>2 DEF IInv
<1>3. CASE Exit \/ Crash
  <2>1. /\ job' = [w \in Jobs |-> Idle] /\ UNCHANGED <<event, guard, told, lapses>> /\ process' = "down"
    BY <1>3 DEF Exit, Crash, Die, outcome
  <2>2. Telling'
    BY <1>1, <2>1 DEF Core, Modes, Telling
  <2>3. Claimed'
    <3> SUFFICES ASSUME NEW s \in Slots
                 PROVE  told[s] + Cardinality(Senders(s)') <= lapses[s] + (IF s \in guard THEN 1 ELSE 0)
      BY <2>1 DEF Claimed
    <3>1. told[s] + Cardinality(Senders(s)) <= lapses[s] + (IF s \in guard THEN 1 ELSE 0)
      BY DEF IInv, Claimed
    <3>2. told[s] \in Nat /\ lapses[s] \in Nat /\ Cardinality(Senders(s)) \in Nat
      BY <1>1, SendersCount DEF Core, TypeOK
    <3>3. Senders(s)' = {}
      BY <2>1, JobTypes DEF Senders, Sending
    <3>4. Cardinality(Senders(s)') = 0
      BY <3>3, FS_EmptySet
    <3> QED
      BY <3>1, <3>2, <3>4
  <2> QED
    BY <1>1, <2>2, <2>3 DEF IInv
<1> QED
  BY <1>2, <1>3 DEF Life

\* Jira's requests and the loop's steps claim nothing and tell nobody.
LEMMA DispatchKeeps ==
  ASSUME IInv, Dispatch
  PROVE  IInv'
<1>1. Core /\ Core' /\ TypeOK
  BY CoreDispatch DEF IInv, Core
<1>2. UNCHANGED <<event, guard, told, lapses, processed, failures>>
  BY DEF Dispatch, Take, Spawn, HoldCancelled, SelectCancelled, Drain, inbox, outcome
<1>3. \A w \in Jobs : \/ job'[w] = job[w]
                      \/ job[w].at \notin {"next", "send"} /\ job'[w].at \notin {"next", "send"}
  <2>1. ASSUME NEW w \in Jobs, NEW r \in Requests, job[w] = Idle, Begin(w, r)
        PROVE  \A v \in Jobs : \/ job'[v] = job[v]
                               \/ job[v].at \notin {"next", "send"} /\ job'[v].at \notin {"next", "send"}
    <3>1. Puts(w, AtLook(r)) /\ AtLook(r) \in Job /\ AtLook(r).at = "look"
      BY <2>1, BeginPuts, JobTypes
    <3> QED
      BY <1>1, <2>1, <3>1, Put, JobTypes
  <2>2. CASE Take \/ SelectCancelled
    BY <2>2 DEF Take, SelectCancelled
  <2>3. ASSUME NEW w \in Workers, Spawn(w)
        PROVE  \A v \in Jobs : \/ job'[v] = job[v]
                               \/ job[v].at \notin {"next", "send"} /\ job'[v].at \notin {"next", "send"}
    <3>1. PICK r \in Requests : r = held
      BY <1>1, <2>3 DEF Spawn, TypeOK
    <3> QED
      BY <2>1, <2>3, <3>1 DEF Spawn, Jobs
  <2>4. CASE HoldCancelled
    <3>1. PICK r \in Requests : r = held
      BY <1>1, <2>4 DEF HoldCancelled, TypeOK
    <3>2. job[Main] = Idle /\ Main \in Jobs
      BY <1>1, <2>4 DEF HoldCancelled, TypeOK, Jobs
    <3> QED
      BY <2>1, <2>4, <3>1, <3>2 DEF HoldCancelled
  <2>5. CASE Drain
    <3>1. CASE UNCHANGED job
      BY <3>1
    <3>2. CASE queue # <<>> /\ Begin(Main, Head(queue))
      <4>1. PICK r \in Requests : r = Head(queue)
        BY <1>1, <3>2, InTail DEF TypeOK
      <4> QED
        BY <2>1, <2>5, <3>2, <4>1 DEF Drain, Jobs
    <3> QED
      BY <2>5, <3>1, <3>2 DEF Drain
  <2> QED
    BY <2>2, <2>3, <2>4, <2>5 DEF Dispatch
<1>4. Claimed' /\ Telling'
  BY <1>2, <1>3, CalmKeeps
<1> QED
  BY <1>1, <1>4 DEF IInv

LEMMA InvInit ==
  ASSUME Init
  PROVE  IInv
<1>1. Core
  BY CoreInit
<1>2. \A w \in Jobs : job[w].at = "idle"
  BY JobTypes DEF Init
<1>3. Claimed
  <2>1. \A s : Senders(s) = {}
    BY <1>2 DEF Senders, Sending
  <2>2. \A s \in Slots : told[s] = 0 /\ lapses[s] = 0 /\ s \notin guard
    BY DEF Init
  <2>3. \A s \in Slots : Cardinality(Senders(s)) = 0
    BY <2>1, FS_EmptySet
  <2> QED
    BY <2>2, <2>3 DEF Claimed
<1>4. Telling
  BY <1>2 DEF Init, Telling, InUseIsTold, Dealing, DoneIsTold
<1> QED
  BY <1>1, <1>3, <1>4 DEF IInv

LEMMA InvNext ==
  ASSUME IInv, [Next]_vars
  PROVE  IInv'
<1>1. ASSUME NEW r \in Requests, NEW e \in Events, Post(r, e) PROVE IInv'
  <2>1. /\ event[r] = NoEvent /\ event' = [event EXCEPT ![r] = e]
        /\ UNCHANGED <<job, guard, told, lapses, processed, failures>>
    BY <1>1 DEF Post, outcome
  <2>2. \A q \in accepted : event'[q] = event[q]
    BY <2>1 DEF IInv, Core, Known, TypeOK
  <2> QED
    BY <1>1, <2>1, <2>2, CorePost, CalmKeeps DEF IInv
<1>2. ASSUME NEW r \in Requests, ServeHTTP(r) PROVE IInv'
  <2>1. UNCHANGED <<event, job, guard, told, lapses, processed, failures>>
    BY <1>2 DEF ServeHTTP, outcome
  <2> QED
    BY <1>2, <2>1, CoreServe, CalmKeeps DEF IInv
<1>3. ASSUME NEW w \in Jobs, Work(w) \/ Panic(w) PROVE IInv'
  BY <1>3, LookUpKeeps, NotifyKeeps, SendKeeps, PanicKeeps DEF Work
<1>4. CASE UNCHANGED vars
  <2>1. TypeOK' /\ Known'
    BY <1>4 DEF vars, IInv, Core, TypeOK, Known
  <2>2. (\A w \in Jobs : Busy(w))' /\ Modes' /\ Located' /\ Exited'
    BY <1>4 DEF vars, IInv, Core, Busy, Modes, Located, Exited
  <2>3. Claimed' /\ Telling'
    BY <1>4, CalmKeeps DEF vars
  <2> QED
    BY <2>1, <2>2, <2>3 DEF IInv, Core
<1> QED
  BY <1>1, <1>2, <1>3, <1>4, DispatchKeeps, LifeKeeps, LapseKeeps DEF Next, Serve

LEMMA Invariance == Spec => []IInv
<1>1. Init => IInv
  BY InvInit
<1>2. IInv /\ [Next]_vars => IInv'
  BY InvNext
<1> QED
  BY <1>1, <1>2, PTL DEF Spec

(* ---------------------------------------------------------------------- *)
(* Theorems                                                                *)

\* Type correctness, and with it: the queue holds at most eventQueueSize
\* events, a request answered with 503 is not processed, and the loop's own
\* goroutine works on an event only once the context is cancelled.
THEOREM IngressTypes == Spec => []TypeOK
<1>1. IInv => TypeOK
  BY DEF IInv, Core
<1> QED
  BY <1>1, Invariance, PTL

\* Start returns only when every event accepted before the cancellation was
\* processed, for any number of workers and any queue.
THEOREM StopDrains == Spec => []DrainsAccepted
<1>1. IInv => DrainsAccepted
  <2> SUFFICES ASSUME IInv, loop = "exit", \A w \in Jobs : job[w] = Idle,
                      NEW r \in early, r \notin processed \union lost
               PROVE  FALSE
    BY DEF DrainsAccepted
  <2>1. r \in accepted /\ r # 0 /\ held = 0
    BY DEF IInv, Core, TypeOK, Requests
  <2>2. ~In(queue, r)
    BY DEF IInv, Core, Exited, In
  <2> QED
    BY <2>1, <2>2, JobTypes DEF IInv, Core, Located
<1> QED
  BY <1>1, Invariance, PTL

\* A chat is told the events of one key once, and once more for each time the
\* slot lapsed, however many workers hold one and however often Jira repeats it.
THEOREM OneTellingPerLapse == Spec => []RepeatNeedsLapse
<1>1. IInv => RepeatNeedsLapse
  <2> SUFFICES ASSUME IInv, NEW s \in Slots PROVE told[s] <= 1 + lapses[s]
    BY DEF RepeatNeedsLapse
  <2>1. told[s] + Cardinality(Senders(s)) <= lapses[s] + (IF s \in guard THEN 1 ELSE 0)
    BY DEF IInv, Claimed
  <2>2. told[s] \in Nat /\ lapses[s] \in Nat /\ Cardinality(Senders(s)) \in Nat
    BY SendersCount DEF IInv, Core, TypeOK
  <2> QED
    BY <2>1, <2>2
<1> QED
  BY <1>1, Invariance, PTL

\* While nothing fails, an event that was processed was told to every chat it
\* concerns, or another of its key was or is about to be, whatever the lookups
\* find and however subscriptions share chats.
THEOREM ConcernedChatsAreTold == Spec => []EachChatIsTold
<1>1. IInv => EachChatIsTold
  <2> SUFFICES ASSUME IInv, failures = 0, NEW r \in processed, NEW c \in Chats, Concerns(event[r], c)
               PROVE  \/ told[<<c, KeyOf[event[r]]>>] > 0
                      \/ \E w \in Jobs : job[w].at = "send" /\ Slot(w) = <<c, KeyOf[event[r]]>>
    BY DEF EachChatIsTold
  <2>1. Deals(event[r], Chats)
    BY DEF IInv, Telling, DoneIsTold
  <2> QED
    BY <2>1 DEF Deals, Told, Sending
<1> QED
  BY <1>1, Invariance, PTL

=============================================================================
