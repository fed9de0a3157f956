--------------------------- MODULE TeachingProofs ---------------------------
(***************************************************************************)
(* Proofs about TeachingLoop and Lesson, for any number of loops, messages,*)
(* agents and iterations: where the users' messages are and in which order *)
(* they are delivered, that a busy session has a loop that will drain its  *)
(* queue, the session's books; and for any answers, rubrics and strictness *)
(* what a lesson scores and when it ends.                                  *)
(***************************************************************************)
EXTENDS Lesson, DataFacts

-----------------------------------------------------------------------------
(* The inductive invariant                                                 *)

\* What a loop delivers, and what agents got, was posted to the session.
NothingInvented ==
    /\ Range(queue) \subseteq Range(posted) /\ Range(stored) \subseteq Range(posted)
    /\ \A l \in Loops : Range(loop[l].batch) \subseteq Range(posted)
    /\ \A a \in Agents : Range(inbox[a]) \subseteq Range(posted)

\* Of the messages a loop still delivers, an agent can only have the first
\* one, and only when the loop is past that agent.
DeliveryFrontier ==
    \A a \in Agents, l \in Loops : \A m \in Range(inbox[a]) \intersect Range(loop[l].batch) :
        a < loop[l].to /\ m = Head(loop[l].batch)

Custody == SingleCustody /\ AtMostOnce /\ NothingInvented /\ DeliveryFrontier

\* A loop has a batch exactly while it delivers it.
BatchesMatchPc == \A l \in Loops : loop[l].pc = "flush" <=> loop[l].batch # <<>>

DeletedHasNoQueue == ~live => queue = <<>>

SessionInv == TypeOK /\ BatchesMatchPc /\ DeletedHasNoQueue /\ Custody

-----------------------------------------------------------------------------
(* The loop record                                                         *)

\* The end of an iteration changes one loop, which is left without a batch;
\* it completes the session or runs on with the status this step has set.
LEMMA AfterIterationEffect ==
    ASSUME TypeOK, NEW l \in Loops, NEW i \in Nat, NEW passed \in BOOLEAN,
           NEW st \in Statuses, AfterIteration(l, i, passed, st)
    PROVE  /\ loop' \in [Loops -> LoopStates]
           /\ status' \in Statuses /\ currentIteration' \in Nat
           /\ \A k \in Loops \ {l} : loop'[k] = loop[k]
           /\ loop'[l].batch = <<>>
           /\ \/ loop'[l].pc = "exchange" /\ status' = st
              \/ loop'[l].pc = "completed" /\ status' = SetStatus("completed")
<1>1. 1 \in Agents /\ 1 \in Steps /\ <<>> \in Seq(Messages)
  BY NumAgentsAssumption DEF Agents, Steps
<1>2. ASSUME NEW r \in LoopStates, r.batch = <<>>, loop' = [loop EXCEPT ![l] = r]
      PROVE  /\ loop' \in [Loops -> LoopStates]
             /\ \A k \in Loops \ {l} : loop'[k] = loop[k]
             /\ loop'[l] = r
  BY <1>2 DEF TypeOK
<1>3. CASE Finish(l)
  <2> DEFINE r == LoopAt("completed", 0, FALSE, <<>>)
  <2>1. r \in LoopStates
    BY <1>1 DEF LoopStates, LoopAt
  <2>2. r.batch = <<>> /\ r.pc = "completed"
    BY DEF LoopAt
  <2>3. status' \in Statuses /\ currentIteration' \in Nat
    BY <1>3 DEF Finish, SetStatus, TypeOK, Statuses
  <2>. HIDE DEF r
  <2>. QED  BY <1>2, <1>3, <2>1, <2>2, <2>3 DEF Finish, r
<1>4. CASE NextIteration(l, i + 1, st)
  <2> DEFINE r == LoopAt("exchange", i + 1, FALSE, <<>>)
  <2>1. r \in LoopStates
    BY <1>1 DEF LoopStates, LoopAt
  <2>2. r.batch = <<>> /\ r.pc = "exchange"
    BY DEF LoopAt
  <2>3. currentIteration' \in Nat
    BY <1>4 DEF NextIteration, Counted, TypeOK
  <2>. HIDE DEF r
  <2>. QED  BY <1>2, <1>4, <2>1, <2>2, <2>3 DEF NextIteration, r
<1>. QED  BY <1>3, <1>4 DEF AfterIteration

-----------------------------------------------------------------------------
(* Custody of the messages                                                 *)

\* Steps that move no message: every batch, and the place in it, stays.
LEMMA CustodyKept ==
    ASSUME Custody, UNCHANGED <<queue, stored, posted, inbox>>,
           \A l \in Loops : /\ loop'[l].batch = loop[l].batch
                            /\ loop[l].batch # <<>> => loop'[l].to = loop[l].to
    PROVE  Custody'
<1>1. SingleCustody' /\ AtMostOnce' /\ NothingInvented'
  BY DEF Custody, SingleCustody, AtMostOnce, NothingInvented
<1>2. DeliveryFrontier'
  <2>. SUFFICES ASSUME NEW a \in Agents, NEW l \in Loops,
                       NEW m \in (Range(inbox[a]) \intersect Range(loop[l].batch))
                PROVE  a < loop'[l].to /\ m = Head(loop'[l].batch)
    BY DEF DeliveryFrontier
  <2>1. loop[l].batch # <<>>
    BY EmptyQueue
  <2>. QED  BY <2>1 DEF Custody, DeliveryFrontier
<1>. QED  BY <1>1, <1>2 DEF Custody

\* A new message goes to the end of the queue or of the stored messages.
LEMMA CustodyPosted ==
    ASSUME TypeOK, Custody, NEW m \in Messages, m \notin Range(posted),
           posted' = Append(posted, m), Enqueue(m) \/ Store(m),
           UNCHANGED <<loop, inbox>>
    PROVE  Custody'
<1>. USE DEF TypeOK
<1>1. Range(posted') = Range(posted) \union {m}
  BY RangeAppend
<1>2. m \notin Range(queue) /\ m \notin Range(stored)
      /\ (\A l \in Loops : m \notin Range(loop[l].batch))
      /\ (\A a \in Agents : m \notin Range(inbox[a]))
  BY DEF Custody, NothingInvented
<1>3. DeliveryFrontier' /\ AtMostOnce'
  BY DEF Custody, DeliveryFrontier, AtMostOnce
<1>4. CASE Enqueue(m)
  <2>1. /\ Range(queue') = Range(queue) \union {m} /\ IsInjective(queue')
        /\ stored' = stored
    BY <1>2, <1>4, RangeAppend, InjectiveAppend DEF Enqueue, Custody, SingleCustody
  <2>2. SingleCustody'
    BY <1>2, <2>1 DEF Custody, SingleCustody
  <2>3. NothingInvented'
    BY <1>1, <2>1 DEF Custody, NothingInvented
  <2>. QED  BY <1>3, <2>2, <2>3 DEF Custody
<1>5. CASE Store(m)
  <2>1. /\ Range(stored') = Range(stored) \union {m} /\ IsInjective(stored')
        /\ queue' = queue
    BY <1>2, <1>5, RangeAppend, InjectiveAppend DEF Store, Custody, SingleCustody
  <2>2. SingleCustody'
    BY <1>2, <2>1 DEF Custody, SingleCustody
  <2>3. NothingInvented'
    BY <1>1, <2>1 DEF Custody, NothingInvented
  <2>. QED  BY <1>3, <2>2, <2>3 DEF Custody
<1>. QED  BY <1>4, <1>5

\* The flush endpoint and the deletion of the session empty the queue, into
\* the stored messages or into nothing.
LEMMA CustodyFlushed ==
    ASSUME TypeOK, Custody, queue' = <<>>, stored' \in {stored, stored \o queue},
           UNCHANGED <<posted, loop, inbox>>
    PROVE  Custody'
<1>. USE DEF TypeOK
<1>1. Range(queue') = {} /\ IsInjective(queue')
  BY EmptyQueue
<1>2. /\ IsInjective(stored')
      /\ Range(stored') \subseteq Range(stored) \union Range(queue)
  <2>1. IsInjective(stored \o queue) /\ Range(stored \o queue) = Range(stored) \union Range(queue)
    BY RangeConcat, InjectiveConcat DEF Custody, SingleCustody
  <2>. QED  BY <2>1 DEF Custody, SingleCustody
<1>3. SingleCustody'
  BY <1>1, <1>2 DEF Custody, SingleCustody
<1>4. NothingInvented' /\ AtMostOnce' /\ DeliveryFrontier'
  BY <1>1, <1>2 DEF Custody, NothingInvented, AtMostOnce, DeliveryFrontier
<1>. QED  BY <1>3, <1>4 DEF Custody

\* A loop without a batch takes over the whole queue.
LEMMA CustodyDrained ==
    ASSUME Custody, NEW l \in Loops, loop[l].batch = <<>>, queue' = <<>>,
           loop'[l].batch = queue, \A k \in Loops \ {l} : loop'[k] = loop[k],
           UNCHANGED <<stored, posted, inbox>>
    PROVE  Custody'
<1>1. Range(queue') = {} /\ IsInjective(queue')
  BY EmptyQueue
<1>2. \A k \in Loops \ {l} : Range(loop[k].batch) \intersect Range(queue) = {}
  BY DEF Custody, SingleCustody
<1>3. SingleCustody'
  BY <1>1, <1>2 DEF Custody, SingleCustody
<1>4. NothingInvented' /\ AtMostOnce'
  BY <1>1 DEF Custody, NothingInvented, AtMostOnce
<1>5. DeliveryFrontier'
  <2>1. \A a \in Agents : Range(inbox[a]) \intersect Range(queue) = {}
    BY DEF Custody, SingleCustody
  <2>. QED  BY <2>1 DEF Custody, DeliveryFrontier
<1>. QED  BY <1>3, <1>4, <1>5 DEF Custody

\* The delivery of the first message of a batch to one agent, got or not,
\* after which the loop turns to the next agent, or to the next message, or
\* is left without a batch.
LEMMA CustodyDelivered ==
    ASSUME TypeOK, Custody, NEW l \in Loops, loop[l].batch # <<>>,
           \/ inbox' = inbox
           \/ inbox' = [inbox EXCEPT ![loop[l].to] = Append(@, Head(loop[l].batch))],
           \/ loop'[l].batch = loop[l].batch /\ loop'[l].to = loop[l].to + 1
           \/ loop'[l].batch = Tail(loop[l].batch)
           \/ loop'[l].batch = <<>>,
           \A k \in Loops \ {l} : loop'[k] = loop[k],
           UNCHANGED <<queue, stored, posted>>
    PROVE  Custody'
<1> DEFINE b == loop[l].batch
           m == Head(b)
           s == loop[l].to
<1>1. /\ b \in Seq(Messages) /\ s \in Agents /\ b # <<>>
      /\ \A a \in Agents : inbox[a] \in Seq(Messages)
  BY DEF TypeOK, LoopStates
<1>2. /\ m \in Messages /\ Tail(b) \in Seq(Messages)
      /\ Range(b) = {m} \union Range(Tail(b))
      /\ IsInjective(Tail(b)) /\ m \notin Range(Tail(b))
  <2>. HIDE DEF b
  <2>1. IsInjective(b)
    BY DEF Custody, SingleCustody, b
  <2>. QED  BY <1>1, <2>1, RangeHeadTail, InjectiveTail
<1>3. m \notin Range(inbox[s])
  <2>1. s \in Agents /\ ~(s < s)
    BY <1>1, NumAgentsAssumption DEF Agents
  <2>2. m \in Range(b)
    BY <1>2
  <2>. QED  BY <2>1, <2>2 DEF Custody, DeliveryFrontier
<1>4. ASSUME NEW a \in Agents
      PROVE  /\ IsInjective(inbox'[a])
             /\ Range(inbox'[a]) \subseteq Range(inbox[a]) \union {m}
             /\ a # s => inbox'[a] = inbox[a]
  <2>1. CASE inbox'[a] = inbox[a]
    BY <2>1 DEF Custody, AtMostOnce
  <2>2. CASE a = s /\ inbox'[a] = Append(inbox[a], m)
    BY <2>2, <1>1, <1>2, <1>3, RangeAppend, InjectiveAppend DEF Custody, AtMostOnce
  <2>3. inbox'[a] = inbox[a] \/ (a = s /\ inbox'[a] = Append(inbox[a], m))
    BY DEF TypeOK
  <2>. QED  BY <2>1, <2>2, <2>3
<1>5. /\ IsInjective(loop'[l].batch)
      /\ Range(loop'[l].batch) \subseteq Range(b)
  BY <1>2, EmptyQueue DEF Custody, SingleCustody
<1>6. /\ m \notin Range(queue) /\ m \notin Range(stored) /\ m \in Range(posted)
      /\ \A k \in Loops \ {l} : m \notin Range(loop[k].batch)
  BY <1>2 DEF Custody, SingleCustody, NothingInvented
<1>7. SingleCustody'
  <2>1. /\ IsInjective(queue) /\ IsInjective(stored) /\ Range(queue) \intersect Range(stored) = {}
        /\ \A a \in Agents : Range(inbox'[a]) \intersect (Range(queue) \union Range(stored)) = {}
    BY <1>4, <1>6 DEF Custody, SingleCustody
  <2>2. \A k \in Loops :
            /\ IsInjective(loop'[k].batch)
            /\ Range(loop'[k].batch) \subseteq Range(loop[k].batch)
    BY <1>5 DEF Custody, SingleCustody
  <2>. HIDE DEF b, m, s
  <2>3. \A k \in Loops : Range(loop'[k].batch) \intersect (Range(queue) \union Range(stored)) = {}
    BY <2>2 DEF Custody, SingleCustody
  <2>4. \A k \in Loops : \A j \in Loops \ {k} :
            Range(loop'[k].batch) \intersect Range(loop'[j].batch) = {}
    BY <2>2 DEF Custody, SingleCustody
  <2>. QED  BY <2>1, <2>2, <2>3, <2>4 DEF SingleCustody
<1>8. AtMostOnce'
  BY <1>4 DEF AtMostOnce
<1>9. NothingInvented'
  BY <1>4, <1>5, <1>6 DEF Custody, NothingInvented
<1>10. DeliveryFrontier'
  <2>. SUFFICES ASSUME NEW a \in Agents, NEW k \in Loops,
                       NEW x \in Range(inbox'[a]), x \in Range(loop'[k].batch)
                PROVE  a < loop'[k].to /\ x = Head(loop'[k].batch)
    BY DEF DeliveryFrontier
  <2>1. CASE k # l
    <3>1. x \in Range(inbox[a]) /\ loop'[k] = loop[k]
      BY <2>1, <1>4, <1>6
    <3>. QED  BY <3>1 DEF Custody, DeliveryFrontier
  <2>2. CASE k = l
    <3>1. x = m /\ (a < s \/ a = s)
      <4>1. x \in Range(b)
        BY <2>2, <1>5
      <4>2. CASE x \in Range(inbox[a])
        BY <4>1, <4>2 DEF Custody, DeliveryFrontier
      <4>3. CASE x \notin Range(inbox[a])
        BY <4>3, <1>4
      <4>. QED  BY <4>2, <4>3
    <3>2. loop'[l].batch = b /\ loop'[l].to = s + 1
      BY <2>2, <3>1, <1>2, EmptyQueue
    <3>. QED  BY <2>2, <3>1, <3>2, <1>1 DEF Agents
  <2>. QED  BY <2>1, <2>2
<1>. QED  BY <1>7, <1>8, <1>9, <1>10 DEF Custody

-----------------------------------------------------------------------------
(* Every action preserves the invariant                                    *)

\* A new session satisfies the invariant.
LEMMA InitInv == Init => SessionInv
<1>. SUFFICES ASSUME Init PROVE SessionInv
  OBVIOUS
<1>. USE DEF Init
<1>1. \A l \in Loops : loop[l] = LoopAt("idle", 0, FALSE, <<>>)
  OBVIOUS
<1>2. LoopAt("idle", 0, FALSE, <<>>) \in LoopStates
  <2>1. 1 \in Agents /\ 1 \in Steps /\ <<>> \in Seq(Messages)
    BY NumAgentsAssumption DEF Agents, Steps
  <2>. QED  BY <2>1 DEF LoopStates, LoopAt
<1>3. TypeOK
  <2>1. loop \in [Loops -> LoopStates]
    BY <1>1, <1>2
  <2>2. /\ stored \in Seq(Messages) /\ queue \in Seq(Messages) /\ posted \in Seq(Messages)
        /\ inbox \in [Agents -> Seq(Messages)]
    OBVIOUS
  <2>3. live \in BOOLEAN
    OBVIOUS
  <2>. QED  BY <2>1, <2>2, <2>3 DEF TypeOK, Statuses
<1>4. \A l \in Loops : loop[l].batch = <<>> /\ loop[l].pc = "idle"
  BY <1>1 DEF LoopAt
<1>5. BatchesMatchPc /\ DeletedHasNoQueue
  BY <1>4 DEF BatchesMatchPc, DeletedHasNoQueue
<1>6. Custody
  BY <1>4, EmptyQueue DEF Custody, SingleCustody, AtMostOnce, NothingInvented, DeliveryFrontier
<1>. QED  BY <1>3, <1>5, <1>6 DEF SessionInv

\* A posted message goes to one place that is new to it.
LEMMA PostInv ==
    ASSUME SessionInv, NEW m \in Messages, NEW viaSocket \in BOOLEAN, Post(m, viaSocket)
    PROVE  SessionInv'
<1>1. /\ Enqueue(m) \/ Store(m)
      /\ live /\ m \notin Range(posted) /\ posted' = Append(posted, m)
      /\ UNCHANGED <<live, status, currentIteration, scores, exchanges, replies, loop, inbox>>
  BY DEF Post
<1>2. TypeOK'
  <2>1. queue' \in Seq(Messages) /\ stored' \in Seq(Messages) /\ posted' \in Seq(Messages)
    <3>1. queue \in Seq(Messages) /\ stored \in Seq(Messages) /\ posted \in Seq(Messages)
      BY DEF SessionInv, TypeOK
    <3>2. /\ posted' = Append(posted, m)
          /\ queue' \in {queue, Append(queue, m)} /\ stored' \in {stored, Append(stored, m)}
      BY <1>1 DEF Enqueue, Store
    <3>3. Append(queue, m) \in Seq(Messages) /\ Append(stored, m) \in Seq(Messages)
      BY <3>1
    <3>4. Append(posted, m) \in Seq(Messages)
      BY <3>1
    <3>. QED  BY <3>1, <3>2, <3>3, <3>4
  <2>. QED  BY <1>1, <2>1 DEF SessionInv, TypeOK
<1>3. Custody'
  BY <1>1, CustodyPosted DEF SessionInv
<1>4. BatchesMatchPc' /\ DeletedHasNoQueue'
  BY <1>1 DEF SessionInv, BatchesMatchPc, DeletedHasNoQueue
<1>. QED  BY <1>2, <1>3, <1>4 DEF SessionInv

\* A flush moves the queue to the stored messages.
LEMMA FlushQueueInv == SessionInv /\ FlushQueue => SessionInv'
<1>. SUFFICES ASSUME SessionInv, FlushQueue PROVE SessionInv'
  OBVIOUS
<1>1. TypeOK'
  BY RangeConcat DEF SessionInv, FlushQueue, TypeOK
<1>2. Custody'
  BY CustodyFlushed DEF SessionInv, FlushQueue
<1>3. BatchesMatchPc' /\ DeletedHasNoQueue'
  BY DEF SessionInv, FlushQueue, BatchesMatchPc, DeletedHasNoQueue
<1>. QED  BY <1>1, <1>2, <1>3 DEF SessionInv

\* A deletion drops the queue and nothing else.
LEMMA DeleteInv == SessionInv /\ Delete => SessionInv'
<1>. SUFFICES ASSUME SessionInv, Delete PROVE SessionInv'
  OBVIOUS
<1>1. TypeOK'
  <2>1. queue' = <<>> /\ live' = FALSE
    BY DEF Delete
  <2>2. queue' \in Seq(Messages)
    BY <2>1
  <2>3. live' \in BOOLEAN
    BY <2>1
  <2>. QED  BY <2>2, <2>3 DEF SessionInv, Delete, TypeOK
<1>2. Custody'
  BY CustodyFlushed DEF SessionInv, Delete
<1>3. BatchesMatchPc' /\ DeletedHasNoQueue'
  BY DEF SessionInv, Delete, BatchesMatchPc, DeletedHasNoQueue
<1>. QED  BY <1>1, <1>2, <1>3 DEF SessionInv

\* Steps that only move the loop forward: no batch changes, nor the place in
\* one, and no message moves.
LEMMA ControlInv ==
    ASSUME SessionInv, NEW l \in Loops, NEW r \in LoopStates,
           loop' = [loop EXCEPT ![l] = r],
           r.batch = <<>> /\ r.pc # "flush" /\ loop[l].batch = <<>>,
           status' \in Statuses, currentIteration' \in Nat, scores' \in Nat, exchanges' \in Nat,
           UNCHANGED <<live, replies, stored, queue, posted, inbox>>
    PROVE  SessionInv'
<1>1. TypeOK'
  BY DEF SessionInv, TypeOK
<1>2. loop'[l] = r /\ \A k \in Loops \ {l} : loop'[k] = loop[k]
  BY DEF SessionInv, TypeOK
<1>3. \A k \in Loops : /\ loop'[k].batch = loop[k].batch
                       /\ loop[k].batch # <<>> => loop'[k].to = loop[k].to
  BY <1>2
<1>4. Custody'
  BY <1>3, CustodyKept DEF SessionInv
<1>5. BatchesMatchPc' /\ DeletedHasNoQueue'
  BY <1>2 DEF SessionInv, BatchesMatchPc, DeletedHasNoQueue
<1>. QED  BY <1>1, <1>4, <1>5 DEF SessionInv

\* A start moves no message.
LEMMA StartTeachingInv ==
    ASSUME SessionInv, NEW l \in Loops, StartTeaching(l)
    PROVE  SessionInv'
<1> DEFINE r == [loop[l] EXCEPT !.pc = "scheduled"]
<1>1. r \in LoopStates /\ r.batch = loop[l].batch /\ r.pc = "scheduled"
  BY DEF SessionInv, TypeOK, LoopStates
<1>2. loop[l].batch = <<>> /\ loop' = [loop EXCEPT ![l] = r]
  BY DEF StartTeaching, SessionInv, BatchesMatchPc
<1>. HIDE DEF r
<1>. QED  BY <1>1, <1>2, ControlInv DEF StartTeaching, SessionInv, TypeOK

\* A loop begins without a batch.
LEMMA BeginInv ==
    ASSUME SessionInv, NEW l \in Loops, Begin(l)
    PROVE  SessionInv'
<1>1. loop[l].batch = <<>>
  BY DEF Begin, SessionInv, BatchesMatchPc
<1>2. UNCHANGED <<live, scores, exchanges, replies, stored, queue, posted, inbox>>
  BY DEF Begin
<1>3. CASE AfterIteration(l, 0, FALSE, "active")
  <2>1. /\ loop' \in [Loops -> LoopStates]
        /\ status' \in Statuses /\ currentIteration' \in Nat
        /\ \A k \in Loops \ {l} : loop'[k] = loop[k]
        /\ loop'[l].batch = <<>> /\ loop'[l].pc # "flush"
    BY <1>3, AfterIterationEffect DEF SessionInv, Statuses
  <2>2. loop' = [loop EXCEPT ![l] = loop'[l]]
    BY <2>1 DEF SessionInv, TypeOK
  <2>. QED  BY <1>1, <1>2, <2>1, <2>2, ControlInv DEF SessionInv, TypeOK
<1>4. CASE loop' = [loop EXCEPT ![l].pc = "rejected"] /\ UNCHANGED <<status, currentIteration>>
  <2> DEFINE r == [loop[l] EXCEPT !.pc = "rejected"]
  <2>1. r \in LoopStates /\ r.batch = loop[l].batch /\ r.pc = "rejected"
    BY DEF SessionInv, TypeOK, LoopStates
  <2>2. loop' = [loop EXCEPT ![l] = r]
    BY <1>4
  <2>. HIDE DEF r
  <2>. QED  BY <1>1, <1>2, <1>4, <2>1, <2>2, ControlInv DEF SessionInv, TypeOK
<1>. QED  BY <1>3, <1>4 DEF Begin

\* A recorded answer moves no message.
LEMMA ReplyInv ==
    ASSUME SessionInv, NEW l \in Loops, Reply(l)
    PROVE  SessionInv'
<1> DEFINE r == [loop[l] EXCEPT !.step = @ + 1]
<1>1. r \in LoopStates /\ r.batch = loop[l].batch /\ r.pc = loop[l].pc
  <2>1. loop[l] \in LoopStates /\ loop[l].step < 6
    BY DEF Reply, SessionInv, TypeOK
  <2>2. loop[l].step + 1 \in Steps \union {7}
    BY <2>1 DEF LoopStates, Steps
  <2>. QED  BY <2>1, <2>2 DEF LoopStates
<1>2. loop[l].batch = <<>> /\ loop[l].pc # "flush" /\ loop' = [loop EXCEPT ![l] = r]
  BY DEF Reply, SessionInv, BatchesMatchPc
<1>3. exchanges' \in Nat
  BY DEF Reply, Counted, SessionInv, TypeOK
<1>. HIDE DEF r
<1>. QED  BY <1>1, <1>2, <1>3, ControlInv DEF Reply, SessionInv, TypeOK

\* A loop that fails has no batch to lose.
LEMMA FailInv ==
    ASSUME SessionInv, NEW l \in Loops, Fail(l) \/ ScoreFails(l)
    PROVE  SessionInv'
<1>1. PICK r \in LoopStates : /\ loop' = [loop EXCEPT ![l] = r]
                              /\ r.batch = loop[l].batch /\ r.pc = "failed"
  <2>1. CASE Fail(l)
    <3> DEFINE r == [loop[l] EXCEPT !.pc = "failed"]
    <3>1. r \in LoopStates /\ r.batch = loop[l].batch /\ r.pc = "failed"
      BY DEF SessionInv, TypeOK, LoopStates
    <3>2. loop' = [loop EXCEPT ![l] = r]
      BY <2>1 DEF Fail
    <3>. QED  BY <3>1, <3>2
  <2>2. CASE ScoreFails(l)
    <3> DEFINE r == [loop[l] EXCEPT !.pc = "failed", !.step = 7]
    <3>1. r \in LoopStates /\ r.batch = loop[l].batch /\ r.pc = "failed"
      BY DEF SessionInv, TypeOK, LoopStates
    <3>2. loop' = [loop EXCEPT ![l] = r]
      BY <2>2 DEF ScoreFails
    <3>. QED  BY <3>1, <3>2
  <2>. QED  BY <2>1, <2>2
<1>2. loop[l].batch = <<>>
  BY DEF Fail, ScoreFails, SessionInv, BatchesMatchPc
<1>3. status' \in Statuses /\ exchanges' \in Nat
  BY DEF Fail, ScoreFails, SetStatus, Counted, SessionInv, TypeOK, Statuses
<1>. QED  BY <1>1, <1>2, <1>3, ControlInv DEF Fail, ScoreFails, SessionInv, TypeOK

\* Scoring takes over the queue, into the batch of the loop.
LEMMA ScoreInv ==
    ASSUME SessionInv, NEW l \in Loops, NEW passed \in BOOLEAN, Score(l, passed)
    PROVE  SessionInv'
<1>1. /\ loop[l].batch = <<>> /\ loop[l].iteration \in Nat
      /\ SetStatus("active") \in Statuses
      /\ exchanges' \in Nat /\ scores' \in Nat
      /\ UNCHANGED <<live, replies, stored, posted, inbox>> /\ queue' = <<>>
  BY DEF Score, SessionInv, BatchesMatchPc, TypeOK, LoopStates, SetStatus, Statuses, Counted
<1>2. CASE queue = <<>> /\ AfterIteration(l, loop[l].iteration, passed, SetStatus("active"))
  <2>1. /\ loop' \in [Loops -> LoopStates]
        /\ status' \in Statuses /\ currentIteration' \in Nat
        /\ \A k \in Loops \ {l} : loop'[k] = loop[k]
        /\ loop'[l].batch = <<>> /\ loop'[l].pc # "flush"
    BY <1>1, <1>2, AfterIterationEffect DEF SessionInv
  <2>2. loop' = [loop EXCEPT ![l] = loop'[l]]
    BY <2>1 DEF SessionInv, TypeOK
  <2>. QED  BY <1>1, <1>2, <2>1, <2>2, ControlInv DEF SessionInv, TypeOK
<1>3. CASE /\ queue # <<>>
           /\ loop' = [loop EXCEPT ![l] = LoopAt("flush", loop[l].iteration, passed, queue)]
           /\ status' = SetStatus("active")
           /\ UNCHANGED currentIteration
  <2> DEFINE r == LoopAt("flush", loop[l].iteration, passed, queue)
  <2>1. r \in LoopStates
    <3>1. 1 \in Agents /\ 1 \in Steps /\ queue \in Seq(Messages)
      BY NumAgentsAssumption DEF Agents, Steps, SessionInv, TypeOK
    <3>. QED  BY <1>1, <3>1 DEF LoopStates, LoopAt
  <2>2. r.batch = queue /\ r.pc = "flush"
    BY DEF LoopAt
  <2>3. loop' = [loop EXCEPT ![l] = r]
    BY <1>3
  <2>. HIDE DEF r
  <2>4. loop'[l] = r /\ \A k \in Loops \ {l} : loop'[k] = loop[k]
    BY <2>3 DEF SessionInv, TypeOK
  <2>5. TypeOK'
    BY <1>1, <1>3, <2>1, <2>3 DEF SessionInv, TypeOK
  <2>6. Custody'
    BY <1>1, <2>2, <2>4, CustodyDrained DEF SessionInv
  <2>7. BatchesMatchPc' /\ DeletedHasNoQueue'
    BY <1>1, <1>3, <2>2, <2>4 DEF SessionInv, BatchesMatchPc, DeletedHasNoQueue
  <2>. QED  BY <2>5, <2>6, <2>7 DEF SessionInv
<1>. QED  BY <1>2, <1>3 DEF Score

\* A delivery puts one message before one agent, or before nobody.
LEMMA DeliverInv ==
    ASSUME SessionInv, NEW l \in Loops, NEW outcome \in Deliveries, Deliver(l, outcome)
    PROVE  SessionInv'
<1> DEFINE b == loop[l].batch
<1>1. /\ b \in Seq(Messages) /\ b # <<>> /\ loop[l].pc = "flush"
      /\ loop[l].to \in Agents /\ loop[l].iteration \in Nat /\ loop[l].passed \in BOOLEAN
      /\ loop[l] \in LoopStates
  BY DEF Deliver, SessionInv, BatchesMatchPc, TypeOK, LoopStates
<1>2. /\ UNCHANGED <<live, scores, exchanges, stored, queue, posted>>
      /\ replies' \in Nat
      /\ \/ inbox' = inbox
         \/ inbox' = [inbox EXCEPT ![loop[l].to] = Append(@, Head(loop[l].batch))]
  BY DEF Deliver, Counted, SessionInv, TypeOK
<1>3. inbox' \in [Agents -> Seq(Messages)]
  <2>1. Head(b) \in Messages
    BY <1>1
  <2>. HIDE DEF b
  <2>2. \A a \in Agents : Append(inbox[a], Head(b)) \in Seq(Messages)
    BY <2>1 DEF SessionInv, TypeOK
  <2>. QED  BY <1>2, <2>2 DEF SessionInv, TypeOK, b
<1>4. /\ loop' \in [Loops -> LoopStates] /\ status' \in Statuses /\ currentIteration' \in Nat
      /\ \A k \in Loops \ {l} : loop'[k] = loop[k]
      /\ \/ loop'[l].batch = b /\ loop'[l].to = loop[l].to + 1
         \/ loop'[l].batch = Tail(b)
         \/ loop'[l].batch = <<>>
      /\ loop'[l].pc = "flush" <=> loop'[l].batch # <<>>
  <2>1. CASE /\ loop[l].to < NumAgents
             /\ loop' = [loop EXCEPT ![l].to = @ + 1]
             /\ UNCHANGED <<status, currentIteration>>
    <3> DEFINE r == [loop[l] EXCEPT !.to = @ + 1]
    <3>1. r \in LoopStates /\ r.batch = b /\ r.pc = "flush" /\ r.to = loop[l].to + 1
      <4>1. loop[l].to + 1 \in Agents
        BY <1>1, <2>1, NumAgentsAssumption DEF Agents
      <4>. QED  BY <1>1, <4>1 DEF LoopStates
    <3>2. loop' = [loop EXCEPT ![l] = r]
      BY <2>1
    <3>. HIDE DEF r
    <3>. QED  BY <1>1, <2>1, <3>1, <3>2 DEF SessionInv, TypeOK
  <2>2. CASE /\ Tail(b) # <<>>
             /\ loop' = [loop EXCEPT ![l].to = 1, ![l].batch = Tail(@)]
             /\ UNCHANGED <<status, currentIteration>>
    <3> DEFINE r == [loop[l] EXCEPT !.to = 1, !.batch = Tail(@)]
    <3>1. r \in LoopStates /\ r.batch = Tail(b) /\ r.pc = "flush"
      <4>1. 1 \in Agents /\ Tail(b) \in Seq(Messages)
        BY <1>1, NumAgentsAssumption DEF Agents
      <4>. QED  BY <1>1, <4>1 DEF LoopStates
    <3>2. loop' = [loop EXCEPT ![l] = r]
      BY <2>2
    <3>. HIDE DEF r
    <3>. QED  BY <2>2, <3>1, <3>2 DEF SessionInv, TypeOK
  <2>3. CASE AfterIteration(l, loop[l].iteration, loop[l].passed, status)
    BY <1>1, <2>3, AfterIterationEffect DEF SessionInv, TypeOK
  <2>. QED  BY <2>1, <2>2, <2>3 DEF Deliver, Advance
<1>5. TypeOK'
  BY <1>2, <1>3, <1>4 DEF SessionInv, TypeOK
<1>6. Custody'
  BY <1>1, <1>2, <1>4, CustodyDelivered DEF SessionInv
<1>7. BatchesMatchPc' /\ DeletedHasNoQueue'
  BY <1>2, <1>4 DEF SessionInv, BatchesMatchPc, DeletedHasNoQueue
<1>. QED  BY <1>5, <1>6, <1>7 DEF SessionInv

\* So does any step of a loop.
LEMMA LoopStepInv ==
    ASSUME SessionInv, NEW l \in Loops, LoopStep(l)
    PROVE  SessionInv'
BY BeginInv, ReplyInv, ScoreInv, FailInv, DeliverInv DEF LoopStep

\* And any step of the session.
LEMMA NextInv == SessionInv /\ [Next]_vars => SessionInv'
<1>. SUFFICES ASSUME SessionInv, [Next]_vars PROVE SessionInv'
  OBVIOUS
<1>1. ASSUME NEW m \in Messages, NEW viaSocket \in BOOLEAN, Post(m, viaSocket)
      PROVE  SessionInv'
  BY <1>1, PostInv
<1>2. ASSUME NEW l \in Loops, StartTeaching(l) PROVE SessionInv'
  BY <1>2, StartTeachingInv
<1>3. ASSUME NEW l \in Loops, LoopStep(l) PROVE SessionInv'
  BY <1>3, LoopStepInv
<1>4. CASE UNCHANGED vars
  BY <1>4 DEF vars, SessionInv, TypeOK, BatchesMatchPc, DeletedHasNoQueue, Custody,
              SingleCustody, AtMostOnce, NothingInvented, DeliveryFrontier
<1>. QED  BY <1>1, <1>2, <1>3, <1>4, FlushQueueInv, DeleteInv DEF Next

\* A session with a busy status keeps a running loop: the loop that leaves
\* takes the status with it, whatever other loops run.
LEMMA BusyInv == SessionInv /\ QueueingNeedsLoop /\ [Next]_vars => QueueingNeedsLoop'
<1>. SUFFICES ASSUME SessionInv, QueueingNeedsLoop, [Next]_vars, live', Busy'
              PROVE  \E l \in Loops : Running(l)'
  BY DEF QueueingNeedsLoop
<1>1. ASSUME NEW l \in Loops, UNCHANGED <<live, status>>,
             \A k \in Loops \ {l} : loop'[k] = loop[k], Running(l) => Running(l)'
      PROVE  \E k \in Loops : Running(k)'
  BY <1>1 DEF QueueingNeedsLoop, Busy, Running
<1>2. ASSUME UNCHANGED <<live, status, loop>> PROVE \E l \in Loops : Running(l)'
  BY <1>2 DEF QueueingNeedsLoop, Busy, Running
<1>3. ASSUME NEW l \in Loops, StartTeaching(l) PROVE \E k \in Loops : Running(k)'
  BY <1>1, <1>3 DEF StartTeaching, Running, SessionInv, TypeOK
<1>4. ASSUME NEW l \in Loops, NEW i \in Nat, NEW passed \in BOOLEAN, NEW st \in Statuses,
             AfterIteration(l, i, passed, st), UNCHANGED live
      PROVE  \E k \in Loops : Running(k)'
  <2>1. CASE loop'[l].pc = "exchange"
    BY <2>1 DEF Running
  <2>2. CASE status' = SetStatus("completed")
    BY <1>4, <2>2 DEF SetStatus, Busy
  <2>. QED  BY <1>4, <2>1, <2>2, AfterIterationEffect DEF SessionInv
<1>5. ASSUME NEW l \in Loops, Begin(l) PROVE \E k \in Loops : Running(k)'
  <2>1. live /\ AfterIteration(l, 0, FALSE, "active") /\ UNCHANGED live
    BY <1>5 DEF Begin
  <2>. QED  BY <1>4, <2>1 DEF Statuses
<1>6. ASSUME NEW l \in Loops, Reply(l) PROVE \E k \in Loops : Running(k)'
  BY <1>1, <1>6 DEF Reply, Running, SessionInv, TypeOK, LoopStates
<1>7. ASSUME NEW l \in Loops, NEW passed \in BOOLEAN, Score(l, passed)
      PROVE  \E k \in Loops : Running(k)'
  <2>1. CASE queue = <<>>
    <3>1. /\ AfterIteration(l, loop[l].iteration, passed, SetStatus("active"))
          /\ UNCHANGED live
          /\ loop[l].iteration \in Nat /\ SetStatus("active") \in Statuses
      BY <1>7, <2>1 DEF Score, SessionInv, TypeOK, LoopStates, SetStatus, Statuses
    <3>. QED  BY <1>4, <3>1
  <2>2. CASE queue # <<>>
    <3>1. loop' = [loop EXCEPT ![l] = LoopAt("flush", loop[l].iteration, passed, queue)]
      BY <1>7, <2>2 DEF Score
    <3>2. loop'[l].pc = "flush"
      BY <3>1 DEF SessionInv, TypeOK, LoopAt
    <3>. QED  BY <3>2 DEF Running
  <2>. QED  BY <2>1, <2>2
<1>8. ASSUME NEW l \in Loops, Fail(l) \/ ScoreFails(l) PROVE FALSE
  BY <1>8 DEF Fail, ScoreFails, SetStatus, Busy
<1>9. ASSUME NEW l \in Loops, NEW outcome \in Deliveries, Deliver(l, outcome)
      PROVE  \E k \in Loops : Running(k)'
  <2>1. /\ loop[l].iteration \in Nat /\ loop[l].passed \in BOOLEAN /\ status \in Statuses
        /\ UNCHANGED live
    BY <1>9 DEF Deliver, SessionInv, TypeOK, LoopStates
  <2>2. CASE AfterIteration(l, loop[l].iteration, loop[l].passed, status)
    BY <1>4, <2>1, <2>2
  <2>3. CASE ~ AfterIteration(l, loop[l].iteration, loop[l].passed, status)
    <3>1. \/ loop' = [loop EXCEPT ![l].to = @ + 1]
          \/ loop' = [loop EXCEPT ![l].to = 1, ![l].batch = Tail(@)]
      BY <1>9, <2>3 DEF Deliver, Advance
    <3>2. loop'[l].pc = "flush"
      BY <1>9, <3>1 DEF Deliver, SessionInv, TypeOK, LoopStates
    <3>. QED  BY <3>2 DEF Running
  <2>. QED  BY <2>2, <2>3
<1>10. CASE Delete
  BY <1>10 DEF Delete
<1>11. ASSUME NEW l \in Loops, LoopStep(l) PROVE \E k \in Loops : Running(k)'
  BY <1>5, <1>6, <1>7, <1>8, <1>9, <1>11 DEF LoopStep
<1>. QED  BY <1>2, <1>3, <1>10, <1>11 DEF Next, Post, FlushQueue, vars

\* A step of a loop that no other loop accompanies leaves the session busy as
\* long as the loop runs.
LEMMA LoneLoopInv == SessionInv /\ LoopKeepsSessionBusy /\ [Next]_vars => LoopKeepsSessionBusy'
<1>. SUFFICES ASSUME SessionInv, LoopKeepsSessionBusy, [Next]_vars, Alone',
                     NEW l \in Loops, live', Running(l)'
              PROVE  Busy'
  BY DEF LoopKeepsSessionBusy, BusyWhileTeaching
<1>1. ASSUME NEW k \in Loops, loop'[k].pc # "idle",
             \A j \in Loops \ {k} : loop'[j] = loop[j]
      PROVE  k = l /\ (live /\ Running(l) => Busy)
  <2>1. k = l
    BY <1>1 DEF Alone, Running
  <2>2. Alone
    BY <1>1 DEF Alone
  <2>. QED  BY <2>1, <2>2 DEF LoopKeepsSessionBusy, BusyWhileTeaching
<1>2. ASSUME UNCHANGED loop, live' => live /\ status' = status PROVE Busy'
  BY <1>2 DEF LoopKeepsSessionBusy, BusyWhileTeaching, Alone, Running, Busy
<1>3. ASSUME NEW k \in Loops, NEW i \in Nat, NEW passed \in BOOLEAN, NEW st \in Statuses,
             AfterIteration(k, i, passed, st)
      PROVE  k = l /\ status' = st /\ (live /\ Running(l) => Busy)
  <2>1. /\ \A j \in Loops \ {k} : loop'[j] = loop[j]
        /\ \/ loop'[k].pc = "exchange" /\ status' = st
           \/ loop'[k].pc = "completed"
    BY <1>3, AfterIterationEffect DEF SessionInv
  <2>2. k = l /\ (live /\ Running(l) => Busy)
    BY <1>1, <2>1
  <2>. QED  BY <2>1, <2>2 DEF Running
<1>4. ASSUME NEW k \in Loops, StartTeaching(k) PROVE FALSE
  <2>1. loop'[k].pc = "scheduled" /\ \A j \in Loops \ {k} : loop'[j] = loop[j]
    BY <1>4 DEF StartTeaching, SessionInv, TypeOK, LoopStates
  <2>. QED  BY <1>1, <2>1 DEF Running
<1>5. ASSUME NEW k \in Loops, Begin(k) PROVE Busy'
  <2>1. live /\ AfterIteration(k, 0, FALSE, "active")
    BY <1>5 DEF Begin
  <2>. QED  BY <1>3, <2>1 DEF Statuses, Busy
<1>6. ASSUME NEW k \in Loops, Reply(k) PROVE Busy'
  <2>1. /\ loop'[k].pc = "exchange" /\ loop[k].pc = "exchange"
        /\ \A j \in Loops \ {k} : loop'[j] = loop[j]
    BY <1>6 DEF Reply, SessionInv, TypeOK, LoopStates
  <2>. QED  BY <1>1, <1>6, <2>1 DEF Reply, Running, Busy
<1>7. ASSUME NEW k \in Loops, NEW passed \in BOOLEAN, Score(k, passed) PROVE Busy'
  <2>1. live /\ SetStatus("active") = "active" /\ loop[k].iteration \in Nat
    BY <1>7 DEF Score, SetStatus, SessionInv, TypeOK, LoopStates
  <2>2. CASE queue = <<>>
    <3>1. AfterIteration(k, loop[k].iteration, passed, "active")
      BY <1>7, <2>1, <2>2 DEF Score
    <3>. QED  BY <1>3, <2>1, <3>1 DEF Statuses, Busy
  <2>3. CASE queue # <<>>
    BY <1>7, <2>1, <2>3 DEF Score, Busy
  <2>. QED  BY <2>2, <2>3
<1>8. ASSUME NEW k \in Loops, Fail(k) \/ ScoreFails(k) PROVE FALSE
  <2>1. loop'[k].pc = "failed" /\ \A j \in Loops \ {k} : loop'[j] = loop[j]
    BY <1>8 DEF Fail, ScoreFails, SessionInv, TypeOK, LoopStates
  <2>. QED  BY <1>1, <2>1 DEF Running
<1>9. ASSUME NEW k \in Loops, NEW outcome \in Deliveries, Deliver(k, outcome) PROVE Busy'
  <2>1. /\ Running(k) /\ live /\ status \in Statuses
        /\ loop[k].iteration \in Nat /\ loop[k].passed \in BOOLEAN
    BY <1>9 DEF Deliver, Running, SessionInv, TypeOK, LoopStates
  <2>2. CASE AfterIteration(k, loop[k].iteration, loop[k].passed, status)
    BY <1>3, <2>1, <2>2 DEF Busy
  <2>3. CASE ~ AfterIteration(k, loop[k].iteration, loop[k].passed, status)
    <3>1. /\ \/ loop' = [loop EXCEPT ![k].to = @ + 1]
             \/ loop' = [loop EXCEPT ![k].to = 1, ![k].batch = Tail(@)]
          /\ status' = status
      BY <1>9, <2>3 DEF Deliver, Advance
    <3>2. loop'[k].pc # "idle" /\ \A j \in Loops \ {k} : loop'[j] = loop[j]
      BY <2>1, <3>1 DEF Running, SessionInv, TypeOK, LoopStates
    <3>. QED  BY <1>1, <2>1, <3>1, <3>2 DEF Busy
  <2>. QED  BY <2>2, <2>3
<1>10. ASSUME NEW k \in Loops, LoopStep(k) PROVE Busy'
  BY <1>5, <1>6, <1>7, <1>8, <1>9, <1>10 DEF LoopStep
<1>. QED  BY <1>2, <1>4, <1>10 DEF Next, Post, FlushQueue, Delete, vars

-----------------------------------------------------------------------------
(* The theorems                                                            *)

\* The invariant holds in every reachable state of every session.
THEOREM SessionInvariant == Spec => []SessionInv
<1>. QED  BY InitInv, NextInv, PTL DEF Spec

\* Status, counters, queue, messages and loops keep their types.
THEOREM SessionTypes == Spec => []TypeOK
<1>1. SessionInv => TypeOK
  BY DEF SessionInv
<1>. QED  BY <1>1, SessionInvariant, PTL

\* A user message is in one place at a time, and what still waits or is
\* stored has reached no agent, whatever loops, flushes and posts interleave.
THEOREM MessagesInOnePlace == Spec => []SingleCustody
<1>1. SessionInv => SingleCustody
  BY DEF SessionInv, Custody
<1>. QED  BY <1>1, SessionInvariant, PTL

\* No agent is handed the same user message twice, with any number of loops.
THEOREM AtMostOnceDelivery == Spec => []AtMostOnce
<1>1. SessionInv => AtMostOnce
  BY DEF SessionInv, Custody
<1>. QED  BY <1>1, SessionInvariant, PTL

\* The handlers queue messages only while some loop runs.
THEOREM BusySessionHasLoop == Spec => []QueueingNeedsLoop
<1>1. Init => QueueingNeedsLoop
  BY DEF Init, QueueingNeedsLoop, Busy
<1>. QED  BY <1>1, BusyInv, SessionInvariant, PTL DEF Spec

\* The loop of a session that has only one keeps the status by which handlers
\* queue messages, through every step up to its last.
THEOREM LoneLoopKeepsBusy == Spec => []LoopKeepsSessionBusy
<1>1. Init => LoopKeepsSessionBusy
  BY DEF Init, LoopKeepsSessionBusy, BusyWhileTeaching, Running, LoopAt
<1>. QED  BY <1>1, LoneLoopInv, SessionInvariant, PTL DEF Spec

\* Loops that go on after their session was deleted change nothing of it.
THEOREM DeletedSessionFrozen == Spec => DeletedIsFrozen
<1>1. ASSUME SessionInv, [Next]_vars, ~live
      PROVE  UNCHANGED <<live, status, currentIteration, exchanges, replies, stored, queue>>
  <2>1. queue = <<>>
    BY <1>1 DEF SessionInv, DeletedHasNoQueue
  <2>2. ASSUME NEW l \in Loops, NEW i, NEW passed, AfterIteration(l, i, passed, status)
        PROVE  UNCHANGED <<status, currentIteration>>
    BY <1>1, <2>2 DEF AfterIteration, Finish, NextIteration, SetStatus, Counted
  <2>3. ASSUME NEW l \in Loops, LoopStep(l)
        PROVE  UNCHANGED <<live, status, currentIteration, exchanges, replies, stored, queue>>
    <3>1. CASE Begin(l)
      BY <1>1, <3>1 DEF Begin
    <3>2. CASE Reply(l) \/ Fail(l) \/ ScoreFails(l)
      BY <1>1, <3>2 DEF Reply, Fail, ScoreFails, SetStatus, Counted
    <3>3. ASSUME NEW passed \in BOOLEAN, Score(l, passed)
          PROVE  UNCHANGED <<live, status, currentIteration, exchanges, replies, stored, queue>>
      BY <1>1, <2>1, <2>2, <3>3 DEF Score, SetStatus, Counted
    <3>4. ASSUME NEW outcome \in Deliveries, Deliver(l, outcome)
          PROVE  UNCHANGED <<live, status, currentIteration, exchanges, replies, stored, queue>>
      BY <1>1, <2>2, <3>4 DEF Deliver, Advance, Counted
    <3>. QED  BY <2>3, <3>1, <3>2, <3>3, <3>4 DEF LoopStep
  <2>. QED  BY <1>1, <2>3 DEF Next, Post, FlushQueue, Delete, StartTeaching, vars
<1>2. SessionInv /\ [Next]_vars =>
        [~live => UNCHANGED <<live, status, currentIteration, exchanges, replies, stored, queue>>]_vars
  BY <1>1
<1>. QED  BY <1>2, SessionInvariant, PTL DEF Spec, DeletedIsFrozen

-----------------------------------------------------------------------------
(* The session is a mailbox                                                *)

Out == UNION {Range(loop[l].batch) : l \in Loops}

-----------------------------------------------------------------------------
(* What a step of a loop does to the messages                              *)

MovesNothing ==
    /\ UNCHANGED <<queue, stored, posted, inbox>>
    /\ \A l \in Loops : loop'[l].batch = loop[l].batch

\* The loop takes over the queue.
Drains(l) ==
    /\ loop[l].batch = <<>> /\ loop'[l].batch = queue /\ queue' = <<>>
    /\ \A k \in Loops \ {l} : loop'[k] = loop[k]
    /\ UNCHANGED <<stored, posted, inbox>>

\* The loop is done with an attempt to deliver the first message of its batch,
\* with the whole message if it was the attempt at the last agent.
Attempts(l) ==
    LET m == Head(loop[l].batch)
    IN  /\ loop[l].batch # <<>>
        /\ inbox' \in {inbox, [inbox EXCEPT ![loop[l].to] = Append(@, m)]}
        /\ \/ loop'[l].batch = loop[l].batch
           \/ loop'[l].batch = Tail(loop[l].batch)
        /\ \A k \in Loops \ {l} : loop'[k] = loop[k]
        /\ UNCHANGED <<queue, stored, posted>>

\* After an iteration the loop has no batch.
LEMMA AfterIterationBatch ==
    ASSUME SessionInv, NEW l \in Loops, NEW i \in Nat, NEW passed \in BOOLEAN,
           NEW st \in Statuses, AfterIteration(l, i, passed, st)
    PROVE  loop'[l].batch = <<>> /\ \A k \in Loops \ {l} : loop'[k] = loop[k]
<1>. QED  BY AfterIterationEffect DEF SessionInv

\* A step of a loop moves nothing, drains the queue or attempts a delivery.
LEMMA LoopStepMoves ==
    ASSUME SessionInv, NEW l \in Loops, LoopStep(l)
    PROVE  MovesNothing \/ Drains(l) \/ Attempts(l)
<1>. USE DEF SessionInv, TypeOK, BatchesMatchPc
<1>1. CASE Begin(l)
  <2>1. loop[l].batch = <<>> /\ UNCHANGED <<queue, stored, posted, inbox>>
    BY <1>1 DEF Begin
  <2>2. CASE AfterIteration(l, 0, FALSE, "active")
    <3>1. loop'[l].batch = <<>> /\ \A k \in Loops \ {l} : loop'[k] = loop[k]
      BY <2>2, AfterIterationBatch DEF Statuses
    <3>. QED  BY <2>1, <3>1 DEF MovesNothing
  <2>3. CASE loop' = [loop EXCEPT ![l].pc = "rejected"]
    BY <2>1, <2>3 DEF MovesNothing, LoopStates
  <2>. QED  BY <1>1, <2>2, <2>3 DEF Begin
<1>2. CASE Reply(l)
  BY <1>2 DEF Reply, MovesNothing, LoopStates
<1>3. CASE Fail(l) \/ ScoreFails(l)
  <2>1. PICK r \in LoopStates : loop' = [loop EXCEPT ![l] = r] /\ r.batch = loop[l].batch
    <3>1. CASE Fail(l)
      <4> DEFINE r == [loop[l] EXCEPT !.pc = "failed"]
      <4>1. r \in LoopStates /\ r.batch = loop[l].batch
        BY DEF LoopStates
      <4>2. loop' = [loop EXCEPT ![l] = r]
        BY <3>1 DEF Fail
      <4>. QED  BY <4>1, <4>2
    <3>2. CASE ScoreFails(l)
      <4> DEFINE r == [loop[l] EXCEPT !.pc = "failed", !.step = 7]
      <4>1. r \in LoopStates /\ r.batch = loop[l].batch
        BY DEF LoopStates, Steps
      <4>2. loop' = [loop EXCEPT ![l] = r]
        BY <3>2 DEF ScoreFails
      <4>. QED  BY <4>1, <4>2
    <3>. QED  BY <1>3, <3>1, <3>2
  <2>2. UNCHANGED <<queue, stored, posted, inbox>>
    BY <1>3 DEF Fail, ScoreFails
  <2>. QED  BY <2>1, <2>2 DEF MovesNothing
<1>4. ASSUME NEW passed \in BOOLEAN, Score(l, passed)
      PROVE  MovesNothing \/ Drains(l)
  <2>1. /\ loop[l].batch = <<>> /\ queue' = <<>> /\ UNCHANGED <<stored, posted, inbox>>
        /\ loop[l].iteration \in Nat /\ SetStatus("active") \in Statuses
    BY <1>4 DEF Score, LoopStates, SetStatus, Statuses
  <2>2. CASE queue = <<>>
    <3>1. AfterIteration(l, loop[l].iteration, passed, SetStatus("active"))
      BY <1>4, <2>2 DEF Score
    <3>2. loop'[l].batch = <<>> /\ \A k \in Loops \ {l} : loop'[k] = loop[k]
      BY <2>1, <3>1, AfterIterationBatch
    <3>. QED  BY <2>1, <2>2, <3>2 DEF MovesNothing
  <2>3. CASE queue # <<>>
    <3>1. loop' = [loop EXCEPT ![l] = LoopAt("flush", loop[l].iteration, passed, queue)]
      BY <1>4, <2>3 DEF Score
    <3>2. loop'[l].batch = queue /\ \A k \in Loops \ {l} : loop'[k] = loop[k]
      BY <3>1 DEF LoopAt
    <3>. QED  BY <2>1, <3>2 DEF Drains
  <2>. QED  BY <2>2, <2>3
<1>5. ASSUME NEW outcome \in Deliveries, Deliver(l, outcome)
      PROVE  Attempts(l)
  <2>1. /\ loop[l].batch # <<>> /\ UNCHANGED <<queue, stored, posted>>
        /\ inbox' \in {inbox, [inbox EXCEPT ![loop[l].to] = Append(@, Head(loop[l].batch))]}
        /\ loop[l].iteration \in Nat /\ loop[l].passed \in BOOLEAN
    BY <1>5 DEF Deliver, LoopStates
  <2>2. CASE loop' = [loop EXCEPT ![l].to = @ + 1]
    BY <2>1, <2>2 DEF Attempts, LoopStates
  <2>3. CASE loop' = [loop EXCEPT ![l].to = 1, ![l].batch = Tail(@)]
    BY <2>1, <2>3 DEF Attempts, LoopStates
  <2>4. CASE /\ Tail(loop[l].batch) = <<>>
             /\ AfterIteration(l, loop[l].iteration, loop[l].passed, status)
    <3>1. loop'[l].batch = <<>> /\ \A k \in Loops \ {l} : loop'[k] = loop[k]
      BY <2>1, <2>4, AfterIterationBatch
    <3>. QED  BY <2>1, <2>4, <3>1 DEF Attempts
  <2>. QED  BY <1>5, <2>2, <2>3, <2>4 DEF Deliver, Advance
<1>. QED  BY <1>1, <1>2, <1>3, <1>4, <1>5 DEF LoopStep

-----------------------------------------------------------------------------
(* Each of them is a step of the mailbox                                   *)

\* Steps that move nothing are none of the mailbox.
LEMMA MovesNothingStutters ==
    ASSUME MovesNothing
    PROVE  UNCHANGED <<Range(posted), queue, stored, Out, inbox>>
<1>. QED  BY DEF MovesNothing, Out

\* Draining the queue is taking out its messages.
LEMMA DrainTakesOut ==
    ASSUME SessionInv, NEW l \in Loops, Drains(l)
    PROVE  Box!TakeOut
<1>1. /\ Range(loop[l].batch) = {} /\ Range(loop'[l].batch) = Range(queue)
      /\ \A k \in Loops \ {l} : Range(loop'[k].batch) = Range(loop[k].batch)
  BY EmptyQueue DEF Drains
<1>2. Out' = Out \union Range(queue)
  BY <1>1 DEF Out
<1>. QED  BY <1>2 DEF Box!TakeOut, Box!Range, Range, Out, Drains

\* The message attempted is being delivered, by this loop only, and has not
\* reached the agent before.
LEMMA AttemptTries ==
    ASSUME SessionInv, NEW l \in Loops, Attempts(l)
    PROVE  Box!Next
<1> DEFINE b == loop[l].batch
           m == Head(b)
           a == loop[l].to
           reached == inbox' # inbox
           last == loop'[l].batch # b
<1>1. /\ b \in Seq(Messages) /\ b # <<>> /\ IsInjective(b) /\ a \in Agents
  BY DEF Attempts, SessionInv, TypeOK, LoopStates, Custody, SingleCustody
<1>2. /\ m \in Messages /\ Range(b) = {m} \union Range(Tail(b)) /\ m \notin Range(Tail(b))
  <2>. HIDE DEF b
  <2>. QED  BY <1>1, RangeHeadTail, InjectiveTail
<1>3. m \in Out
  BY <1>2 DEF Out
<1>4. m \notin Range(inbox[a])
  <2>1. ~(a < a)
    BY <1>1, NumAgentsAssumption DEF Agents
  <2>. QED  BY <1>1, <1>2, <2>1 DEF SessionInv, Custody, DeliveryFrontier
<1>5. inbox' = IF reached THEN [inbox EXCEPT ![a] = Append(@, m)] ELSE inbox
  BY DEF Attempts
<1>6. \A k \in Loops \ {l} : loop'[k] = loop[k] /\ m \notin Range(loop[k].batch)
  BY <1>2 DEF Attempts, SessionInv, Custody, SingleCustody
<1>7. Out' = IF last THEN Out \ {m} ELSE Out
  <2>1. CASE last
    <3>1. Range(loop'[l].batch) = Range(b) \ {m}
      BY <1>2, <2>1 DEF Attempts
    <3>. HIDE DEF b, m, last
    <3>2. ASSUME NEW x PROVE x \in Out' <=> x \in Out /\ x # m
      BY <3>1, <1>6 DEF Out, b
    <3>. QED  BY <2>1, <3>2
  <2>2. CASE ~last
    BY <1>6, <2>2 DEF Out
  <2>. QED  BY <2>1, <2>2
<1>8. UNCHANGED <<queue, stored, posted>>
  BY DEF Attempts
<1>9. Box!Try(m, a, reached, last)
  <2>. HIDE DEF m, a, reached, last
  <2>. QED  BY <1>3, <1>4, <1>5, <1>7, <1>8 DEF Box!Try, Box!Range, Range, Out
<1>. HIDE DEF m, a
<1>. QED  BY <1>1, <1>2, <1>9 DEF Box!Next

\* A session is a mailbox for the messages of its clients: none is lost from
\* its books, doubled or brought back, whatever posts, flushes, deletions and
\* loops interleave.
THEOREM SessionIsMailbox == Spec => ImplementsMailbox
<1>1. Init => Box!Init
  <2>. SUFFICES ASSUME Init PROVE Box!Init
    OBVIOUS
  <2>1. \A l \in Loops : loop[l].batch = <<>>
    BY DEF Init, LoopAt
  <2>2. Range(posted) = {} /\ Out = {}
    BY <2>1, EmptyQueue DEF Init, Out
  <2>. QED  BY <2>2 DEF Init, Box!Init, Box!Range, Range, Out
<1>2. ASSUME SessionInv, [Next]_vars
      PROVE  Box!Next \/ UNCHANGED <<Range(posted), queue, stored, Out, inbox>>
  <2>1. ASSUME NEW m \in Messages, NEW viaSocket \in BOOLEAN, Post(m, viaSocket)
        PROVE  Box!Accept(m)
    <3>1. /\ posted \in Seq(Messages) /\ m \notin Range(posted)
          /\ posted' = Append(posted, m)
          /\ Enqueue(m) \/ Store(m)
          /\ UNCHANGED <<loop, inbox>>
      BY <1>2, <2>1 DEF Post, SessionInv, TypeOK
    <3>2. Range(posted') = Range(posted) \union {m}
      BY <3>1, RangeAppend
    <3>3. Out' = Out
      BY <3>1 DEF Out
    <3>. QED  BY <3>1, <3>2, <3>3 DEF Box!Accept, Box!Range, Range, Out, Enqueue, Store
  <2>2. CASE FlushQueue
    BY <2>2 DEF FlushQueue, Box!Next, Box!KeepAll
  <2>3. CASE Delete
    BY <2>3 DEF Delete, Box!Next, Box!DropAll
  <2>4. ASSUME NEW l \in Loops, StartTeaching(l) PROVE MovesNothing
    BY <1>2, <2>4 DEF StartTeaching, MovesNothing, SessionInv, TypeOK, LoopStates
  <2>5. ASSUME NEW l \in Loops, LoopStep(l) PROVE MovesNothing \/ Box!TakeOut \/ Box!Next
    BY <1>2, <2>5, LoopStepMoves, DrainTakesOut, AttemptTries
  <2>6. UNCHANGED vars => MovesNothing
    BY DEF vars, MovesNothing
  <2>7. Box!TakeOut => Box!Next
    BY DEF Box!Next
  <2>. QED  BY <1>2, <2>1, <2>2, <2>3, <2>4, <2>5, <2>6, <2>7, MovesNothingStutters
            DEF Next, Box!Next
<1>3. SessionInv /\ [Next]_vars => [Box!Next]_(Box!boxVars)
  BY <1>2 DEF Box!boxVars, Out, Box!Range, Range
<1>. QED  BY <1>1, <1>3, SessionInvariant, PTL DEF Spec, ImplementsMailbox, Box!Spec

-----------------------------------------------------------------------------
(* The books of the session                                                *)

\* The loops in a cycle, the steps of each one's cycle that it has recorded, and
\* what they add up to.
Cyc == {l \in Loops : InCycle(l)}
StepsDone == [l \in Loops |-> loop[l].step - 1]
Recorded == SumFunctionOnSet(StepsDone, Cyc)
Due(l) == IF InCycle(l) THEN loop[l].step - 1 ELSE 0
InCyc(l) == IF InCycle(l) THEN 1 ELSE 0

\* Only finitely many loops have been started.
CyclesInv == IsFiniteSet({l \in Loops : loop[l].pc # "idle"}) /\ CyclesAddUp

\* A step that changes one loop changes the sums by what that loop counts for.
LEMMA CountsChange ==
    ASSUME TypeOK, TypeOK', NEW l \in Loops, \A k \in Loops \ {l} : loop'[k] = loop[k],
           IsFiniteSet({k \in Loops : loop[k].pc # "idle"})
    PROVE  /\ IsFiniteSet({k \in Loops : loop'[k].pc # "idle"})
           /\ Recorded \in Int /\ Cardinality(Cyc) \in Nat
           /\ Recorded' = Recorded - Due(l) + Due(l)'
           /\ Cardinality(Cyc)' = Cardinality(Cyc) - InCyc(l) + InCyc(l)'
<1> DEFINE started == {k \in Loops : loop[k].pc # "idle"}
           others == Cyc \ {l}
<1>1. IsFiniteSet(started')
  <2>1. started' \subseteq started \union {l} /\ IsFiniteSet(started)
    OBVIOUS
  <2>. HIDE DEF started
  <2>. QED  BY <2>1, FS_AddElement, FS_Subset
<1>2. IsFiniteSet(Cyc) /\ IsFiniteSet(Cyc')
  <2>1. Cyc \subseteq started /\ Cyc' \subseteq started'
    BY DEF Cyc, InCycle
  <2>. QED  BY <1>1, <2>1, FS_Subset
<1>3. IsFiniteSet(others) /\ others' = others
  <2>1. others \subseteq Cyc /\ others' = others
    BY DEF Cyc, InCycle
  <2>. QED  BY <1>2, <2>1, FS_Subset
<1>4. /\ \A k \in Loops : StepsDone[k] \in Int /\ StepsDone'[k] \in Int
      /\ \A k \in others : StepsDone'[k] = StepsDone[k]
      /\ StepsDone[l] = loop[l].step - 1 /\ StepsDone'[l] = loop'[l].step - 1
  <2>1. \A k \in Loops : loop[k].step \in Int /\ loop'[k].step \in Int
    <3>1. loop \in [Loops -> LoopStates] /\ loop' \in [Loops -> LoopStates]
      BY DEF TypeOK
    <3>2. \A r \in LoopStates : r.step \in Int
      BY DEF LoopStates, Steps
    <3>. QED  BY <3>1, <3>2
  <2>2. others \subseteq Loops \ {l}
    BY DEF Cyc
  <2>. HIDE DEF others
  <2>. QED  BY <2>1, <2>2 DEF StepsDone
<1>5. others \subseteq Loops /\ Cyc \subseteq Loops /\ Cyc' \subseteq Loops
  BY DEF Cyc
<1> DEFINE rest == SumFunctionOnSet(StepsDone, others)
<1>6. rest \in Int /\ SumFunctionOnSet(StepsDone', others) = rest
  <2>1. \A k \in others : StepsDone[k] \in Int /\ StepsDone'[k] = StepsDone[k]
    BY <1>4, <1>5
  <2>. HIDE DEF others
  <2>. QED  BY <1>3, <2>1, SumType, SumAgree
<1>7. Recorded = Due(l) + rest
  <2>1. CASE InCycle(l)
    <3>1. l \in Cyc
      BY <2>1 DEF Cyc
    <3>2. Recorded = StepsDone[l] + rest
      BY <1>2, <1>4, <1>5, <3>1, SumRemove DEF Recorded
    <3>. QED  BY <1>4, <2>1, <3>2 DEF Due
  <2>2. CASE ~InCycle(l)
    <3>1. others = Cyc
      BY <2>2 DEF Cyc
    <3>. QED  BY <1>6, <2>2, <3>1 DEF Due, Recorded
  <2>. QED  BY <2>1, <2>2
<1>8. Recorded' = Due(l)' + rest
  <2>1. CASE InCycle(l)'
    <3>1. l \in Cyc' /\ Cyc' \ {l} = others
      BY <1>3, <2>1 DEF Cyc
    <3>2. SumFunctionOnSet(StepsDone', Cyc') = StepsDone'[l] + SumFunctionOnSet(StepsDone', Cyc' \ {l})
      BY <1>2, <1>4, <1>5, <3>1, SumRemove
    <3>. QED  BY <1>4, <1>6, <2>1, <3>1, <3>2 DEF Due, Recorded
  <2>2. CASE ~InCycle(l)'
    <3>1. others = Cyc'
      BY <1>3, <2>2 DEF Cyc
    <3>2. Recorded' = rest /\ Due(l)' = 0
      <4>. HIDE DEF others
      <4>. QED  BY <1>6, <2>2, <3>1 DEF Due, Recorded
    <3>. QED  BY <1>6, <3>2
  <2>. QED  BY <2>1, <2>2
<1>9. /\ Cardinality(Cyc) = Cardinality(others) + InCyc(l)
      /\ Cardinality(Cyc') = Cardinality(others) + InCyc(l)'
      /\ Cardinality(others) \in Nat
  <2>1. /\ InCycle(l) => Cyc = others \union {l}
        /\ ~InCycle(l) => Cyc = others
        /\ InCycle(l)' => Cyc' = others \union {l}
        /\ ~InCycle(l)' => Cyc' = others
        /\ l \notin others
    BY <1>3 DEF Cyc
  <2>. HIDE DEF others
  <2>2. /\ Cardinality(others \union {l}) = Cardinality(others) + 1
        /\ Cardinality(others) \in Nat
    BY <1>3, <2>1, FS_AddElement, FS_CardinalityType
  <2>. QED  BY <2>1, <2>2 DEF InCyc
<1>10. Due(l) \in Int /\ Due(l)' \in Int /\ InCyc(l) \in {0, 1} /\ InCyc(l)' \in {0, 1}
  BY <1>4 DEF Due, InCyc
<1>. HIDE DEF rest, others, started
<1>. QED  BY <1>1, <1>6, <1>7, <1>8, <1>9, <1>10 DEF started

\* The end of an iteration begins a cycle, and counts it, or does neither.
LEMMA AfterIterationCounts ==
    ASSUME TypeOK, live, NEW l \in Loops, NEW i \in Nat, NEW passed \in BOOLEAN,
           NEW st \in Statuses, AfterIteration(l, i, passed, st)
    PROVE  /\ Due(l)' = 0
           /\ currentIteration' = currentIteration + InCyc(l)'
<1>1. CASE Finish(l)
  <2>1. loop'[l].pc = "completed" /\ currentIteration' = currentIteration
    BY <1>1 DEF Finish, LoopAt, TypeOK
  <2>. QED  BY <2>1 DEF Due, InCyc, InCycle, TypeOK
<1>2. CASE NextIteration(l, i + 1, st)
  <2>1. /\ loop'[l].pc = "exchange" /\ loop'[l].step = 1
        /\ currentIteration' = currentIteration + 1
    BY <1>2 DEF NextIteration, LoopAt, Counted, TypeOK
  <2>. QED  BY <2>1 DEF Due, InCyc, InCycle
<1>. QED  BY <1>1, <1>2 DEF AfterIteration

\* Each step of a loop keeps the books: what the loop counts for changes with
\* the counters.
LEMMA LoopKeepsBooks ==
    ASSUME SessionInv, live, NEW l \in Loops, LoopStep(l)
    PROVE  /\ live' /\ \A k \in Loops \ {l} : loop'[k] = loop[k]
           /\ exchanges' - 6 * scores' - Due(l)' = exchanges - 6 * scores - Due(l)
           /\ currentIteration' - scores' - InCyc(l)' = currentIteration - scores - InCyc(l)
<1>1. /\ TypeOK /\ exchanges \in Nat /\ scores \in Nat /\ currentIteration \in Nat
      /\ loop \in [Loops -> LoopStates] /\ loop[l].step \in Int
      /\ loop[l].iteration \in Nat /\ loop[l].passed \in BOOLEAN /\ status \in Statuses
      /\ "active" \in Statuses /\ SetStatus("active") = "active"
  <2>1. TypeOK /\ loop[l] \in LoopStates
    BY DEF SessionInv, TypeOK
  <2>2. \A r \in LoopStates : r.step \in Int /\ r.iteration \in Nat /\ r.passed \in BOOLEAN
    BY DEF LoopStates, Steps
  <2>3. SetStatus("active") = "active"
    BY DEF SetStatus
  <2>. QED  BY <2>1, <2>2, <2>3 DEF TypeOK, Statuses
<1>2. CASE Begin(l)
  <2>1. AfterIteration(l, 0, FALSE, "active") /\ loop[l].pc = "scheduled"
        /\ UNCHANGED <<live, exchanges, scores>>
    BY <1>2 DEF Begin
  <2>2. Due(l) = 0 /\ InCyc(l) = 0
    BY <2>1 DEF Due, InCyc, InCycle
  <2>3. /\ Due(l)' = 0 /\ currentIteration' = currentIteration + InCyc(l)'
        /\ \A k \in Loops \ {l} : loop'[k] = loop[k]
    BY <1>1, <2>1, AfterIterationCounts, AfterIterationEffect
  <2>. QED  BY <1>1, <2>1, <2>2, <2>3 DEF InCyc
<1>3. CASE Reply(l)
  <2>1. /\ UNCHANGED <<live, scores, currentIteration>> /\ exchanges' = exchanges + 1
        /\ \A k \in Loops \ {l} : loop'[k] = loop[k]
        /\ loop[l].pc = "exchange" /\ loop'[l].pc = "exchange"
        /\ loop'[l].step = loop[l].step + 1
    BY <1>1, <1>3 DEF Reply, Counted, LoopStates
  <2>. QED  BY <1>1, <2>1 DEF Due, InCyc, InCycle
<1>4. ASSUME NEW passed \in BOOLEAN, Score(l, passed)
      PROVE  /\ live' /\ \A k \in Loops \ {l} : loop'[k] = loop[k]
             /\ exchanges' - 6 * scores' - Due(l)' = exchanges - 6 * scores - Due(l)
             /\ currentIteration' - scores' - InCyc(l)' = currentIteration - scores - InCyc(l)
  <2>1. /\ loop[l].pc = "exchange" /\ loop[l].step = 6
        /\ live' /\ exchanges' = exchanges + 1 /\ scores' = scores + 1
    BY <1>4 DEF Score, Counted
  <2>2. Due(l) = 5 /\ InCyc(l) = 1
    BY <2>1 DEF Due, InCyc, InCycle
  <2>3. /\ Due(l)' = 0 /\ currentIteration' = currentIteration + InCyc(l)'
        /\ \A k \in Loops \ {l} : loop'[k] = loop[k]
    <3>1. CASE AfterIteration(l, loop[l].iteration, passed, SetStatus("active"))
      BY <1>1, <1>4, <3>1, AfterIterationCounts, AfterIterationEffect
    <3>2. CASE loop' = [loop EXCEPT ![l] = LoopAt("flush", loop[l].iteration, passed, queue)]
               /\ UNCHANGED currentIteration
      <4>1. loop'[l].pc = "flush" /\ \A k \in Loops \ {l} : loop'[k] = loop[k]
        BY <1>1, <3>2 DEF LoopAt
      <4>. QED  BY <1>1, <3>2, <4>1 DEF Due, InCyc, InCycle
    <3>. QED  BY <1>4, <3>1, <3>2 DEF Score
  <2>. QED  BY <1>1, <2>1, <2>2, <2>3 DEF InCyc
<1>5. CASE Fail(l) \/ ScoreFails(l)
  <2>1. /\ loop[l].pc = "exchange" /\ loop'[l].pc = "failed"
        /\ UNCHANGED <<live, scores, currentIteration>>
        /\ \A k \in Loops \ {l} : loop'[k] = loop[k]
        /\ exchanges' - loop'[l].step = exchanges - loop[l].step
        /\ loop'[l].step \in Int /\ exchanges' \in Nat
    <3>1. CASE Fail(l)
      BY <1>1, <3>1 DEF Fail, LoopStates
    <3>2. CASE ScoreFails(l)
      BY <1>1, <3>2 DEF ScoreFails, Counted, LoopStates
    <3>. QED  BY <1>5, <3>1, <3>2
  <2>. QED  BY <1>1, <2>1 DEF Due, InCyc, InCycle
<1>6. ASSUME NEW outcome \in Deliveries, Deliver(l, outcome)
      PROVE  /\ live' /\ \A k \in Loops \ {l} : loop'[k] = loop[k]
             /\ exchanges' - 6 * scores' - Due(l)' = exchanges - 6 * scores - Due(l)
             /\ currentIteration' - scores' - InCyc(l)' = currentIteration - scores - InCyc(l)
  <2>1. loop[l].pc = "flush" /\ live' /\ UNCHANGED <<exchanges, scores>>
    BY <1>6 DEF Deliver
  <2>2. Due(l) = 0 /\ InCyc(l) = 0
    BY <2>1 DEF Due, InCyc, InCycle
  <2>3. /\ Due(l)' = 0 /\ currentIteration' = currentIteration + InCyc(l)'
        /\ \A k \in Loops \ {l} : loop'[k] = loop[k]
    <3>1. CASE AfterIteration(l, loop[l].iteration, loop[l].passed, status)
      BY <1>1, <3>1, AfterIterationCounts, AfterIterationEffect
    <3>2. CASE /\ \/ loop' = [loop EXCEPT ![l].to = @ + 1]
                  \/ loop' = [loop EXCEPT ![l].to = 1, ![l].batch = Tail(@)]
               /\ UNCHANGED currentIteration
      <4>1. loop'[l].pc = "flush" /\ \A k \in Loops \ {l} : loop'[k] = loop[k]
        BY <1>1, <2>1, <3>2 DEF LoopStates
      <4>. QED  BY <1>1, <3>2, <4>1 DEF Due, InCyc, InCycle
    <3>. QED  BY <1>6, <3>1, <3>2 DEF Deliver, Advance
  <2>. QED  BY <1>1, <2>1, <2>2, <2>3 DEF InCyc
<1>7. CASE Begin(l) \/ Reply(l) \/ Fail(l) \/ ScoreFails(l)
  BY <1>2, <1>3, <1>5, <1>7
<1>. QED  BY <1>4, <1>6, <1>7 DEF LoopStep

\* A step of a loop leaves the other loops, and the session's life, alone.
LEMMA LoopStepEffect ==
    ASSUME SessionInv, NEW l \in Loops, LoopStep(l)
    PROVE  live' = live /\ \A k \in Loops \ {l} : loop'[k] = loop[k]
<1>1. loop \in [Loops -> LoopStates] /\ TypeOK /\ "active" \in Statuses
      /\ status \in Statuses /\ SetStatus("active") \in Statuses
      /\ loop[l].iteration \in Nat /\ loop[l].passed \in BOOLEAN
  BY DEF SessionInv, TypeOK, LoopStates, Statuses, SetStatus
<1>2. CASE Begin(l)
  BY <1>1, <1>2, AfterIterationEffect DEF Begin
<1>3. CASE Reply(l) \/ Fail(l) \/ ScoreFails(l)
  BY <1>1, <1>3 DEF Reply, Fail, ScoreFails
<1>4. ASSUME NEW passed \in BOOLEAN, Score(l, passed)
      PROVE  live' = live /\ \A k \in Loops \ {l} : loop'[k] = loop[k]
  BY <1>1, <1>4, AfterIterationEffect DEF Score
<1>5. ASSUME NEW outcome \in Deliveries, Deliver(l, outcome)
      PROVE  live' = live /\ \A k \in Loops \ {l} : loop'[k] = loop[k]
  BY <1>1, <1>5, AfterIterationEffect DEF Deliver, Advance
<1>. QED  BY <1>2, <1>3, <1>4, <1>5 DEF LoopStep

\* Before any loop has started there is nothing to count.
LEMMA CyclesInit == Init => CyclesInv
<1>. SUFFICES ASSUME Init PROVE CyclesInv
  OBVIOUS
<1>1. \A l \in Loops : loop[l].pc = "idle"
  BY DEF Init, LoopAt
<1>2. {l \in Loops : loop[l].pc # "idle"} = {} /\ Cyc = {}
  BY <1>1 DEF Cyc, InCycle
<1>3. Recorded = 0 /\ Cardinality(Cyc) = 0 /\ IsFiniteSet({})
  BY <1>2, FS_EmptySet, SumStep DEF Recorded
<1>4. exchanges = 6 * scores + Recorded /\ currentIteration = scores + Cardinality(Cyc)
  BY <1>3 DEF Init
<1>. QED  BY <1>2, <1>3, <1>4 DEF CyclesInv, CyclesAddUp, Recorded, StepsDone, Cyc

\* Whatever loops start, go on, fail and end, the books balance.
LEMMA CyclesNext == SessionInv /\ SessionInv' /\ CyclesInv /\ [Next]_vars => CyclesInv'
<1>. SUFFICES ASSUME SessionInv, SessionInv', CyclesInv, [Next]_vars PROVE CyclesInv'
  OBVIOUS
<1> DEFINE started == {l \in Loops : loop[l].pc # "idle"}
<1>1. /\ TypeOK /\ TypeOK' /\ IsFiniteSet(started) /\ loop \in [Loops -> LoopStates]
      /\ exchanges \in Nat /\ scores \in Nat /\ currentIteration \in Nat
      /\ exchanges' \in Nat /\ scores' \in Nat /\ currentIteration' \in Nat
      /\ live => /\ exchanges = 6 * scores + Recorded
                 /\ currentIteration = scores + Cardinality(Cyc)
  BY DEF SessionInv, TypeOK, CyclesInv, CyclesAddUp, Recorded, StepsDone, Cyc
<1>2. SUFFICES
        /\ IsFiniteSet(started')
        /\ live' => /\ exchanges' = 6 * scores' + Recorded'
                    /\ currentIteration' = scores' + Cardinality(Cyc)'
  BY <1>2 DEF CyclesInv, CyclesAddUp, Recorded, StepsDone, Cyc
<1>3. ASSUME UNCHANGED <<exchanges, scores, currentIteration, loop>>, live' => live
      PROVE  /\ IsFiniteSet(started')
             /\ live' => /\ exchanges' = 6 * scores' + Recorded'
                         /\ currentIteration' = scores' + Cardinality(Cyc)'
  <2>1. Recorded' = Recorded /\ Cyc' = Cyc /\ started' = started
    BY <1>3 DEF Recorded, StepsDone, Cyc, InCycle
  <2>. QED  BY <1>1, <1>3, <2>1
<1>4. ASSUME NEW l \in Loops, \A k \in Loops \ {l} : loop'[k] = loop[k], live' => live,
             live =>
                /\ exchanges' - 6 * scores' - Due(l)' = exchanges - 6 * scores - Due(l)
                /\ currentIteration' - scores' - InCyc(l)' = currentIteration - scores - InCyc(l)
      PROVE  /\ IsFiniteSet(started')
             /\ live' => /\ exchanges' = 6 * scores' + Recorded'
                         /\ currentIteration' = scores' + Cardinality(Cyc)'
  <2>1. /\ IsFiniteSet(started')
        /\ Recorded \in Int /\ Cardinality(Cyc) \in Nat
        /\ Recorded' = Recorded - Due(l) + Due(l)'
        /\ Cardinality(Cyc)' = Cardinality(Cyc) - InCyc(l) + InCyc(l)'
    BY <1>1, <1>4, CountsChange
  <2>2. Due(l) \in Int /\ Due(l)' \in Int /\ InCyc(l) \in Int /\ InCyc(l)' \in Int
    <3>1. \A r \in LoopStates : r.step \in Int
      BY DEF LoopStates, Steps
    <3>2. loop[l] \in LoopStates /\ loop'[l] \in LoopStates
      BY <1>1 DEF TypeOK
    <3>. QED  BY <3>1, <3>2 DEF Due, InCyc
  <2>3. ASSUME live' PROVE exchanges' = 6 * scores' + Recorded'
    <3>1. exchanges' - 6 * scores' - Due(l)' = Recorded - Due(l)
      BY <1>1, <1>4, <2>1, <2>2, <2>3
    <3>. QED  BY <1>1, <2>1, <2>2, <3>1
  <2>4. ASSUME live' PROVE currentIteration' = scores' + Cardinality(Cyc)'
    <3>1. currentIteration' - scores' - InCyc(l)' = Cardinality(Cyc) - InCyc(l)
      BY <1>1, <1>4, <2>1, <2>2, <2>4
    <3>. QED  BY <1>1, <2>1, <2>2, <3>1
  <2>. QED  BY <2>1, <2>3, <2>4
<1>5. ASSUME NEW l \in Loops, StartTeaching(l)
      PROVE  /\ IsFiniteSet(started')
             /\ live' => /\ exchanges' = 6 * scores' + Recorded'
                         /\ currentIteration' = scores' + Cardinality(Cyc)'
  <2>1. /\ loop[l].pc = "idle" /\ loop'[l].pc = "scheduled"
        /\ \A k \in Loops \ {l} : loop'[k] = loop[k]
        /\ UNCHANGED <<live, exchanges, scores, currentIteration>>
    BY <1>1, <1>5 DEF StartTeaching, LoopStates
  <2>2. Due(l) = 0 /\ Due(l)' = 0 /\ InCyc(l) = 0 /\ InCyc(l)' = 0
    BY <2>1 DEF Due, InCyc, InCycle
  <2>. QED  BY <1>1, <1>4, <2>1, <2>2
<1>6. ASSUME NEW l \in Loops, LoopStep(l)
      PROVE  /\ IsFiniteSet(started')
             /\ live' => /\ exchanges' = 6 * scores' + Recorded'
                         /\ currentIteration' = scores' + Cardinality(Cyc)'
  <2>1. live' = live /\ \A k \in Loops \ {l} : loop'[k] = loop[k]
    BY <1>6, LoopStepEffect
  <2>. QED  BY <1>4, <1>6, <2>1, LoopKeepsBooks
<1>. QED  BY <1>2, <1>3, <1>5, <1>6 DEF Next, Post, FlushQueue, Delete, vars

\* However many loops run and however they end, each score is backed by six
\* exchanges, and each iteration is scored, under way or failed.
THEOREM BooksBalance == Spec => []CyclesAddUp
<1>1. CyclesInv => CyclesAddUp
  BY DEF CyclesInv
<1>. QED  BY <1>1, CyclesInit, CyclesNext, SessionInvariant, PTL DEF Spec

-----------------------------------------------------------------------------
(* The order of deliveries                                                 *)

\* Where the accepted messages are in the order of their arrival, and what waits
\* and what reached an agent, by that order.
Rank == [m \in Range(posted) |-> Position(m)]
Sorted(q, rank) == \A i, j \in DOMAIN q : i < j => rank[q[i]] < rank[q[j]]

\* What waits comes after all that a loop took over or an agent got.
OrderOfWaiting ==
    /\ Sorted(queue, Rank)
    /\ \A l \in Loops : Sorted(loop[l].batch, Rank)
    /\ \A k \in Range(queue) :
        /\ \A l \in Loops : \A m \in Range(loop[l].batch) : Rank[m] < Rank[k]
        /\ \A a \in Agents : \A m \in Range(inbox[a]) : Rank[m] < Rank[k]

\* What agents got comes before what a lone loop still delivers, but for the
\* message that it delivers right now.
OrderOfDelivered ==
    /\ \A a \in Agents, l \in Loops : \A m \in Range(inbox[a]), k \in Range(loop[l].batch) :
            Rank[m] <= Rank[k]
    /\ \A a \in Agents : Sorted(inbox[a], Rank)

\* The three together are inductive.
OrderInv == IsInjective(posted) /\ OrderOfWaiting /\ (Alone => OrderOfDelivered)

\* A sorted queue that gets a member beyond all of its own stays sorted.
LEMMA SortedAppend ==
    ASSUME NEW S, NEW q \in Seq(S), NEW e \in S, NEW rank, Sorted(q, rank),
           \A x \in Range(q) : rank[x] < rank[e]
    PROVE  Sorted(Append(q, e), rank)
<1>1. /\ \A i \in 1 .. Len(q) : Append(q, e)[i] = q[i] /\ q[i] \in Range(q)
      /\ Append(q, e)[Len(q) + 1] = e /\ DOMAIN Append(q, e) = 1 .. Len(q) + 1
      /\ DOMAIN q = 1 .. Len(q) /\ Len(q) \in Nat
  <2>1. \A i \in 1 .. Len(q) : q[i] \in Range(q)
    BY DEF Range
  <2>2. \A i \in 1 .. Len(q) : Append(q, e)[i] = q[i]
    OBVIOUS
  <2>. QED  BY <2>1, <2>2
<1>2. ASSUME NEW i \in 1 .. Len(q) + 1, NEW j \in 1 .. Len(q) + 1, i < j
      PROVE  rank[Append(q, e)[i]] < rank[Append(q, e)[j]]
  <2>1. i \in 1 .. Len(q) /\ (j = Len(q) + 1 \/ j \in 1 .. Len(q))
    BY <1>1, <1>2
  <2>. QED  BY <1>1, <1>2, <2>1 DEF Sorted
<1>. QED  BY <1>1, <1>2 DEF Sorted

\* What is behind the head of a sorted queue is sorted, and beyond the head.
LEMMA SortedTail ==
    ASSUME NEW S, NEW q \in Seq(S), q # <<>>, NEW rank, Sorted(q, rank)
    PROVE  Sorted(Tail(q), rank) /\ \A x \in Range(Tail(q)) : rank[Head(q)] < rank[x]
<1>1. /\ Head(q) = q[1] /\ Len(q) \in Nat \ {0} /\ DOMAIN q = 1 .. Len(q)
      /\ DOMAIN Tail(q) = 1 .. Len(q) - 1
  OBVIOUS
<1>2. \A i \in 1 .. Len(q) - 1 : Tail(q)[i] = q[i + 1] /\ i + 1 \in 1 .. Len(q)
  OBVIOUS
<1>3. Sorted(Tail(q), rank)
  BY <1>1, <1>2 DEF Sorted
<1>4. ASSUME NEW x \in Range(Tail(q)) PROVE rank[Head(q)] < rank[x]
  <2>1. PICK i \in 1 .. Len(q) - 1 : x = q[i + 1]
    BY <1>1, <1>2 DEF Range
  <2>2. 1 < i + 1 /\ i + 1 \in DOMAIN q /\ 1 \in DOMAIN q
    BY <1>1
  <2>. QED  BY <1>1, <2>1, <2>2 DEF Sorted
<1>. QED  BY <1>3, <1>4

\* Each accepted message has one rank, the place where it stands.
LEMMA RankOfPosted ==
    ASSUME TypeOK, IsInjective(posted)
    PROVE  /\ \A i \in DOMAIN posted : Rank[posted[i]] = i
           /\ \A m \in Range(posted) : Rank[m] \in 1 .. Len(posted) /\ posted[Rank[m]] = m
<1>1. posted \in Seq(Messages) /\ DOMAIN posted = 1 .. Len(posted) /\ Len(posted) \in Nat
  BY DEF TypeOK
<1>2. \A m \in Range(posted) : Rank[m] = Position(m)
  BY DEF Rank
<1>3. \A i \in DOMAIN posted : Position(posted[i]) = i
  BY DEF Position, IsInjective
<1>4. \A i \in DOMAIN posted : posted[i] \in Range(posted)
  BY DEF Range
<1>5. \A m \in Range(posted) : \E i \in DOMAIN posted : m = posted[i]
  BY DEF Range
<1>. QED  BY <1>1, <1>2, <1>3, <1>4, <1>5

\* A message that arrives comes after all that were there before, whose
\* places do not change.
LEMMA PostKeepsRanks ==
    ASSUME TypeOK, TypeOK', IsInjective(posted), NEW m \in Messages, m \notin Range(posted),
           posted' = Append(posted, m)
    PROVE  /\ IsInjective(posted')
           /\ \A k \in Range(posted) : Rank'[k] = Rank[k] /\ Rank[k] < Rank'[m]
<1>1. /\ posted \in Seq(Messages) /\ DOMAIN posted = 1 .. Len(posted) /\ Len(posted) \in Nat
      /\ DOMAIN posted' = 1 .. Len(posted) + 1 /\ posted'[Len(posted) + 1] = m
      /\ \A i \in 1 .. Len(posted) : posted'[i] = posted[i]
  BY DEF TypeOK
<1>2. IsInjective(posted')
  BY <1>1, InjectiveAppend
<1>3. \A i \in DOMAIN posted' : Rank'[posted'[i]] = i
  <2>1. \A i \in DOMAIN posted' : (CHOOSE j \in DOMAIN posted' : posted'[j] = posted'[i]) = i
    BY <1>2 DEF IsInjective
  <2>. QED  BY <2>1 DEF Rank, Position, Range
<1>4. \A k \in Range(posted) : Rank[k] \in 1 .. Len(posted) /\ posted[Rank[k]] = k
  BY RankOfPosted
<1>5. ASSUME NEW k \in Range(posted) PROVE Rank'[k] = Rank[k] /\ Rank[k] < Rank'[m]
  <2>1. Rank'[m] = Len(posted) + 1
    BY <1>1, <1>3
  <2>2. Rank'[k] = Rank[k]
    BY <1>1, <1>3, <1>4
  <2>. QED  BY <1>1, <1>4, <2>1, <2>2
<1>. QED  BY <1>2, <1>5

\* A step that moves no message moves none in the order.
LEMMA OrderKept ==
    ASSUME OrderInv, MovesNothing, Alone' => Alone
    PROVE  OrderInv'
<1>1. Rank' = Rank /\ \A l \in Loops : loop'[l].batch = loop[l].batch
  BY DEF MovesNothing, Rank, Position
<1>2. OrderOfWaiting'
  BY <1>1 DEF MovesNothing, OrderInv, OrderOfWaiting
<1>3. Alone => OrderOfDelivered'
  BY <1>1 DEF MovesNothing, OrderInv, OrderOfDelivered
<1>. QED  BY <1>2, <1>3 DEF OrderInv, MovesNothing

\* A new message is the last one, wherever it waits.
LEMMA OrderPosted ==
    ASSUME SessionInv, TypeOK', OrderInv, NEW m \in Messages, m \notin Range(posted),
           posted' = Append(posted, m), Enqueue(m) \/ Store(m), UNCHANGED <<loop, inbox>>
    PROVE  OrderInv'
<1>1. /\ IsInjective(posted')
      /\ \A k \in Range(posted) : Rank'[k] = Rank[k] /\ Rank[k] < Rank'[m]
  BY PostKeepsRanks DEF SessionInv, OrderInv
<1>2. /\ Range(queue) \subseteq Range(posted)
      /\ \A l \in Loops : Range(loop[l].batch) \subseteq Range(posted)
      /\ \A a \in Agents : Range(inbox[a]) \subseteq Range(posted)
  BY DEF SessionInv, Custody, NothingInvented
<1>3. ASSUME NEW q, Range(q) \subseteq Range(posted), Sorted(q, Rank) PROVE Sorted(q, Rank')
  <2>1. \A i \in DOMAIN q : q[i] \in Range(posted)
    BY <1>3 DEF Range
  <2>. QED  BY <1>1, <1>3, <2>1 DEF Sorted
<1>4. /\ \A l \in Loops : Sorted(loop[l].batch, Rank')
      /\ Sorted(queue, Rank')
      /\ \A k \in Range(queue) :
          /\ \A l \in Loops : \A x \in Range(loop[l].batch) : Rank'[x] < Rank'[k]
          /\ \A a \in Agents : \A x \in Range(inbox[a]) : Rank'[x] < Rank'[k]
  <2>1. \A l \in Loops : Sorted(loop[l].batch, Rank')
    BY <1>2, <1>3 DEF OrderInv, OrderOfWaiting
  <2>2. Sorted(queue, Rank')
    BY <1>2, <1>3 DEF OrderInv, OrderOfWaiting
  <2>3. ASSUME NEW k \in Range(queue)
        PROVE  /\ \A l \in Loops : \A x \in Range(loop[l].batch) : Rank'[x] < Rank'[k]
               /\ \A a \in Agents : \A x \in Range(inbox[a]) : Rank'[x] < Rank'[k]
    BY <1>1, <1>2 DEF OrderInv, OrderOfWaiting
  <2>. QED  BY <2>1, <2>2, <2>3
<1>5. OrderOfWaiting'
  <2>1. CASE queue' = queue
    BY <1>4, <2>1 DEF OrderOfWaiting
  <2>2. CASE queue' = Append(queue, m)
    <3>1. /\ queue \in Seq(Messages)
          /\ \A k \in Range(queue) : Rank'[k] < Rank'[m]
      BY <1>1, <1>2 DEF SessionInv, TypeOK
    <3>2. Range(queue') = Range(queue) \union {m}
      BY <2>2, <3>1, RangeAppend
    <3>3. Sorted(queue', Rank')
      BY <1>4, <2>2, <3>1, SortedAppend
    <3>4. /\ \A l \in Loops : \A x \in Range(loop[l].batch) : Rank'[x] < Rank'[m]
          /\ \A a \in Agents : \A x \in Range(inbox[a]) : Rank'[x] < Rank'[m]
      BY <1>1, <1>2
    <3>. QED  BY <1>4, <3>2, <3>3, <3>4 DEF OrderOfWaiting
  <2>. QED  BY <2>1, <2>2 DEF Enqueue, Store
<1>6. Alone => OrderOfDelivered'
  <2>. SUFFICES ASSUME OrderOfDelivered PROVE OrderOfDelivered'
    BY DEF OrderInv
  <2>1. \A a \in Agents : Sorted(inbox[a], Rank')
    BY <1>2, <1>3 DEF OrderOfDelivered
  <2>2. \A a \in Agents, l \in Loops : \A x \in Range(inbox[a]), k \in Range(loop[l].batch) :
            Rank'[x] <= Rank'[k]
    BY <1>1, <1>2 DEF OrderOfDelivered
  <2>. QED  BY <2>1, <2>2 DEF OrderOfDelivered
<1>7. Alone' = Alone
  BY DEF Alone
<1>. QED  BY <1>1, <1>5, <1>6, <1>7 DEF OrderInv

\* The queue is emptied, into the session or into nothing.
LEMMA OrderEmptied ==
    ASSUME OrderInv, queue' = <<>>, UNCHANGED <<posted, loop, inbox>>
    PROVE  OrderInv'
<1>1. Rank' = Rank /\ Range(queue') = {} /\ Alone' = Alone
  BY EmptyQueue DEF Rank, Position, Alone
<1>2. Sorted(queue', Rank)
  BY DEF Sorted
<1>. QED  BY <1>1, <1>2 DEF OrderInv, OrderOfWaiting, OrderOfDelivered

\* A loop takes over the queue, which is behind all that was ever delivered.
LEMMA OrderDrained ==
    ASSUME SessionInv, OrderInv, NEW l \in Loops, Drains(l), Alone' => Alone
    PROVE  OrderInv'
<1>1. Rank' = Rank /\ Range(queue') = {} /\ Sorted(queue', Rank)
  BY EmptyQueue DEF Drains, Rank, Position, Sorted
<1>2. \A k \in Loops : loop'[k].batch = IF k = l THEN queue ELSE loop[k].batch
  BY DEF Drains
<1>3. OrderOfWaiting'
  BY <1>1, <1>2 DEF Drains, OrderInv, OrderOfWaiting
<1>4. Alone => OrderOfDelivered'
  <2>. SUFFICES ASSUME OrderOfDelivered PROVE OrderOfDelivered'
    BY DEF OrderInv
  <2>1. ASSUME NEW a \in Agents, NEW x \in Range(inbox[a]), NEW k \in Range(queue)
        PROVE  Rank[x] <= Rank[k]
    <3>1. Rank[x] < Rank[k] /\ x \in Range(posted) /\ k \in Range(posted)
      BY DEF OrderInv, OrderOfWaiting, SessionInv, Custody, NothingInvented
    <3>2. Rank[x] \in Int /\ Rank[k] \in Int
      BY <3>1, RankOfPosted DEF SessionInv, TypeOK, OrderInv
    <3>. QED  BY <3>1, <3>2
  <2>. QED  BY <1>1, <1>2, <2>1 DEF Drains, OrderOfDelivered
<1>. QED  BY <1>3, <1>4 DEF OrderInv, Drains

\* The only loop delivers the first message of its batch, which no agent that
\* is still to get it has, and which comes after all that this agent has.
LEMMA OrderDelivered ==
    ASSUME SessionInv, OrderInv, NEW l \in Loops, Attempts(l),
           Alone' => Alone /\ \A k \in Loops \ {l} : loop[k].batch = <<>>
    PROVE  OrderInv'
<1> DEFINE b == loop[l].batch
           m == Head(b)
           s == loop[l].to
<1>1. /\ b \in Seq(Messages) /\ s \in Agents /\ b # <<>> /\ Sorted(b, Rank)
      /\ \A a \in Agents : inbox[a] \in Seq(Messages)
      /\ Rank' = Rank /\ queue' = queue /\ posted' = posted
      /\ \A k \in Loops \ {l} : loop'[k] = loop[k]
      /\ loop'[l].batch \in {b, Tail(b)}
      /\ inbox' \in {inbox, [inbox EXCEPT ![s] = Append(@, m)]}
  <2>1. Sorted(b, Rank) /\ Rank' = Rank
    BY DEF Attempts, OrderInv, OrderOfWaiting, Rank, Position
  <2>2. b \in Seq(Messages) /\ s \in Agents /\ \A a \in Agents : inbox[a] \in Seq(Messages)
    BY DEF SessionInv, TypeOK, LoopStates
  <2>. QED  BY <2>1, <2>2 DEF Attempts
<1>2. /\ m \in Messages /\ Tail(b) \in Seq(Messages)
      /\ Range(b) = {m} \union Range(Tail(b))
      /\ Sorted(Tail(b), Rank) /\ \A x \in Range(Tail(b)) : Rank[m] < Rank[x]
  <2>. HIDE DEF b
  <2>. QED  BY <1>1, RangeHeadTail, SortedTail
<1>3. /\ Range(b) \subseteq Range(posted)
      /\ \A a \in Agents : Range(inbox[a]) \subseteq Range(posted)
      /\ \A x \in Range(posted) : Rank[x] \in Int /\ posted[Rank[x]] = x
  BY RankOfPosted DEF SessionInv, Custody, NothingInvented, TypeOK, OrderInv
<1>4. m \notin Range(inbox[s])
  <2>1. ~(s < s)
    BY <1>1, NumAgentsAssumption DEF Agents
  <2>. QED  BY <1>1, <1>2, <2>1 DEF SessionInv, Custody, DeliveryFrontier
<1>5. \A a \in Agents : Range(inbox'[a]) \subseteq Range(inbox[a]) \union {m}
  <2>1. CASE inbox' = inbox
    BY <2>1
  <2>2. CASE inbox' = [inbox EXCEPT ![s] = Append(@, m)]
    <3>1. Range(Append(inbox[s], m)) = Range(inbox[s]) \union {m}
      BY <1>1, <1>2, RangeAppend
    <3>. HIDE DEF m, s
    <3>. QED  BY <1>1, <2>2, <3>1 DEF SessionInv, TypeOK
  <2>. QED  BY <1>1, <2>1, <2>2
<1>6. \A k \in Loops : Sorted(loop'[k].batch, Rank)
                       /\ Range(loop'[k].batch) \subseteq Range(loop[k].batch)
  <2>1. \A k \in Loops : Sorted(loop[k].batch, Rank)
    BY DEF OrderInv, OrderOfWaiting
  <2>2. Sorted(loop'[l].batch, Rank) /\ Range(loop'[l].batch) \subseteq Range(b)
    BY <1>1, <1>2
  <2>. QED  BY <1>1, <2>1, <2>2
<1>7. OrderOfWaiting'
  <2>1. Sorted(queue, Rank)
    BY DEF OrderInv, OrderOfWaiting
  <2>2. ASSUME NEW k \in Range(queue)
        PROVE  /\ \A j \in Loops : \A x \in Range(loop'[j].batch) : Rank[x] < Rank[k]
               /\ \A a \in Agents : \A x \in Range(inbox'[a]) : Rank[x] < Rank[k]
    <3>1. \A j \in Loops : \A x \in Range(loop[j].batch) : Rank[x] < Rank[k]
      BY DEF OrderInv, OrderOfWaiting
    <3>2. \A a \in Agents : \A x \in Range(inbox[a]) : Rank[x] < Rank[k]
      BY DEF OrderInv, OrderOfWaiting
    <3>3. m \in Range(loop[l].batch)
      BY <1>2
    <3>. HIDE DEF m
    <3>. QED  BY <1>5, <1>6, <3>1, <3>2, <3>3
  <2>. QED  BY <1>1, <1>6, <2>1, <2>2 DEF OrderOfWaiting
<1>8. Alone' => OrderOfDelivered'
  <2>. SUFFICES ASSUME OrderOfDelivered, \A k \in Loops \ {l} : loop[k].batch = <<>>
                PROVE  OrderOfDelivered'
    BY DEF OrderInv
  <2>1. \A a \in Agents : \A x \in Range(inbox[a]) : Rank[x] <= Rank[m]
    BY <1>2 DEF OrderOfDelivered
  <2>2. \A a \in Agents : Sorted(inbox'[a], Rank)
    <3>1. \A a \in Agents : Sorted(inbox[a], Rank)
      BY DEF OrderOfDelivered
    <3>2. \A x \in Range(inbox[s]) : Rank[x] < Rank[m]
      <4>1. m \in Range(posted)
        BY <1>2, <1>3
      <4>2. ASSUME NEW x \in Range(inbox[s]) PROVE Rank[x] < Rank[m]
        <5>1. /\ x # m /\ Rank[x] <= Rank[m]
              /\ Rank[x] \in Int /\ Rank[m] \in Int
              /\ posted[Rank[x]] = x /\ posted[Rank[m]] = m
          BY <1>1, <1>3, <1>4, <2>1, <4>1
        <5>2. Rank[x] # Rank[m]
          BY <5>1
        <5>. QED  BY <5>1, <5>2
      <4>. QED  BY <4>2
    <3>3. Sorted(Append(inbox[s], m), Rank)
      <4>. HIDE DEF m, s
      <4>. QED  BY <1>1, <1>2, <3>1, <3>2, SortedAppend
    <3>. HIDE DEF m, s
    <3>. QED  BY <1>1, <3>1, <3>3 DEF SessionInv, TypeOK
  <2>3. ASSUME NEW a \in Agents, NEW k \in Loops,
               NEW x \in Range(inbox'[a]), NEW y \in Range(loop'[k].batch)
        PROVE  Rank[x] <= Rank[y]
    <3>1. k = l /\ y \in Range(b)
      <4>1. y \in Range(loop[k].batch)
        BY <1>6, <2>3
      <4>. QED  BY <4>1, EmptyQueue
    <3>2. CASE x \in Range(inbox[a])
      BY <3>1, <3>2 DEF OrderOfDelivered
    <3>3. CASE x = m
      <4>1. Rank[m] \in Int
        BY <1>2, <1>3
      <4>2. Rank[y] \in Int /\ (y = m \/ Rank[m] < Rank[y])
        BY <1>2, <1>3, <3>1
      <4>. HIDE DEF m
      <4>. QED  BY <3>3, <4>1, <4>2
    <3>. QED  BY <1>5, <3>2, <3>3
  <2>. QED  BY <1>1, <2>2, <2>3 DEF OrderOfDelivered
<1>. QED  BY <1>1, <1>7, <1>8 DEF OrderInv

\* A loop that takes a step has been started, and stays so.
LEMMA LoopStepStarted ==
    ASSUME SessionInv, NEW l \in Loops, LoopStep(l)
    PROVE  loop[l].pc # "idle" /\ loop'[l].pc # "idle"
<1>1. loop \in [Loops -> LoopStates] /\ TypeOK /\ "active" \in Statuses
      /\ status \in Statuses /\ SetStatus("active") \in Statuses
      /\ loop[l].iteration \in Nat /\ loop[l].passed \in BOOLEAN
  BY DEF SessionInv, TypeOK, LoopStates, Statuses, SetStatus
<1>2. CASE Begin(l)
  BY <1>1, <1>2, AfterIterationEffect DEF Begin, LoopStates
<1>3. CASE Reply(l) \/ Fail(l) \/ ScoreFails(l)
  BY <1>1, <1>3 DEF Reply, Fail, ScoreFails, LoopStates
<1>4. ASSUME NEW passed \in BOOLEAN, Score(l, passed)
      PROVE  loop[l].pc # "idle" /\ loop'[l].pc # "idle"
  <2>1. loop[l].pc # "idle"
    BY <1>4 DEF Score
  <2>2. CASE AfterIteration(l, loop[l].iteration, passed, SetStatus("active"))
    BY <1>1, <2>1, <2>2, AfterIterationEffect
  <2>3. CASE loop' = [loop EXCEPT ![l] = LoopAt("flush", loop[l].iteration, passed, queue)]
    BY <1>1, <2>1, <2>3 DEF LoopAt
  <2>. QED  BY <1>4, <2>2, <2>3 DEF Score
<1>5. ASSUME NEW outcome \in Deliveries, Deliver(l, outcome)
      PROVE  loop[l].pc # "idle" /\ loop'[l].pc # "idle"
  <2>1. loop[l].pc = "flush"
    BY <1>5 DEF Deliver
  <2>2. CASE AfterIteration(l, loop[l].iteration, loop[l].passed, status)
    BY <1>1, <2>1, <2>2, AfterIterationEffect
  <2>3. CASE loop' = [loop EXCEPT ![l].to = @ + 1]
    BY <1>1, <2>1, <2>3 DEF LoopStates
  <2>4. CASE loop' = [loop EXCEPT ![l].to = 1, ![l].batch = Tail(@)]
    BY <1>1, <2>1, <2>4 DEF LoopStates
  <2>. QED  BY <1>5, <2>2, <2>3, <2>4 DEF Deliver, Advance
<1>. QED  BY <1>2, <1>3, <1>4, <1>5 DEF LoopStep

\* Messages wait, are taken over and are delivered in the order of arrival.
LEMMA OrderNext == SessionInv /\ SessionInv' /\ OrderInv /\ [Next]_vars => OrderInv'
<1>. SUFFICES ASSUME SessionInv, SessionInv', OrderInv, [Next]_vars PROVE OrderInv'
  OBVIOUS
<1>1. ASSUME NEW m \in Messages, NEW viaSocket \in BOOLEAN, Post(m, viaSocket)
      PROVE  OrderInv'
  BY <1>1, OrderPosted DEF Post, SessionInv
<1>2. CASE FlushQueue \/ Delete
  BY <1>2, OrderEmptied DEF FlushQueue, Delete
<1>3. ASSUME NEW l \in Loops, StartTeaching(l) PROVE OrderInv'
  <2>1. /\ MovesNothing /\ loop[l].pc = "idle" /\ loop'[l].pc = "scheduled"
        /\ \A k \in Loops \ {l} : loop'[k] = loop[k]
    BY <1>3 DEF StartTeaching, MovesNothing, SessionInv, TypeOK, LoopStates
  <2>2. Alone' => Alone
    BY <2>1 DEF Alone
  <2>. QED  BY <2>1, <2>2, OrderKept
<1>4. ASSUME NEW l \in Loops, LoopStep(l) PROVE OrderInv'
  <2>1. /\ loop[l].pc # "idle" /\ loop'[l].pc # "idle"
        /\ \A k \in Loops \ {l} : loop'[k] = loop[k]
    BY <1>4, LoopStepStarted, LoopStepEffect
  <2>2. Alone' => \A k \in Loops \ {l} : loop[k].pc = "idle"
    BY <2>1 DEF Alone
  <2>3. Alone' => Alone
    BY <2>1, <2>2 DEF Alone
  <2>4. Alone' => \A k \in Loops \ {l} : loop[k].batch = <<>>
    BY <2>2 DEF SessionInv, BatchesMatchPc
  <2>. QED  BY <1>4, <2>3, <2>4, LoopStepMoves, OrderKept, OrderDrained, OrderDelivered
<1>5. CASE UNCHANGED vars
  <2>1. MovesNothing /\ Alone' = Alone
    BY <1>5 DEF vars, MovesNothing, Alone
  <2>. QED  BY <2>1, OrderKept
<1>. QED  BY <1>1, <1>2, <1>3, <1>4, <1>5 DEF Next

\* With one loop at work, every agent gets the queued messages in the order in
\* which they were posted, whatever deliveries fail and whatever is posted,
\* flushed or deleted meanwhile.
THEOREM DeliveryIsFIFO == Spec => []DeliveredInOrder
<1>1. Init => OrderInv
  <2>. SUFFICES ASSUME Init PROVE OrderInv
    OBVIOUS
  <2>1. /\ \A l \in Loops : loop[l].batch = <<>>
        /\ \A a \in Agents : inbox[a] = <<>>
        /\ queue = <<>> /\ posted = <<>>
    BY DEF Init, LoopAt
  <2>2. Sorted(<<>>, Rank)
    BY DEF Sorted
  <2>. QED  BY <2>1, <2>2, EmptyQueue DEF OrderInv, OrderOfWaiting, OrderOfDelivered
<1>2. SessionInv /\ OrderInv => DeliveredInOrder
  <2>. SUFFICES ASSUME SessionInv, OrderInv, Alone,
                       NEW a \in Agents, NEW i \in DOMAIN inbox[a], NEW j \in DOMAIN inbox[a], i < j
                PROVE  Position(inbox[a][i]) < Position(inbox[a][j])
    BY DEF DeliveredInOrder
  <2>1. Rank[inbox[a][i]] < Rank[inbox[a][j]]
    BY DEF OrderInv, OrderOfDelivered, Sorted
  <2>2. inbox[a][i] \in Range(posted) /\ inbox[a][j] \in Range(posted)
    BY DEF SessionInv, Custody, NothingInvented, Range
  <2>. QED  BY <2>1, <2>2 DEF Rank
<1>. QED  BY <1>1, <1>2, OrderNext, SessionInvariant, PTL DEF Spec

-----------------------------------------------------------------------------
(* What the engine computes                                                *)

\* Where the parser looks for the first number that can be a score.
LEMMA FirstIsMember ==
    ASSUME NEW S \in SUBSET Nat, S # {}
    PROVE  Min(S) \in S
<1>1. \E n \in S : \A k \in S : n <= k
  <2>1. SUFFICES ASSUME \A n \in S : \E k \in S : k < n PROVE FALSE
    OBVIOUS
  <2>2. PICK s \in S : s \in Nat
    OBVIOUS
  <2> DEFINE Good == {i \in Nat : \A j \in 0 .. i : j \notin S}
  <2>3. 0 \in Good
    BY <2>1
  <2>4. ASSUME NEW i \in 0 .. s - 1, i \in Good PROVE i + 1 \in Good
    <3>1. i \in Nat /\ \A j \in 0 .. i : j \notin S
      BY <2>4
    <3>2. i + 1 \notin S
      <4>1. SUFFICES ASSUME i + 1 \in S PROVE FALSE
        OBVIOUS
      <4>2. PICK k \in S : k < i + 1
        BY <2>1, <4>1
      <4>3. k \in 0 .. i
        BY <3>1, <4>2
      <4>. QED  BY <3>1, <4>2, <4>3
    <3>3. \A j \in 0 .. i + 1 : j \in 0 .. i \/ j = i + 1
      BY <3>1
    <3>. QED  BY <3>1, <3>2, <3>3
  <2>. HIDE DEF Good
  <2>5. 0 .. s \subseteq Good
    BY <2>2, <2>3, <2>4, BoundedInduction
  <2>6. s \in 0 .. s
    BY <2>2
  <2>. QED  BY <2>2, <2>5, <2>6 DEF Good
<1>. QED  BY <1>1 DEF Min

\* The answers are read as numbers in their ranges.
LEMMA ConfidenceType ==
    ASSUME NEW decimals \in StudentAnswers
    PROVE  Confidence(decimals) \in 0 .. 100 * Parts
<1>1. decimals \in Seq(Nat)
  BY AnswersAssumption
<1>2. decimals # <<>> => Head(decimals) \in Nat
  BY <1>1
<1>. QED  BY <1>2, PartsAssumption DEF Confidence, Clamp

\* So is the feedback of the teacher.
LEMMA TeacherScoreType ==
    ASSUME NEW feedback \in TeacherAnswers
    PROVE  TeacherScore(feedback.ratios, feedback.numbers) \in 0 .. 999
<1> DEFINE ratios == feedback.ratios
           numbers == feedback.numbers
           sane == {i \in DOMAIN numbers : numbers[i] <= 100}
           Grades == 0 .. 999
<1>1. ratios \in Seq(Grades) /\ numbers \in Seq(Grades) /\ 50 \in Grades
  BY AnswersAssumption
<1>. HIDE DEF ratios, numbers, Grades
<1>2. ratios # <<>> => Head(ratios) \in Grades
  BY <1>1, RangeHeadTail
<1>3. sane \in SUBSET Nat
  BY <1>1
<1>4. sane # {} => numbers[Min(sane)] \in Grades
  <2>1. sane # {} => Min(sane) \in sane
    <3>. HIDE DEF sane
    <3>. QED  BY <1>3, FirstIsMember
  <2>2. \A i \in sane : numbers[i] \in Grades
    BY <1>1
  <2>. QED  BY <2>1, <2>2
<1>5. TeacherScore(ratios, numbers) \in Grades
  BY <1>1, <1>2, <1>4 DEF TeacherScore
<1>. QED  BY <1>5 DEF ratios, numbers, Grades

\* The opinion that is blended with the teacher's: one half if a rubric with
\* weight replaces the student's.
StudentsOpinion(a, rub) == IF TotalWeight(rub) > 0 THEN 50 * Parts ELSE a.student

\* The weights of a rubric cancel: the base score is a blend of two opinions.
LEMMA BaseIsBlend ==
    ASSUME NEW a \in Assessments, NEW rub \in Rubrics
    PROVE  /\ TotalWeight(rub) \in Int
           /\ StudentsOpinion(a, rub) \in 0 .. 100 * Parts
           /\ Base(a, rub) = Blend(a.teacher, StudentsOpinion(a, rub), a.strictness)
<1> DEFINE category == Blend(a.teacher, 50 * Parts, a.strictness)
           scaled == [c \in DOMAIN rub |-> category * rub[c]]
<1>1. IsFiniteSet(DOMAIN rub) /\ \A c \in DOMAIN rub : rub[c] \in Int
  BY RubricsAssumption
<1>2. TotalWeight(rub) \in Int
  BY <1>1, SumType DEF TotalWeight, SumFunction
<1>3. /\ a.teacher \in 0 .. 999 /\ a.strictness \in 0 .. 100 /\ a.student \in 0 .. 100 * Parts
      /\ Parts \in Nat \ {0} /\ a.teacher \in Int /\ a.strictness \in Int
  BY PartsAssumption DEF Assessments
<1>4. category \in Int
  <2>1. a.teacher * Parts \in Int /\ 50 * Parts \in Int
    BY <1>3
  <2>. QED  BY <1>3, <2>1 DEF Blend
<1>5. DOMAIN scaled = DOMAIN rub /\ \A c \in DOMAIN rub : scaled[c] = category * rub[c]
  OBVIOUS
<1>. HIDE DEF category, scaled
<1>6. SumFunctionOnSet(scaled, DOMAIN rub) = category * SumFunctionOnSet(rub, DOMAIN rub)
  BY <1>1, <1>4, <1>5, SumScale
<1>7. SumFunction(scaled) = category * TotalWeight(rub)
  BY <1>5, <1>6 DEF TotalWeight, SumFunction
<1>8. CASE TotalWeight(rub) > 0
  <2>1. SumFunction(scaled) \div TotalWeight(rub) = category
    BY <1>2, <1>4, <1>7, <1>8, ExactDivision
  <2>2. Base(a, rub) = SumFunction(scaled) \div TotalWeight(rub)
    BY <1>8 DEF Base, category, scaled
  <2>. QED  BY <1>2, <1>3, <1>8, <2>1, <2>2 DEF StudentsOpinion, category
<1>9. CASE ~(TotalWeight(rub) > 0)
  BY <1>2, <1>3, <1>9 DEF StudentsOpinion, Base
<1>. QED  BY <1>8, <1>9

\* A blend lies between the opinions it weighs, in hundredths.
LEMMA BlendBetween ==
    ASSUME NEW t \in Nat, NEW o \in Nat, NEW w \in 0 .. 100, NEW low \in Nat, NEW high \in Nat,
           low <= t * Parts, low <= o, t * Parts <= high, o <= high
    PROVE  /\ Blend(t, o, w) \in Nat
           /\ low * 100 <= Blend(t, o, w) /\ Blend(t, o, w) <= high * 100
<1>1. Parts \in Nat /\ t * Parts \in Nat /\ w \in Nat /\ 100 - w \in Nat
  BY PartsAssumption
<1>2. low * w <= (t * Parts) * w /\ (t * Parts) * w <= high * w
  BY <1>1, Monotonic
<1>3. low * (100 - w) <= o * (100 - w) /\ o * (100 - w) <= high * (100 - w)
  BY <1>1, Monotonic
<1>4. /\ low * w + low * (100 - w) = low * 100
      /\ high * w + high * (100 - w) = high * 100
  BY <1>1
<1>5. /\ (t * Parts) * w \in Nat /\ o * (100 - w) \in Nat
      /\ low * w \in Nat /\ low * (100 - w) \in Nat /\ high * w \in Nat /\ high * (100 - w) \in Nat
  BY <1>1
<1>6. Blend(t, o, w) = (t * Parts) * w + o * (100 - w)
  BY DEF Blend
<1> DEFINE a == (t * Parts) * w
           b == o * (100 - w)
           c == low * w
           d == low * (100 - w)
           e == high * w
           f == high * (100 - w)
<1>. HIDE DEF a, b, c, d, e, f
<1>7. /\ a \in Nat /\ b \in Nat /\ c \in Nat /\ d \in Nat /\ e \in Nat /\ f \in Nat
      /\ c <= a /\ a <= e /\ d <= b /\ b <= f
      /\ c + d = low * 100 /\ e + f = high * 100 /\ Blend(t, o, w) = a + b
  BY <1>2, <1>3, <1>4, <1>5, <1>6 DEF a, b, c, d, e, f
<1>. QED  BY <1>7

\* Raising the strictness lowers a blend in which the teacher gives less.
LEMMA BlendFalls ==
    ASSUME NEW t \in Nat, NEW o \in Nat, NEW v \in 0 .. 100, NEW w \in 0 .. 100,
           v <= w, t * Parts <= o
    PROVE  Blend(t, o, w) <= Blend(t, o, v)
<1> DEFINE k == o - t * Parts
<1>1. Parts \in Nat /\ t * Parts \in Nat /\ k \in Nat /\ v \in Int /\ w \in Int
  BY PartsAssumption
<1>2. v * k <= w * k
  BY <1>1, Monotonic
<1>3. ASSUME NEW u \in 0 .. 100 PROVE Blend(t, o, u) = o * 100 - u * k /\ u * k \in Int
  <2> DEFINE p == t * Parts
  <2>1. p \in Nat /\ Blend(t, o, u) = p * u + o * (100 - u) /\ k = o - p /\ u \in Nat
    BY <1>1 DEF Blend
  <2>. HIDE DEF p, k
  <2>. QED  BY <2>1
<1>. HIDE DEF k
<1>4. v * k \in Int /\ w * k \in Int /\ o * 100 \in Int
  BY <1>1
<1>. QED  BY <1>2, <1>3, <1>4

\* The scores there are.
Scores == 0 .. 10000 * Parts

\* The score of an assessment is an exact number within the scale; it exceeds
\* the base by at most the two bonuses, if the scale allows.
LEMMA FinalBounds ==
    ASSUME NEW a \in Assessments, NEW rub, NEW base \in Nat, Base(a, rub) = base
    PROVE  /\ Final(a, rub) \in Scores
           /\ base <= Final(a, rub) \/ Final(a, rub) = 10000 * Parts
           /\ Final(a, rub) <= base + 350 * Parts
<1>1. Parts \in Nat /\ Points(100) = 10000 * Parts /\ 10000 * Parts \in Nat
  BY PartsAssumption DEF Points
<1>2. Adjustment(a) \in 0 .. 350 * Parts
  BY <1>1 DEF Adjustment
<1>. QED  BY <1>1, <1>2 DEF Final, Clamp, Scores

\* What clients are shown is the score to the nearest hundredth.
LEMMA ShownIsNear ==
    ASSUME NEW s \in Scores, NEW h \in Shown(s)
    PROVE  /\ h \in Hundredths
           /\ 2 * s - Parts <= 2 * (h * Parts) /\ 2 * (h * Parts) <= 2 * s + Parts
<1> DEFINE d == s \div Parts
<1>1. Parts \in Nat \ {0} /\ s \in 0 .. 10000 * Parts /\ s \in Nat
  BY PartsAssumption DEF Scores
<1>2. d \in Nat /\ h \in {d, d + 1}
  BY <1>1 DEF Shown
<1>3. h \in Nat /\ h * Parts \in Nat
  BY <1>1, <1>2
<1>4. 2 * (s - h * Parts) \in -Parts .. Parts
  BY DEF Shown
<1>5. 2 * s - Parts <= 2 * (h * Parts) /\ 2 * (h * Parts) <= 2 * s + Parts
  BY <1>1, <1>3, <1>4
<1>6. h * Parts < 10001 * Parts
  <2>1. 2 * s + Parts <= 20001 * Parts
    BY <1>1
  <2>. QED  BY <1>1, <1>3, <1>5, <2>1
<1>7. h < 10001
  BY <1>1, <1>3, <1>6, Cancel
<1>. QED  BY <1>3, <1>5, <1>7 DEF Hundredths

-----------------------------------------------------------------------------
(* What is kept of the results                                             *)

\* Each result is what the engine makes of its assessment, with the rubric of
\* the session; without a rubric it can compute with there are none.
ResultsComputed ==
    /\ results \in Seq(Results)
    /\ results # <<>> => rubric \in Rubrics
    /\ \A i \in DOMAIN results :
        LET score == Final(results[i].a, rubric)
        IN  /\ results[i].passed \in Verdicts(score, PassThreshold)
            /\ results[i].shown \in Shown(score)

\* The score of one assessment, with the rubric the session has.
LEMMA ScoreOf ==
    ASSUME NEW a \in Assessments, NEW rub \in Rubrics
    PROVE  LET t == a.teacher
               o == StudentsOpinion(a, rub)
               w == a.strictness
           IN  /\ t \in Nat /\ o \in Nat /\ w \in 0 .. 100
               /\ Blend(t, o, w) \in Nat
               /\ Base(a, rub) = Blend(t, o, w)
               /\ Final(a, rub) \in Scores
               /\ Blend(t, o, w) <= Final(a, rub) \/ Final(a, rub) = 10000 * Parts
               /\ Final(a, rub) <= Blend(t, o, w) + 350 * Parts
<1> DEFINE t == a.teacher
           o == StudentsOpinion(a, rub)
           w == a.strictness
           high == t * Parts + o
<1>1. Parts \in Nat /\ t \in Nat /\ w \in 0 .. 100 /\ 100 * Parts \in Nat
  BY PartsAssumption DEF Assessments
<1>2. o \in Nat /\ Base(a, rub) = Blend(t, o, w)
  BY <1>1, BaseIsBlend
<1>3. t * Parts \in Nat
  BY <1>1
<1>. HIDE DEF t, o, w
<1>4. high \in Nat /\ t * Parts <= high /\ o <= high /\ 0 <= t * Parts /\ 0 <= o
  BY <1>2, <1>3
<1>. HIDE DEF high
<1>5. Blend(t, o, w) \in Nat
  BY <1>1, <1>2, <1>4, BlendBetween
<1>6. /\ Final(a, rub) \in Scores
      /\ Blend(t, o, w) <= Final(a, rub) \/ Final(a, rub) = 10000 * Parts
      /\ Final(a, rub) <= Blend(t, o, w) + 350 * Parts
  BY <1>2, <1>5, FinalBounds
<1>. QED  BY <1>1, <1>2, <1>5, <1>6 DEF t, o, w

\* A verdict agrees with any number that the score may be shown as.
LEMMA VerdictMatchesShown ==
    ASSUME NEW s \in Scores, NEW h \in Shown(s),
           NEW passed \in Verdicts(s, PassThreshold), h # 100 * PassThreshold
    PROVE  passed <=> h > 100 * PassThreshold
<1> DEFINE limit == 100 * PassThreshold
<1>1. Parts \in Nat \ {0} /\ limit \in Int /\ s \in Nat /\ h \in Nat
  <2>1. h \in Hundredths
    BY ShownIsNear
  <2>2. Parts \in Nat \ {0} /\ 10000 * Parts \in Nat /\ limit \in Int
    BY PartsAssumption, PassThresholdAssumption
  <2>. QED  BY <2>1, <2>2 DEF Hundredths, Scores
<1>2. Points(PassThreshold) = limit * Parts
  <2>1. PassThreshold * 100 = limit
    BY PassThresholdAssumption
  <2>. QED  BY <2>1 DEF Points
<1>3. h * Parts \in Int /\ limit * Parts \in Int /\ (limit - 1) * Parts \in Int
      /\ (limit + 1) * Parts \in Int
  BY <1>1
<1>4. 2 * s - Parts <= 2 * (h * Parts) /\ 2 * (h * Parts) <= 2 * s + Parts
  BY ShownIsNear
<1>. HIDE DEF limit
<1>5. (limit + 1) * Parts = limit * Parts + Parts /\ (limit - 1) * Parts = limit * Parts - Parts
  BY <1>1
<1>6. ASSUME h > limit PROVE s > limit * Parts
  <2>1. (limit + 1) * Parts <= h * Parts
    BY <1>1, <1>6, Monotonic
  <2>. QED  BY <1>1, <1>3, <1>4, <1>5, <2>1
<1>7. ASSUME h < limit PROVE s < limit * Parts
  <2>1. h * Parts <= (limit - 1) * Parts
    BY <1>1, <1>7, Monotonic
  <2>. QED  BY <1>1, <1>3, <1>4, <1>5, <2>1
<1>8. h > limit \/ h < limit
  BY <1>1 DEF limit
<1>9. CASE h > limit
  <2>1. s # Points(PassThreshold) /\ s > Points(PassThreshold)
    BY <1>1, <1>2, <1>3, <1>6, <1>9
  <2>2. (s > Points(PassThreshold)) = TRUE
    BY <2>1
  <2>3. passed = TRUE
    BY <2>1, <2>2, Zenon DEF Verdicts
  <2>. QED  BY <1>9, <2>3 DEF limit
<1>10. CASE h < limit
  <2>1. s # Points(PassThreshold) /\ ~(s > Points(PassThreshold))
    BY <1>1, <1>2, <1>3, <1>7, <1>10
  <2>2. ~(h > limit)
    BY <1>1, <1>10
  <2>3. (s > Points(PassThreshold)) = FALSE
    BY <2>1
  <2>4. passed = FALSE
    BY <2>1, <2>3, Zenon DEF Verdicts
  <2>. QED  BY <2>2, <2>4 DEF limit
<1>. QED  BY <1>8, <1>9, <1>10

\* One result.
LEMMA ResultAt ==
    ASSUME ResultsComputed, NEW i \in DOMAIN results
    PROVE  /\ results[i].a \in Assessments /\ results[i].shown \in Hundredths
           /\ results[i].passed \in BOOLEAN /\ rubric \in Rubrics
           /\ Final(results[i].a, rubric) \in Scores
           /\ results[i].passed \in Verdicts(Final(results[i].a, rubric), PassThreshold)
           /\ results[i].shown \in Shown(Final(results[i].a, rubric))
<1>1. results[i] \in Results /\ rubric \in Rubrics
  BY DEF ResultsComputed
<1>2. \A r \in Results : r.a \in Assessments /\ r.shown \in Hundredths /\ r.passed \in BOOLEAN
  BY DEF Results
<1>3. Final(results[i].a, rubric) \in Scores
  BY <1>1, <1>2, ScoreOf
<1>4. /\ results[i].passed \in Verdicts(Final(results[i].a, rubric), PassThreshold)
      /\ results[i].shown \in Shown(Final(results[i].a, rubric))
  BY DEF ResultsComputed
<1>5. results[i].a \in Assessments /\ results[i].shown \in Hundredths /\ results[i].passed \in BOOLEAN
  BY <1>1, <1>2
<1>. QED  BY <1>1, <1>3, <1>4, <1>5, Zenon

\* The properties of the results follow from how they are computed.
LEMMA ShownDecides == ResultsComputed => ShownScoreDecides
<1>. SUFFICES ASSUME ResultsComputed, NEW i \in DOMAIN results,
                     results[i].shown # 100 * PassThreshold
              PROVE  results[i].passed <=> results[i].shown > 100 * PassThreshold
  BY DEF ShownScoreDecides
<1>. QED  BY ResultAt, VerdictMatchesShown

\* With another strictness the blend falls, and the bonuses stay.
LEMMA StricterIsHarder == ResultsComputed => HarderIfTeacherStricter
<1>. SUFFICES ASSUME ResultsComputed, NEW i \in DOMAIN results,
                     NEW n \in Requests,
                     results[i].a.strictness <= Clamp(n, 0, 100),
                     results[i].a.teacher * Parts <= Opinion(results[i])
              PROVE  Final([results[i].a EXCEPT !.strictness = Clamp(n, 0, 100)], rubric)
                        <= Final(results[i].a, rubric)
  BY DEF HarderIfTeacherStricter
<1> DEFINE a == results[i].a
           w == Clamp(n, 0, 100)
           b == [a EXCEPT !.strictness = w]
           o == StudentsOpinion(a, rubric)
<1>1. a \in Assessments /\ rubric \in Rubrics
  BY ResultAt
<1>2. w \in 0 .. 100
  BY RequestsAssumption DEF Clamp
<1>3. b \in Assessments /\ b.strictness = w /\ b.teacher = a.teacher /\ b.student = a.student
      /\ b.accepted = a.accepted /\ b.listened = a.listened
  <2>. HIDE DEF a, w
  <2>. QED  BY <1>1, <1>2 DEF Assessments
<1>4. o = Opinion(results[i]) /\ o = StudentsOpinion(b, rubric)
  BY <1>3 DEF Opinion, StudentsOpinion
<1>5. a.strictness <= w /\ a.teacher * Parts <= o
  BY <1>4
<1>. HIDE DEF a, w, b, o
<1>6. /\ a.teacher \in Nat /\ o \in Nat /\ a.strictness \in 0 .. 100
      /\ Base(a, rubric) = Blend(a.teacher, o, a.strictness)
      /\ Base(b, rubric) = Blend(a.teacher, o, w)
      /\ Base(a, rubric) \in Nat /\ Base(b, rubric) \in Nat
  BY <1>1, <1>3, <1>4, ScoreOf DEF o
<1>7. Base(b, rubric) <= Base(a, rubric)
  BY <1>2, <1>5, <1>6, BlendFalls
<1>8. Adjustment(b) = Adjustment(a) /\ Adjustment(a) \in Nat /\ Points(100) \in Nat
  BY <1>3, PartsAssumption DEF Adjustment, Points
<1>9. Final(b, rubric) <= Final(a, rubric)
  BY <1>6, <1>7, <1>8 DEF Final, Clamp
<1>. QED  BY <1>9 DEF a, w, b

\* The blend is between the opinions, and the score near the blend.
LEMMA ScoreIsBetween == ResultsComputed => ScoreBetweenOpinions
<1>. SUFFICES ASSUME ResultsComputed, NEW i \in DOMAIN results
              PROVE  LET r == results[i]
                         s == r.a.teacher * Parts
                         o == Opinion(r)
                     IN  Between(Clamp(IF s < o THEN s ELSE o, 0, 100 * Parts) * 100 - Parts,
                                 r.shown * Parts,
                                 Clamp((IF s < o THEN o ELSE s) * 100 + 350 * Parts, 0, Points(100))
                                    + Parts)
  BY DEF ScoreBetweenOpinions
<1> DEFINE r == results[i]
           a == r.a
           s == a.teacher * Parts
           o == Opinion(r)
           low == IF s < o THEN s ELSE o
           high == IF s < o THEN o ELSE s
           base == Base(a, rubric)
           score == Final(a, rubric)
           shown == r.shown * Parts
<1>1. a \in Assessments /\ rubric \in Rubrics /\ Parts \in Nat \ {0} /\ r.shown \in Nat
  <2>1. a \in Assessments /\ rubric \in Rubrics /\ r.shown \in Hundredths
    BY ResultAt
  <2>2. Parts \in Nat \ {0}
    BY PartsAssumption
  <2>3. \A h \in Hundredths : h \in Nat
    BY DEF Hundredths
  <2>. QED  BY <2>1, <2>2, <2>3, Zenon
<1>2. o = StudentsOpinion(a, rubric)
  BY DEF Opinion, StudentsOpinion
<1>3. /\ a.teacher \in Nat /\ a.strictness \in 0 .. 100 /\ o \in 0 .. 100 * Parts
      /\ o \in Nat /\ base = Blend(a.teacher, o, a.strictness) /\ base \in Nat
      /\ score \in Scores
      /\ base <= score \/ score = 10000 * Parts
      /\ score <= base + 350 * Parts
  BY <1>1, <1>2, ScoreOf, BaseIsBlend
<1>4. s \in Nat /\ shown \in Nat
  BY <1>1, <1>3
<1>5. score \in Nat /\ score <= 10000 * Parts
  <2>1. 10000 * Parts \in Nat
    BY <1>1
  <2>. QED  BY <1>3, <2>1 DEF Scores
<1>6. 2 * score - Parts <= 2 * shown /\ 2 * shown <= 2 * score + Parts
  BY ResultAt, ShownIsNear
<1>. HIDE DEF s, o, base, score, shown
<1>7. low \in Nat /\ high \in Nat /\ low <= s /\ low <= o /\ s <= high /\ o <= high
  BY <1>3, <1>4
<1>8. low * 100 <= base /\ base <= high * 100
  <2>1. low <= a.teacher * Parts /\ a.teacher * Parts <= high
    BY <1>7 DEF s
  <2>2. /\ low * 100 <= Blend(a.teacher, o, a.strictness)
        /\ Blend(a.teacher, o, a.strictness) <= high * 100
    <3>. HIDE DEF low, high, a
    <3>1. /\ a.teacher \in Nat /\ o \in Nat /\ a.strictness \in 0 .. 100
          /\ low \in Nat /\ high \in Nat /\ low <= o /\ o <= high
      BY <1>3, <1>7
    <3>. QED  BY <2>1, <3>1, BlendBetween
  <2>. QED  BY <1>3, <2>2
<1>9. low <= 100 * Parts
  BY <1>1, <1>3, <1>7
<1>. HIDE DEF low, high
<1>10. Clamp(low, 0, 100 * Parts) = low
  BY <1>1, <1>7, <1>9 DEF Clamp
<1>11. low * 100 - Parts <= shown
  <2>1. low * 100 <= score
    BY <1>1, <1>3, <1>7, <1>8, <1>9, <1>5
  <2>. QED  BY <1>1, <1>4, <1>6, <1>7, <1>5, <2>1
<1>12. shown <= Clamp(high * 100 + 350 * Parts, 0, Points(100)) + Parts
  <2>1. Points(100) = 10000 * Parts /\ Points(100) \in Nat
    BY <1>1 DEF Points
  <2>2. score <= Clamp(high * 100 + 350 * Parts, 0, Points(100))
    BY <1>1, <1>3, <1>7, <1>8, <1>5, <2>1 DEF Clamp
  <2>3. Clamp(high * 100 + 350 * Parts, 0, Points(100)) \in Nat
    BY <1>1, <1>7, <2>1 DEF Clamp
  <2>. QED  BY <1>1, <1>4, <1>6, <1>5, <2>2, <2>3
<1>. QED  BY <1>10, <1>11, <1>12 DEF Between, low, high, s, o, shown

-----------------------------------------------------------------------------
(* The lesson is a session                                                 *)

\* A verdict is yes or no.
LEMMA VerdictsAreBoolean ==
    ASSUME NEW score, NEW threshold, NEW passed \in Verdicts(score, threshold)
    PROVE  passed \in BOOLEAN
<1>1. (score > Points(threshold)) \in BOOLEAN
  OBVIOUS
<1>2. CASE score = Points(threshold)
  BY <1>2, Zenon DEF Verdicts
<1>3. CASE score # Points(threshold)
  BY <1>1, <1>3, Zenon DEF Verdicts
<1>. QED  BY <1>2, <1>3

\* Each step of a loop of the lesson is a step of a loop of the session.
LEMMA LessonStepIsLoopStep == ASSUME NEW l \in Loops, LessonStep(l) PROVE LoopStep(l)
<1>1. CASE Begin(l) \/ Answer(l) \/ AssessFails(l) \/ Fail(l)
  BY <1>1 DEF Answer, AssessFails, LoopStep
<1>2. CASE Assess(l)
  <2>1. \E passed \in BOOLEAN : Score(l, passed)
    BY <1>2, VerdictsAreBoolean DEF Assess
  <2>. QED  BY <2>1 DEF LoopStep
<1>3. ASSUME NEW outcome \in Deliveries, Deliver(l, outcome) PROVE LoopStep(l)
  BY <1>3 DEF LoopStep
<1>. QED  BY <1>1, <1>2, <1>3 DEF LessonStep

\* Each step of the lesson is one of the session, or none.
LEMMA LessonNextIsNext == [LessonNext]_lessonVars => [Next]_vars
<1>1. ASSUME NEW l \in Loops, LessonStep(l) PROVE Next
  BY <1>1, LessonStepIsLoopStep DEF Next
<1>2. Handle => Next
  BY DEF Handle, Next
<1>3. ASSUME NEW w \in Requests, UpdateStrictness(w) PROVE UNCHANGED vars
  BY <1>3 DEF UpdateStrictness
<1>. QED  BY <1>1, <1>2, <1>3 DEF LessonNext, lessonVars

\* Whatever the agents answer and clients ask for, a lesson is a session with
\* teaching loops: all that holds of those holds of it.
THEOREM LessonIsSession == LessonSpec => FairSpec
<1>1. LessonInit => Init
  BY DEF LessonInit
<1>. QED  BY <1>1, LessonNextIsNext, PTL DEF LessonSpec, FairSpec, Spec

-----------------------------------------------------------------------------
(* What the lesson computes                                                *)

LessonInv == SessionInv /\ LessonTypeOK /\ ResultsComputed

\* Nothing heard is something to keep.
LEMMA SilenceType == Silence \in Heard
<1>. QED  BY PartsAssumption DEF Silence, Heard

\* A new lesson has no results.
LEMMA LessonInitInv == LessonInit => LessonInv
<1>. SUFFICES ASSUME LessonInit PROVE LessonInv
  OBVIOUS
<1>1. SessionInv
  BY InitInv DEF LessonInit
<1>2. LessonTypeOK
  BY SilenceType DEF LessonInit, LessonTypeOK
<1>3. ResultsComputed
  <2>1. results = <<>> /\ results \in Seq(Results) /\ DOMAIN results = {}
    BY DEF LessonInit
  <2>. QED  BY <2>1 DEF ResultsComputed
<1>. QED  BY <1>1, <1>2, <1>3 DEF LessonInv

\* Steps that leave the results and what was heard alone.
LEMMA LessonKept ==
    ASSUME LessonInv, UNCHANGED <<rubric, results>>, strictness' \in 0 .. 100,
           heard' \in [Loops -> Heard]
    PROVE  LessonTypeOK' /\ ResultsComputed'
<1>. QED  BY DEF LessonInv, LessonTypeOK, ResultsComputed

\* A new result is computed from the strictness of the moment and from what
\* the agents said.
LEMMA AssessComputes ==
    ASSUME LessonInv, NEW l \in Loops, Assess(l)
    PROVE  /\ \E x \in Results :
                 /\ results' = Append(results, x)
                 /\ Score(l, x.passed)
           /\ LessonTypeOK' /\ ResultsComputed'
<1>1. PICK feedback \in TeacherAnswers, listened \in BOOLEAN :
        LET a == [strictness |-> strictness,
                  teacher |-> TeacherScore(feedback.ratios, feedback.numbers),
                  student |-> heard[l].student, accepted |-> heard[l].accepted,
                  listened |-> listened]
            score == Final(a, rubric)
        IN  /\ rubric # Broken
            /\ \E passed \in Verdicts(score, PassThreshold), shown \in Shown(score) :
                  /\ Score(l, passed)
                  /\ results' = Append(results, [a |-> a, shown |-> shown, passed |-> passed])
            /\ heard' = [heard EXCEPT ![l] = Silence]
            /\ UNCHANGED <<strictness, rubric>>
  BY DEF Assess
<1> DEFINE a == [strictness |-> strictness,
                 teacher |-> TeacherScore(feedback.ratios, feedback.numbers),
                 student |-> heard[l].student, accepted |-> heard[l].accepted,
                 listened |-> listened]
           score == Final(a, rubric)
<1>2. PICK passed \in Verdicts(score, PassThreshold), shown \in Shown(score) :
        /\ Score(l, passed)
        /\ results' = Append(results, [a |-> a, shown |-> shown, passed |-> passed])
  BY <1>1
<1>3. rubric \in Rubrics /\ UNCHANGED <<strictness, rubric>>
      /\ heard' = [heard EXCEPT ![l] = Silence]
  BY <1>1 DEF LessonInv, LessonTypeOK
<1>4. a \in Assessments
  <2>1. heard[l] \in Heard /\ strictness \in 0 .. 100
    BY DEF LessonInv, LessonTypeOK
  <2>2. heard[l].student \in 0 .. 100 * Parts /\ heard[l].accepted \in BOOLEAN
    BY <2>1 DEF Heard
  <2>3. TeacherScore(feedback.ratios, feedback.numbers) \in 0 .. 999
    BY TeacherScoreType
  <2> DEFINE t == TeacherScore(feedback.ratios, feedback.numbers)
             Grades == 0 .. 999
             Confidences == 0 .. 100 * Parts
             Percent == 0 .. 100
  <2>4. t \in Grades /\ heard[l].student \in Confidences /\ strictness \in Percent
    BY <2>1, <2>2, <2>3
  <2>. HIDE DEF t, Grades, Confidences, Percent
  <2>5. [strictness |-> strictness, teacher |-> t, student |-> heard[l].student,
         accepted |-> heard[l].accepted, listened |-> listened]
           \in [strictness : Percent, teacher : Grades, student : Confidences,
                accepted : BOOLEAN, listened : BOOLEAN]
    BY <2>2, <2>4
  <2>. QED  BY <2>5 DEF Assessments, t, Grades, Confidences, Percent
<1>. HIDE DEF a
<1>5. score \in Scores
  BY <1>3, <1>4, ScoreOf
<1>. HIDE DEF score
<1> DEFINE x == [a |-> a, shown |-> shown, passed |-> passed]
<1>6. x \in Results
  <2>1. shown \in Hundredths
    BY <1>5, ShownIsNear
  <2>2. passed \in BOOLEAN
    BY VerdictsAreBoolean
  <2>. QED  BY <1>4, <2>1, <2>2 DEF Results
<1>7. x.a = a /\ x.shown = shown /\ x.passed = passed
  OBVIOUS
<1>8. results' = Append(results, x) /\ Score(l, x.passed)
  BY <1>2
<1>. HIDE DEF x
<1>9. LessonTypeOK'
  <2>1. results' \in Seq(Results)
    BY <1>6, <1>8 DEF LessonInv, ResultsComputed
  <2>. QED  BY <1>3, <2>1, SilenceType DEF LessonInv, LessonTypeOK
<1>10. ResultsComputed'
  <2>1. results \in Seq(Results) /\ results' \in Seq(Results)
    BY <1>6, <1>8 DEF LessonInv, ResultsComputed
  <2>2. ASSUME NEW i \in DOMAIN results'
        PROVE  /\ results'[i].passed \in Verdicts(Final(results'[i].a, rubric), PassThreshold)
               /\ results'[i].shown \in Shown(Final(results'[i].a, rubric))
    <3>1. (i \in DOMAIN results /\ results'[i] = results[i]) \/ results'[i] = x
      BY <1>8, <2>1, <2>2
    <3>2. CASE i \in DOMAIN results /\ results'[i] = results[i]
      <4>1. /\ results[i].passed \in Verdicts(Final(results[i].a, rubric), PassThreshold)
            /\ results[i].shown \in Shown(Final(results[i].a, rubric))
        BY <3>2 DEF LessonInv, ResultsComputed
      <4>. QED  BY <3>2, <4>1
    <3>3. CASE results'[i] = x
      BY <1>7, <3>3 DEF score
    <3>. QED  BY <3>1, <3>2, <3>3
  <2>. QED  BY <1>3, <2>1, <2>2 DEF ResultsComputed
<1>. QED  BY <1>6, <1>8, <1>9, <1>10

\* Only the scoring adds a result, and only clients set the strictness.
LEMMA LessonNextInv == LessonInv /\ [LessonNext]_lessonVars => LessonInv'
<1>. SUFFICES ASSUME LessonInv, [LessonNext]_lessonVars PROVE LessonInv'
  OBVIOUS
<1>1. SessionInv'
  BY LessonNextIsNext, NextInv DEF LessonInv
<1>2. strictness \in 0 .. 100 /\ heard \in [Loops -> Heard]
  BY DEF LessonInv, LessonTypeOK
<1>3. CASE Handle \/ UNCHANGED lessonVars
  <2>1. UNCHANGED <<strictness, rubric, heard, results>>
    BY <1>3 DEF Handle, lessonVars
  <2>. QED  BY <1>1, <1>2, <2>1, LessonKept DEF LessonInv
<1>4. ASSUME NEW w \in Requests, UpdateStrictness(w) PROVE LessonTypeOK' /\ ResultsComputed'
  <2>1. Clamp(w, 0, 100) \in 0 .. 100
    BY RequestsAssumption DEF Clamp
  <2>. QED  BY <1>2, <1>4, <2>1, LessonKept DEF UpdateStrictness
<1>5. ASSUME NEW l \in Loops, Answer(l) PROVE LessonTypeOK' /\ ResultsComputed'
  <2>1. \A h \in Heard, accepted \in BOOLEAN : [h EXCEPT !.accepted = accepted] \in Heard
    BY DEF Heard
  <2>2. \A h \in Heard, student \in 0 .. 100 * Parts : [h EXCEPT !.student = student] \in Heard
    BY DEF Heard
  <2>3. heard' \in [Loops -> Heard]
    <3>1. ASSUME NEW accepted \in BOOLEAN, heard' = [heard EXCEPT ![l].accepted = accepted]
          PROVE  heard' \in [Loops -> Heard]
      BY <1>2, <2>1, <3>1
    <3>2. ASSUME NEW decimals \in StudentAnswers,
                 heard' = [heard EXCEPT ![l].student = Confidence(decimals)]
          PROVE  heard' \in [Loops -> Heard]
      <4>1. Confidence(decimals) \in 0 .. 100 * Parts
        BY ConfidenceType
      <4>2. [heard[l] EXCEPT !.student = Confidence(decimals)] \in Heard
        BY <1>2, <2>2, <4>1
      <4>. QED  BY <1>2, <3>2, <4>2
    <3>. QED  BY <1>2, <1>5, <3>1, <3>2 DEF Answer
  <2>. QED  BY <1>2, <1>5, <2>3, LessonKept DEF Answer
<1>6. ASSUME NEW l \in Loops, LessonStep(l), ~Answer(l), ~Assess(l)
      PROVE  LessonTypeOK' /\ ResultsComputed'
  <2>1. UNCHANGED <<strictness, rubric, results>>
        /\ heard' \in {heard, [heard EXCEPT ![l] = Silence]}
    BY <1>6 DEF LessonStep, AssessFails
  <2>2. heard' \in [Loops -> Heard]
    BY <1>2, <2>1, SilenceType
  <2>. QED  BY <1>2, <2>1, <2>2, LessonKept
<1>. QED  BY <1>1, <1>3, <1>4, <1>5, <1>6, AssessComputes DEF LessonNext, LessonInv

\* The invariant of what a lesson computes.
THEOREM LessonInvariant == LessonSpec => []LessonInv
<1>. QED  BY LessonInitInv, LessonNextInv, PTL DEF LessonSpec

\* The strictness stays within its scale, whatever clients put, and scores
\* within theirs, whatever the agents answer.
THEOREM LessonTypeCorrect == LessonSpec => []LessonTypeOK
<1>1. LessonInv => LessonTypeOK
  BY DEF LessonInv
<1>. QED  BY <1>1, LessonInvariant, PTL

\* What a client is shown and the verdict never disagree.
THEOREM ShownAgreesWithVerdict == LessonSpec => []ShownScoreDecides
<1>1. LessonInv => ShownScoreDecides
  BY ShownDecides DEF LessonInv
<1>. QED  BY <1>1, LessonInvariant, PTL

\* A score is between the opinions it blends, but for the bonuses.
THEOREM ScoresAreBetween == LessonSpec => []ScoreBetweenOpinions
<1>1. LessonInv => ScoreBetweenOpinions
  BY ScoreIsBetween DEF LessonInv
<1>. QED  BY <1>1, LessonInvariant, PTL

\* Raising the strictness never helps whom the teacher judges harder.
THEOREM StricterNeverHelps == LessonSpec => []HarderIfTeacherStricter
<1>1. LessonInv => HarderIfTeacherStricter
  BY StricterIsHarder DEF LessonInv
<1>. QED  BY <1>1, LessonInvariant, PTL

-----------------------------------------------------------------------------
(* Verdicts and the end of the lesson                                      *)

\* The results so far: as many as iterations are allowed, a pass the last one.
Limit == IF MaxIterations > 0 THEN MaxIterations ELSE 0
AllFail(res) == \A i \in DOMAIN res : ~res[i].passed
PassedLast(res) == res # <<>> /\ res[Len(res)].passed
EndAtPass(res) ==
    /\ Len(res) <= Limit
    /\ \A i \in DOMAIN res : i < Len(res) => ~res[i].passed

\* What the record of the only loop says of the results.
BackedBy(r, res) ==
    /\ EndAtPass(res)
    /\ r.pc \in {"scheduled", "rejected"} => res = <<>>
    /\ r.pc \in {"exchange", "failed"} => AllFail(res)
    /\ r.pc = "exchange" => r.iteration = Len(res) + 1 /\ r.iteration <= MaxIterations
    /\ r.pc = "flush" => r.iteration = Len(res) /\ (r.passed <=> PassedLast(res))
    /\ r.pc = "completed" => Len(res) = Limit \/ PassedLast(res)

ResultsOfLoop ==
    Alone =>
        /\ (\A l \in Loops : loop[l].pc = "idle") => results = <<>>
        /\ \A l \in Loops : loop[l].pc # "idle" => BackedBy(loop[l], results)

\* A session that is completed has a loop that completed it.
CompletedByLoop == status = "completed" => \E l \in Loops : loop[l].pc = "completed"

VerdictInv == ResultsOfLoop /\ CompletedByLoop

\* Without results nothing has passed and the limit is not reached.
LEMMA NoResults == EndAtPass(<<>>) /\ AllFail(<<>>) /\ ~PassedLast(<<>>) /\ Len(<<>>) = 0
<1>1. Len(<<>>) = 0 /\ DOMAIN <<>> = {} /\ 0 <= Limit
  BY MaxIterationsAssumption DEF Limit
<1>. QED  BY <1>1 DEF EndAtPass, AllFail, PassedLast

\* A new result after failures only, within the limit.
LEMMA OneMoreResult ==
    ASSUME NEW res \in Seq(Results), NEW x \in Results, AllFail(res), Len(res) + 1 <= MaxIterations
    PROVE  LET q == Append(res, x)
           IN  /\ q \in Seq(Results) /\ Len(q) = Len(res) + 1 /\ EndAtPass(q)
               /\ PassedLast(q) <=> x.passed
<1> DEFINE q == Append(res, x)
<1>1. /\ q \in Seq(Results) /\ Len(q) = Len(res) + 1 /\ q # <<>> /\ q[Len(res) + 1] = x
      /\ DOMAIN q = 1 .. Len(res) + 1 /\ DOMAIN res = 1 .. Len(res) /\ Len(res) \in Nat
  OBVIOUS
<1>2. \A i \in DOMAIN res : q[i] = res[i]
  OBVIOUS
<1>. HIDE DEF q
<1>3. \A i \in DOMAIN q : i < Len(q) => i \in DOMAIN res
  BY <1>1
<1>4. Len(q) <= Limit
  BY <1>1, MaxIterationsAssumption DEF Limit
<1>5. EndAtPass(q)
  BY <1>2, <1>3, <1>4 DEF EndAtPass, AllFail
<1>6. PassedLast(q) <=> x.passed
  BY <1>1 DEF PassedLast
<1>. QED  BY <1>1, <1>5, <1>6 DEF q

\* Failures but for the last, and that one too.
LEMMA LastFailsToo ==
    ASSUME NEW res \in Seq(Results), EndAtPass(res), ~PassedLast(res)
    PROVE  AllFail(res)
<1>1. Len(res) \in Nat /\ DOMAIN res = 1 .. Len(res)
  OBVIOUS
<1>2. ASSUME NEW i \in DOMAIN res PROVE ~res[i].passed
  <2>1. i < Len(res) \/ i = Len(res)
    BY <1>1
  <2>2. res # <<>>
    BY <1>1
  <2>. QED  BY <2>1, <2>2 DEF EndAtPass, PassedLast
<1>. QED  BY <1>2 DEF AllFail

\* After an iteration the lesson ends at a pass or at the limit, and goes on
\* otherwise.
LEMMA AfterIterationBacked ==
    ASSUME TypeOK, NEW l \in Loops, NEW passed \in BOOLEAN, NEW st \in Statuses,
           NEW res \in Seq(Results), EndAtPass(res), passed <=> PassedLast(res),
           AfterIteration(l, Len(res), passed, st)
    PROVE  BackedBy(loop'[l], res)
<1>1. Len(res) \in Nat /\ loop \in [Loops -> LoopStates]
  BY DEF TypeOK
<1>2. CASE (passed \/ Len(res) >= MaxIterations) /\ Finish(l)
  <2>1. loop'[l].pc = "completed"
    BY <1>1, <1>2 DEF Finish, LoopAt
  <2>2. Len(res) >= MaxIterations => Len(res) = Limit
    BY <1>1, MaxIterationsAssumption DEF EndAtPass, Limit
  <2>. QED  BY <1>2, <2>1, <2>2 DEF BackedBy
<1>3. CASE ~passed /\ ~(Len(res) >= MaxIterations) /\ NextIteration(l, Len(res) + 1, st)
  <2>1. loop'[l].pc = "exchange" /\ loop'[l].iteration = Len(res) + 1
    BY <1>1, <1>3 DEF NextIteration, LoopAt
  <2>2. Len(res) + 1 <= MaxIterations
    BY <1>1, <1>3, MaxIterationsAssumption
  <2>3. AllFail(res)
    BY <1>3, LastFailsToo
  <2>. QED  BY <2>1, <2>2, <2>3 DEF BackedBy
<1>. QED  BY <1>2, <1>3 DEF AfterIteration

\* Each step of the only loop.
LEMMA LoopKeepsBacking ==
    ASSUME LessonInv, NEW l \in Loops, LessonStep(l), BackedBy(loop[l], results)
    PROVE  BackedBy(loop'[l], results')
<1>1. /\ TypeOK /\ loop \in [Loops -> LoopStates] /\ loop[l].passed \in BOOLEAN
      /\ "active" \in Statuses /\ SetStatus("active") \in Statuses /\ status \in Statuses
      /\ results \in Seq(Results) /\ EndAtPass(results) /\ Len(results) \in Nat
  <2>1. TypeOK /\ loop[l] \in LoopStates /\ results \in Seq(Results)
    BY DEF LessonInv, SessionInv, TypeOK, ResultsComputed
  <2>2. \A r \in LoopStates : r.passed \in BOOLEAN
    BY DEF LoopStates
  <2>3. "active" \in Statuses /\ SetStatus("active") \in Statuses /\ status \in Statuses
    BY <2>1 DEF TypeOK, Statuses, SetStatus
  <2>. QED  BY <2>1, <2>2, <2>3 DEF TypeOK, BackedBy
<1>2. ASSUME Begin(l), UNCHANGED results PROVE BackedBy(loop'[l], results')
  <2>1. results = <<>> /\ loop[l].pc = "scheduled"
    BY <1>2 DEF Begin, BackedBy
  <2>2. CASE AfterIteration(l, 0, FALSE, "active")
    <3>1. AfterIteration(l, Len(results), FALSE, "active") /\ ~PassedLast(results)
      BY <2>1, <2>2, NoResults
    <3>2. BackedBy(loop'[l], results)
      BY <1>1, <3>1, AfterIterationBacked
    <3>. QED  BY <1>2, <3>2
  <2>3. CASE loop' = [loop EXCEPT ![l].pc = "rejected"]
    <3>1. loop'[l].pc = "rejected"
      BY <1>1, <2>3 DEF LoopStates
    <3>. QED  BY <1>2, <2>1, <3>1, NoResults DEF BackedBy
  <2>. QED  BY <1>2, <2>2, <2>3 DEF Begin
<1>3. CASE Answer(l)
  <2>1. /\ loop[l].pc = "exchange" /\ loop'[l].pc = "exchange"
        /\ loop'[l].iteration = loop[l].iteration /\ results' = results
    BY <1>1, <1>3 DEF Answer, Reply, LoopStates
  <2>. QED  BY <2>1 DEF BackedBy
<1>4. CASE Assess(l)
  <2>1. PICK x \in Results : results' = Append(results, x) /\ Score(l, x.passed)
    BY <1>4, AssessComputes
  <2>2. loop[l].pc = "exchange"
    BY <2>1 DEF Score
  <2>3. AllFail(results) /\ loop[l].iteration = Len(results) + 1 /\ Len(results) + 1 <= MaxIterations
    BY <2>2 DEF BackedBy
  <2>4. /\ results' \in Seq(Results) /\ Len(results') = Len(results) + 1 /\ EndAtPass(results')
        /\ PassedLast(results') <=> x.passed
    BY <1>1, <2>1, <2>3, OneMoreResult
  <2>5. x.passed \in BOOLEAN
    BY DEF Results
  <2>6. CASE AfterIteration(l, loop[l].iteration, x.passed, SetStatus("active"))
    <3>1. AfterIteration(l, Len(results'), x.passed, SetStatus("active"))
      BY <2>3, <2>4, <2>6
    <3>. QED  BY <1>1, <2>4, <2>5, <3>1, AfterIterationBacked
  <2>7. CASE loop' = [loop EXCEPT ![l] = LoopAt("flush", loop[l].iteration, x.passed, queue)]
    <3>1. /\ loop'[l].pc = "flush" /\ loop'[l].iteration = Len(results')
          /\ loop'[l].passed = x.passed
      BY <1>1, <2>3, <2>4, <2>7 DEF LoopAt
    <3>. QED  BY <2>4, <3>1 DEF BackedBy
  <2>. QED  BY <2>1, <2>6, <2>7 DEF Score
<1>5. ASSUME Fail(l) \/ ScoreFails(l), UNCHANGED results PROVE BackedBy(loop'[l], results')
  <2>1. loop[l].pc = "exchange" /\ loop'[l].pc = "failed"
    BY <1>1, <1>5 DEF Fail, ScoreFails, LoopStates
  <2>. QED  BY <1>5, <2>1 DEF BackedBy
<1>6. ASSUME NEW outcome \in Deliveries, Deliver(l, outcome), UNCHANGED results
      PROVE  BackedBy(loop'[l], results')
  <2>1. loop[l].pc = "flush" /\ Advance(l)
    BY <1>6 DEF Deliver
  <2>2. loop[l].iteration = Len(results) /\ (loop[l].passed <=> PassedLast(results))
    BY <2>1 DEF BackedBy
  <2>3. CASE AfterIteration(l, loop[l].iteration, loop[l].passed, status)
    <3>1. AfterIteration(l, Len(results), loop[l].passed, status)
      BY <2>2, <2>3
    <3>. QED  BY <1>1, <1>6, <2>2, <3>1, AfterIterationBacked
  <2>4. CASE \/ loop' = [loop EXCEPT ![l].to = @ + 1]
             \/ loop' = [loop EXCEPT ![l].to = 1, ![l].batch = Tail(@)]
    <3>1. /\ loop'[l].pc = "flush" /\ loop'[l].iteration = loop[l].iteration
          /\ loop'[l].passed = loop[l].passed
      BY <1>1, <2>1, <2>4 DEF LoopStates
    <3>. QED  BY <1>1, <1>6, <2>2, <3>1 DEF BackedBy
  <2>. QED  BY <2>1, <2>3, <2>4 DEF Advance
<1>7. CASE AssessFails(l)
  BY <1>5, <1>7 DEF AssessFails
<1>. QED  BY <1>2, <1>3, <1>4, <1>5, <1>6, <1>7 DEF LessonStep

\* The results agree with the loop after each step, if it is the only one.
LEMMA LessonVerdicts == LessonInv /\ ResultsOfLoop /\ [LessonNext]_lessonVars => ResultsOfLoop'
<1>. SUFFICES ASSUME LessonInv, ResultsOfLoop, [LessonNext]_lessonVars PROVE ResultsOfLoop'
  OBVIOUS
<1>1. CASE UNCHANGED <<loop, results>>
  BY <1>1 DEF ResultsOfLoop, Alone
<1>2. ASSUME NEW l \in Loops, StartTeaching(l), UNCHANGED results PROVE ResultsOfLoop'
  <2>1. /\ loop[l].pc = "idle" /\ loop'[l].pc = "scheduled"
        /\ \A k \in Loops \ {l} : loop'[k] = loop[k]
    BY <1>2 DEF StartTeaching, LessonInv, SessionInv, TypeOK, LoopStates
  <2>2. SUFFICES ASSUME Alone'
                 PROVE  \A k \in Loops : loop'[k].pc # "idle" => BackedBy(loop'[k], results')
    BY <2>1, <2>2 DEF ResultsOfLoop
  <2>3. \A k \in Loops \ {l} : loop'[k].pc = "idle"
    BY <2>1, <2>2 DEF Alone
  <2>4. Alone /\ \A k \in Loops : loop[k].pc = "idle"
    BY <2>1, <2>3 DEF Alone
  <2>5. results = <<>>
    BY <2>4 DEF ResultsOfLoop
  <2>6. BackedBy(loop'[l], results')
    BY <1>2, <2>1, <2>5, NoResults DEF BackedBy
  <2>. QED  BY <2>3, <2>6
<1>3. ASSUME NEW l \in Loops, LessonStep(l) PROVE ResultsOfLoop'
  <2>1. /\ loop[l].pc # "idle" /\ loop'[l].pc # "idle"
        /\ \A k \in Loops \ {l} : loop'[k] = loop[k]
    BY <1>3, LessonStepIsLoopStep, LoopStepStarted, LoopStepEffect DEF LessonInv
  <2>2. SUFFICES ASSUME Alone'
                 PROVE  \A k \in Loops : loop'[k].pc # "idle" => BackedBy(loop'[k], results')
    BY <2>1, <2>2 DEF ResultsOfLoop
  <2>3. \A k \in Loops \ {l} : loop'[k].pc = "idle"
    BY <2>1, <2>2 DEF Alone
  <2>4. Alone
    BY <2>1, <2>3 DEF Alone
  <2>5. BackedBy(loop[l], results)
    BY <2>1, <2>4 DEF ResultsOfLoop
  <2>. QED  BY <1>3, <2>3, <2>5, LoopKeepsBacking
<1>4. CASE Handle
  <2>1. UNCHANGED results
    BY <1>4 DEF Handle
  <2>2. CASE \E l \in Loops : StartTeaching(l)
    BY <1>2, <2>1, <2>2
  <2>3. CASE \/ \E m \in Messages, viaSocket \in BOOLEAN : Post(m, viaSocket)
             \/ FlushQueue \/ Delete
    BY <1>1, <2>1, <2>3 DEF Post, FlushQueue, Delete
  <2>. QED  BY <1>4, <2>2, <2>3 DEF Handle
<1>5. ASSUME NEW w \in Requests, UpdateStrictness(w) PROVE ResultsOfLoop'
  BY <1>1, <1>5 DEF UpdateStrictness, vars
<1>6. CASE UNCHANGED lessonVars
  BY <1>1, <1>6 DEF lessonVars, vars
<1>. QED  BY <1>3, <1>4, <1>5, <1>6 DEF LessonNext

\* Only a loop completes a session, and it stays completed.
LEMMA CompletionNext == SessionInv /\ CompletedByLoop /\ [Next]_vars => CompletedByLoop'
<1>. SUFFICES ASSUME SessionInv, CompletedByLoop, [Next]_vars PROVE CompletedByLoop'
  OBVIOUS
<1>1. ASSUME NEW l \in Loops, LoopStep(l) PROVE CompletedByLoop'
  <2>1. /\ TypeOK /\ loop \in [Loops -> LoopStates] /\ "active" \in Statuses
        /\ status \in Statuses /\ SetStatus("active") \in Statuses
        /\ loop[l].iteration \in Nat /\ loop[l].passed \in BOOLEAN
    BY DEF SessionInv, TypeOK, LoopStates, Statuses, SetStatus
  <2>2. SetStatus("active") = "completed" => status = "completed"
    BY DEF SetStatus
  <2>3. SUFFICES /\ loop[l].pc # "completed"
                 /\ status' = "completed" => status = "completed" \/ loop'[l].pc = "completed"
    <3>1. \A k \in Loops \ {l} : loop'[k] = loop[k]
      BY <1>1, LoopStepEffect
    <3>. QED  BY <2>3, <3>1 DEF CompletedByLoop
  <2>4. CASE Begin(l)
    BY <2>1, <2>4, AfterIterationEffect DEF Begin
  <2>5. CASE Reply(l) \/ Fail(l) \/ ScoreFails(l)
    BY <2>1, <2>5 DEF Reply, Fail, ScoreFails, SetStatus
  <2>6. ASSUME NEW passed \in BOOLEAN, Score(l, passed)
        PROVE  /\ loop[l].pc # "completed"
               /\ status' = "completed" => status = "completed" \/ loop'[l].pc = "completed"
    <3>1. loop[l].pc # "completed"
      BY <2>6 DEF Score
    <3>2. CASE AfterIteration(l, loop[l].iteration, passed, SetStatus("active"))
      BY <2>1, <2>2, <3>1, <3>2, AfterIterationEffect
    <3>3. CASE status' = SetStatus("active")
      BY <2>2, <3>1, <3>3
    <3>. QED  BY <2>6, <3>2, <3>3 DEF Score
  <2>7. ASSUME NEW outcome \in Deliveries, Deliver(l, outcome)
        PROVE  /\ loop[l].pc # "completed"
               /\ status' = "completed" => status = "completed" \/ loop'[l].pc = "completed"
    <3>1. loop[l].pc # "completed"
      BY <2>7 DEF Deliver
    <3>2. CASE AfterIteration(l, loop[l].iteration, loop[l].passed, status)
      BY <2>1, <3>1, <3>2, AfterIterationEffect
    <3>3. CASE UNCHANGED status
      BY <3>1, <3>3
    <3>. QED  BY <2>7, <3>2, <3>3 DEF Deliver, Advance
  <2>. QED  BY <1>1, <2>4, <2>5, <2>6, <2>7 DEF LoopStep
<1>2. ASSUME NEW l \in Loops, StartTeaching(l) PROVE CompletedByLoop'
  <2>1. /\ loop[l].pc = "idle" /\ UNCHANGED status /\ \A k \in Loops \ {l} : loop'[k] = loop[k]
    BY <1>2 DEF StartTeaching, SessionInv, TypeOK
  <2>. QED  BY <2>1 DEF CompletedByLoop
<1>3. CASE UNCHANGED <<status, loop>>
  BY <1>3 DEF CompletedByLoop
<1>. QED  BY <1>1, <1>2, <1>3 DEF Next, Post, FlushQueue, Delete, vars

\* A lesson with one loop ends by its first pass, or when its iterations are
\* used up: no result comes after a pass, nor beyond the limit, and a lesson
\* is completed for no other reason.
THEOREM LessonEndsByVerdict == LessonSpec => []EndsByVerdict
<1>1. LessonInit => VerdictInv
  <2>. SUFFICES ASSUME LessonInit PROVE VerdictInv
    OBVIOUS
  <2>1. (\A l \in Loops : loop[l].pc = "idle") /\ results = <<>> /\ status = "pending"
    BY DEF LessonInit, Init, LoopAt
  <2>. QED  BY <2>1 DEF VerdictInv, ResultsOfLoop, CompletedByLoop
<1>2. LessonInv /\ VerdictInv /\ [LessonNext]_lessonVars => VerdictInv'
  BY LessonVerdicts, CompletionNext, LessonNextIsNext DEF VerdictInv, LessonInv
<1>3. LessonInv /\ VerdictInv => EndsByVerdict
  <2>. SUFFICES ASSUME LessonInv, VerdictInv, Alone
                PROVE  /\ Len(results) <= Limit
                       /\ \A i \in DOMAIN results : i < Len(results) => ~results[i].passed
                       /\ live /\ status = "completed" =>
                            \/ results # <<>> /\ results[Len(results)].passed
                            \/ Len(results) = Limit
    BY DEF EndsByVerdict, Limit
  <2>1. EndAtPass(results)
    BY NoResults DEF VerdictInv, ResultsOfLoop, BackedBy
  <2>2. ASSUME status = "completed" PROVE Len(results) = Limit \/ PassedLast(results)
    <3>1. PICK l \in Loops : loop[l].pc = "completed"
      BY <2>2 DEF VerdictInv, CompletedByLoop
    <3>. QED  BY <3>1 DEF VerdictInv, ResultsOfLoop, BackedBy
  <2>. QED  BY <2>1, <2>2 DEF EndAtPass, PassedLast
<1>. QED  BY <1>1, <1>2, <1>3, LessonInvariant, PTL DEF LessonSpec
=============================================================================
