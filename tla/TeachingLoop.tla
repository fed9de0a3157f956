---------------------------- MODULE TeachingLoop ----------------------------
(***************************************************************************)
(* One SOLO session of ClawLink Router: its SessionState, its user message *)
(* queue, the HTTP and WebSocket handlers that act on it, and the teaching *)
(* loops started on it (router.py, session.py, message_queue.py, api.py).  *)
(* A handler, and a loop between two POSTs to an agent, run without an     *)
(* await and are one step each.  The loops are asyncio tasks: each POST    *)
(* suspends one, and whatever else is ready runs before its answer comes.  *)
(***************************************************************************)
EXTENDS Integers, Sequences, Functions, FiniteSetsExt

CONSTANTS
    Loops,         \* the tasks that POST /teach creates, one for each request
    Messages,      \* messages that clients post, each with an id of its own
    UserMessages,  \* those whose from_id is "user"
    NumAgents,     \* len(session.agents)
    MaxIterations  \* session.max_iterations, which no handler validates

ASSUME UserMessagesAssumption == UserMessages \subseteq Messages
ASSUME NumAgentsAssumption == NumAgents \in Nat /\ NumAgents >= 2
ASSUME MaxIterationsAssumption == MaxIterations \in Int

VARIABLES
    live,              \* the session is in SessionManager._sessions
    status,            \* session.status
    currentIteration,  \* session.current_iteration
    scores,            \* len(session.scores)
    exchanges,         \* how many of session.messages a teaching cycle recorded,
    replies,           \*   how many are an agent's replies to queued messages,
    stored,            \*   and the clients' messages among them, in order
    queue,             \* MessageQueue._queues of the session: waiting messages
    posted,            \* the messages accepted so far, in order of arrival
    loop,              \* the teaching loops
    inbox              \* agent -> the queued messages that reached it

vars == <<live, status, currentIteration, scores, exchanges, replies,
          stored, queue, posted, loop, inbox>>

Agents == 1 .. NumAgents
Steps == 1 .. 6   \* the six POSTs of a cycle; step 7 scores without an await

\* A loop waits for the answer of a POST of its cycle ("exchange") or of the
\* delivery of Head(batch) to the agent `to` ("flush"), or it has returned.
Running(l) == loop[l].pc \in {"exchange", "flush"}
LoopAt(pc, iteration, passed, batch) ==
    [pc |-> pc, step |-> 1, iteration |-> iteration, passed |-> passed,
     batch |-> batch, to |-> 1]

Init ==
    /\ live = TRUE
    /\ status = "pending"
    /\ currentIteration = 0 /\ scores = 0 /\ exchanges = 0 /\ replies = 0
    /\ stored = <<>> /\ queue = <<>> /\ posted = <<>>
    /\ loop = [l \in Loops |-> LoopAt("idle", 0, FALSE, <<>>)]
    /\ inbox = [a \in Agents |-> <<>>]

-----------------------------------------------------------------------------
(* Clients                                                                 *)

\* The status that makes handlers queue messages.  SCORING is set and reset
\* within one step of the event loop, so no handler ever sees it.
Busy == status = "active"

\* Mutant of Enqueue: the message goes to the front.
EnqueueFirst(m) == queue' = <<m>> \o queue /\ UNCHANGED stored

Enqueue(m) == queue' = Append(queue, m) /\ UNCHANGED stored
Store(m) == stored' = Append(stored, m) /\ UNCHANGED queue

\* POST /message queues only what comes from "user"; a message that arrives
\* over the session's WebSocket is queued whatever its from_id.
Post(m, viaSocket) ==
    /\ live /\ m \notin Range(posted)
    /\ posted' = Append(posted, m)
    /\ IF Busy /\ (viaSocket \/ m \in UserMessages) THEN Enqueue(m) ELSE Store(m)
    /\ UNCHANGED <<live, status, currentIteration, scores, exchanges, replies, loop, inbox>>

\* Mutant of FlushQueue: the queue is read but not emptied.
FlushQueueKeeps ==
    /\ live /\ queue # <<>>
    /\ stored' = stored \o queue
    /\ UNCHANGED <<live, status, currentIteration, scores, exchanges, replies,
                   queue, posted, loop, inbox>>

\* POST /queue/flush moves the queue into the session's messages.
FlushQueue ==
    /\ live /\ queue # <<>>
    /\ stored' = stored \o queue
    /\ queue' = <<>>
    /\ UNCHANGED <<live, status, currentIteration, scores, exchanges, replies, posted, loop, inbox>>

\* DELETE /sessions/{id}: the queue is dropped, the loops are left alone.
Delete ==
    /\ live
    /\ live' = FALSE
    /\ queue' = <<>>
    /\ UNCHANGED <<status, currentIteration, scores, exchanges, replies, stored, posted, loop, inbox>>

\* POST /teach schedules a task, whatever the session's status.
StartTeaching(l) ==
    /\ live /\ loop[l].pc = "idle"
    /\ loop' = [loop EXCEPT ![l].pc = "scheduled"]
    /\ UNCHANGED <<live, status, currentIteration, scores, exchanges, replies,
                   stored, queue, posted, inbox>>

-----------------------------------------------------------------------------
(* The teaching loop                                                       *)

\* The methods of SessionManager do nothing for a session that was deleted.
SetStatus(s) == IF live THEN s ELSE status
\* Mutant of Counted: the session is written to without looking it up.
CountedAnyway(n) == n + 1
Counted(n) == IF live THEN n + 1 ELSE n

\* Mutant of NextIteration: increment_iteration() is forgotten.
NextIterationUncounted(l, i, st) ==
    /\ loop' = [loop EXCEPT ![l] = LoopAt("exchange", i, FALSE, <<>>)]
    /\ status' = st
    /\ UNCHANGED currentIteration

NextIteration(l, i, st) ==
    /\ loop' = [loop EXCEPT ![l] = LoopAt("exchange", i, FALSE, <<>>)]
    /\ currentIteration' = Counted(currentIteration)
    /\ status' = st

Finish(l) ==
    /\ loop' = [loop EXCEPT ![l] = LoopAt("completed", 0, FALSE, <<>>)]
    /\ status' = SetStatus("completed")
    /\ UNCHANGED currentIteration

\* Mutant of AfterIteration: the loop goes on when the student passed.
AfterIterationToLimit(l, i, passed, st) ==
    IF i >= MaxIterations THEN Finish(l) ELSE NextIteration(l, i + 1, st)

\* How the loop goes on after its i-th iteration, in the step that ends it;
\* st is the status that this step has set so far.
AfterIteration(l, i, passed, st) ==
    IF passed \/ i >= MaxIterations THEN Finish(l) ELSE NextIteration(l, i + 1, st)

\* Mutant of Begin: a task whose session is gone is not rejected.
BeginLiveOnly(l) ==
    /\ loop[l].pc = "scheduled" /\ live
    /\ AfterIteration(l, 0, FALSE, "active")
    /\ UNCHANGED <<live, scores, exchanges, replies, stored, queue, posted, inbox>>

\* The task runs up to its first POST, or is rejected because the session was
\* deleted in the meantime.  With no iteration to run it completes at once.
Begin(l) ==
    /\ loop[l].pc = "scheduled"
    /\ \/ live /\ AfterIteration(l, 0, FALSE, "active")
       \/ /\ ~live
          /\ loop' = [loop EXCEPT ![l].pc = "rejected"]
          /\ UNCHANGED <<status, currentIteration>>
    /\ UNCHANGED <<live, scores, exchanges, replies, stored, queue, posted, inbox>>

\* Steps 1 to 5: the answer is recorded and the next POST is sent.
Reply(l) ==
    /\ loop[l].pc = "exchange" /\ loop[l].step < 6
    /\ loop' = [loop EXCEPT ![l].step = @ + 1]
    /\ exchanges' = Counted(exchanges)
    /\ UNCHANGED <<live, status, currentIteration, scores, replies, stored, queue, posted, inbox>>

\* Mutant of Score: the verdict is published before the queue is delivered.
ScorePublishedEarly(l, passed) ==
    /\ loop[l].pc = "exchange" /\ loop[l].step = 6
    /\ exchanges' = Counted(exchanges) /\ scores' = scores + 1 /\ queue' = <<>>
    /\ \/ /\ queue = <<>>
          /\ AfterIteration(l, loop[l].iteration, passed, SetStatus("active"))
       \/ /\ queue # <<>>
          /\ loop' = [loop EXCEPT ![l] = LoopAt("flush", loop[l].iteration, passed, queue)]
          /\ status' = SetStatus(IF passed THEN "completed" ELSE "active")
          /\ UNCHANGED currentIteration
    /\ UNCHANGED <<live, replies, stored, posted, inbox>>

\* Steps 6 and 7: the score is appended to the SessionState the loop holds,
\* deleted or not, and the queue is drained into the loop's batch.
Score(l, passed) ==
    /\ loop[l].pc = "exchange" /\ loop[l].step = 6
    /\ exchanges' = Counted(exchanges)
    /\ scores' = scores + 1
    /\ queue' = <<>>
    /\ \/ /\ queue = <<>>
          /\ AfterIteration(l, loop[l].iteration, passed, SetStatus("active"))
       \/ /\ queue # <<>>
          /\ loop' = [loop EXCEPT ![l] = LoopAt("flush", loop[l].iteration, passed, queue)]
          /\ status' = SetStatus("active")
          /\ UNCHANGED currentIteration
    /\ UNCHANGED <<live, replies, stored, posted, inbox>>

\* Mutant of Fail: the exception ends the task without a trace.
FailSilently(l) ==
    /\ loop[l].pc = "exchange"
    /\ loop' = [loop EXCEPT ![l].pc = "failed"]
    /\ UNCHANGED <<live, status, currentIteration, scores, exchanges, replies,
                   stored, queue, posted, inbox>>

\* A POST that raises, or an answer that is no text, fails the whole loop.
Fail(l) ==
    /\ loop[l].pc = "exchange"
    /\ loop' = [loop EXCEPT ![l].pc = "failed"]
    /\ status' = SetStatus("failed")
    /\ UNCHANGED <<live, currentIteration, scores, exchanges, replies, stored, queue, posted, inbox>>

\* So does a rubric the scoring engine cannot compute with, after step 6.
ScoreFails(l) ==
    /\ loop[l].pc = "exchange" /\ loop[l].step = 6
    /\ loop' = [loop EXCEPT ![l].pc = "failed", ![l].step = 7]
    /\ exchanges' = Counted(exchanges)
    /\ status' = SetStatus("failed")
    /\ UNCHANGED <<live, currentIteration, scores, replies, stored, queue, posted, inbox>>

\* The POST that delivers Head(batch) to an agent ends: "unanswered" when the
\* agent got the message but the call raised, "lost" when it did not.  Either
\* failure is logged and the loop goes on to the next agent or message.
Deliveries == {"answered", "unanswered", "lost"}

\* Mutant of Advance: one agent too many.
AdvancePastLast(l) ==
    /\ loop[l].to <= NumAgents
    /\ loop' = [loop EXCEPT ![l].to = @ + 1]
    /\ UNCHANGED <<status, currentIteration>>

Advance(l) ==
    LET r == loop[l]
    IN  \/ /\ r.to < NumAgents
           /\ loop' = [loop EXCEPT ![l].to = @ + 1]
           /\ UNCHANGED <<status, currentIteration>>
        \/ /\ r.to = NumAgents /\ Tail(r.batch) # <<>>
           /\ loop' = [loop EXCEPT ![l].to = 1, ![l].batch = Tail(@)]
           /\ UNCHANGED <<status, currentIteration>>
        \/ /\ r.to = NumAgents /\ Tail(r.batch) = <<>>
           /\ AfterIteration(l, r.iteration, r.passed, status)

\* Mutant of Deliver: a delivery without an answer is tried again.
DeliverRetrying(l, outcome) ==
    /\ loop[l].pc = "flush"
    /\ inbox' = IF outcome = "lost" THEN inbox
                ELSE [inbox EXCEPT ![loop[l].to] = Append(@, Head(loop[l].batch))]
    /\ replies' = IF outcome = "answered" THEN Counted(replies) ELSE replies
    /\ IF outcome = "answered" THEN Advance(l) ELSE UNCHANGED <<loop, status, currentIteration>>
    /\ UNCHANGED <<live, scores, exchanges, stored, queue, posted>>

Deliver(l, outcome) ==
    /\ loop[l].pc = "flush"
    /\ inbox' = IF outcome = "lost" THEN inbox
                ELSE [inbox EXCEPT ![loop[l].to] = Append(@, Head(loop[l].batch))]
    /\ replies' = IF outcome = "answered" THEN Counted(replies) ELSE replies
    /\ Advance(l)
    /\ UNCHANGED <<live, scores, exchanges, stored, queue, posted>>

-----------------------------------------------------------------------------
LoopStep(l) ==
    \/ Begin(l)
    \/ Reply(l)
    \/ \E passed \in BOOLEAN : Score(l, passed)
    \/ Fail(l)
    \/ ScoreFails(l)
    \/ \E outcome \in Deliveries : Deliver(l, outcome)

Next ==
    \/ \E m \in Messages, viaSocket \in BOOLEAN : Post(m, viaSocket)
    \/ FlushQueue
    \/ Delete
    \/ \E l \in Loops : StartTeaching(l)
    \/ \E l \in Loops : LoopStep(l)

Spec == Init /\ [][Next]_vars

\* The event loop runs every task that can run, and every POST to an agent
\* ends, with an answer or with the time-out of the HTTP client.  That time-out
\* is one for each read: an agent that trickles its answer is assumed away.
FairSpec == Spec /\ \A l \in Loops : WF_vars(LoopStep(l))

-----------------------------------------------------------------------------
(* Properties of every session, whatever loops run on it                   *)

Statuses == {"pending", "active", "completed", "failed"}
LoopStates ==
    [pc : {"idle", "scheduled", "exchange", "flush", "completed", "failed", "rejected"},
     step : Steps \union {7}, iteration : Nat, passed : BOOLEAN,
     batch : Seq(Messages), to : Agents]

TypeOK ==
    /\ live \in BOOLEAN
    /\ status \in Statuses
    /\ currentIteration \in Nat /\ scores \in Nat /\ exchanges \in Nat /\ replies \in Nat
    /\ stored \in Seq(Messages) /\ queue \in Seq(Messages) /\ posted \in Seq(Messages)
    /\ loop \in [Loops -> LoopStates]
    /\ inbox \in [Agents -> Seq(Messages)]

\* A message is never kept in two places, nor twice in one: it waits in the
\* queue, or is being delivered by one loop, or is stored in the session.
\* What is in the queue or stored has been delivered to nobody.
SingleCustody ==
    /\ IsInjective(queue) /\ IsInjective(stored)
    /\ Range(queue) \intersect Range(stored) = {}
    /\ \A l \in Loops :
        /\ IsInjective(loop[l].batch)
        /\ Range(loop[l].batch) \intersect (Range(queue) \union Range(stored)) = {}
        /\ \A k \in Loops \ {l} : Range(loop[l].batch) \intersect Range(loop[k].batch) = {}
    /\ \A a \in Agents : Range(inbox[a]) \intersect (Range(queue) \union Range(stored)) = {}

\* No agent gets a queued message twice, although several loops may drain
\* the queue of the session and the client may flush it.
AtMostOnce == \A a \in Agents : IsInjective(inbox[a])

\* Messages are queued only while a loop runs: no loop that has returned leaves
\* the session busy for ever.  (Whether the loop still drains the queue is
\* another matter: CompletedLeavesNothingQueued.)
QueueingNeedsLoop == live /\ Busy => \E l \in Loops : Running(l)

\* However many loops run, and however they end, each score is backed by six
\* recorded exchanges and each iteration is scored, under way or failed.
InCycle(l) == loop[l].pc \in {"exchange", "failed"}
CyclesAddUp ==
    live =>
        /\ exchanges = 6 * scores + SumFunctionOnSet([l \in Loops |-> loop[l].step - 1],
                                                   {l \in Loops : InCycle(l)})
        /\ currentIteration = scores + Cardinality({l \in Loops : InCycle(l)})

\* For the messages of clients, the queue, the loops and the session together
\* are one mailbox: whatever is interleaved, each message goes one way through.
Box == INSTANCE Mailbox WITH
    accepted <- Range(posted),
    pending <- queue,
    kept <- stored,
    out <- UNION {Range(loop[l].batch) : l \in Loops}
ImplementsMailbox == Box!Spec

\* The loops that outlive their session bring nothing of it back.
DeletedIsFrozen ==
    [][~live => UNCHANGED <<live, status, currentIteration, exchanges, replies, stored, queue>>]_vars

\* Every teaching loop returns.
Returned(l) == loop[l].pc \in {"completed", "failed", "rejected"}
LoopReturns == \A l \in Loops : loop[l].pc = "scheduled" ~> Returned(l)

-----------------------------------------------------------------------------
(* Properties of a session on which no second loop is started              *)

Alone == \A l, k \in Loops : loop[l].pc # "idle" /\ loop[k].pc # "idle" => l = k

\* Every agent gets the queued messages in the order in which users posted
\* them (message_queue.py:15 calls the queue FIFO).
Position(m) == CHOOSE i \in DOMAIN posted : posted[i] = m
DeliveredInOrder ==
    Alone => \A a \in Agents : \A i, j \in DOMAIN inbox[a] :
                i < j => Position(inbox[a][i]) < Position(inbox[a][j])

\* A session with a running loop has a status that makes handlers queue users'
\* messages: no step of the loop but its last one leaves that status.
BusyWhileTeaching == \A l \in Loops : live /\ Running(l) => Busy
LoopKeepsSessionBusy == Alone => BusyWhileTeaching

-----------------------------------------------------------------------------
(* What the documentation says and the code does not do                    *)

\* message_queue.py:17-19: user messages "queue up and get delivered when
\* agents finish their current exchange": a session whose teaching completed
\* has nothing left in its queue.
CompletedLeavesNothingQueued == status = "completed" => queue = <<>>

\* api.py:359-360: "If the session is in an active teaching loop
\* (ACTIVE/SCORING), user messages are queued": so it is for every loop that
\* runs, whatever other loops of the session have ended.
UsersNeverInterrupt == BusyWhileTeaching
=============================================================================
