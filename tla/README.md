# A TLA+ model of ClawLink Router

ClawLink Router is one Python process: a FastAPI application on one asyncio
event loop, with all its state in memory. The concurrency is that of the event
loop. A handler, and a task between two awaits, runs without interruption; at
each `await` (a POST to an agent, a ping, a send to a WebSocket, a wait for an
event) everything else may run before it goes on. An action of the modules here
is what runs between two awaits, with all the state changes it makes. Nothing
is persisted, so a restart of the router is simply a new initial state; what
`run.py` does around a start, with other processes on the port, has a module of
its own.

## Inventory

| Component | State | Operations | Interacts with |
| --- | --- | --- | --- |
| File locks (`filelock.py`) | holder, wait queue and event of each path | acquire, release, force release, wait (coroutine), release all of an agent | agent disconnection calls release-all |
| Teaching loop (`router.py`) | tasks, each suspended in one of six POSTs of a cycle or in a delivery | start, reply, score, fail, deliver | sessions, queue, scoring, agents (HTTP) |
| Message queue (`message_queue.py`) | a deque for each session | enqueue, process, clear | message handlers fill it, loops and the flush endpoint drain it |
| Sessions (`session.py`) | status, iteration counter, messages, scores, strictness, participants | create, delete, set status, add message, count iteration, set strictness | everything that names a session |
| Scoring (`scoring.py`) | none | score; parsing of the answers it is given | called by the teaching loop |
| Broadcasts (`api.py`) | list of WebSocket subscribers of each session | connect, disconnect, broadcast | handlers, and the task that runs a loop, await broadcasts |
| Agent registry (`agents.py`) | id to AgentInfo | register, upsert, unregister, update status | pairing, heartbeat, sessions, group chat |
| Heartbeat (`heartbeat.py`) | background task, pings of a round | start, ping all, stop | lists the registry, later writes to it |
| Pairing and connections (`auth.py`) | code to PairingCode | generate, validate, complete, connect | registry |
| Group chat (`group_chat.py`) | topics, history of each session | create topic, route, fetch | sessions, registry, agents (HTTP) |
| Process start (`run.py`) | the port and who listens on it | probe, check, ask, look up, terminate, bind | other starts, other programs, the user |
| Agent client (`ai_client.py`) | none | POSTs and pings | teaching loop, group chat, heartbeat |
| Models, memory files | none | records, Markdown | |

What is hard about it is listed, line by line, in `PROJECT.json` under
"hazards". The themes: one event shared by several waiters and read after it
woke them; timeouts racing with hand-offs; several teaching loops on one
session, because nothing prevents a second start; objects and lists that are
held across awaits while they are replaced, deleted or shortened; failures
after some of the steps of an operation; registrations that change while a
heartbeat round is under way; a threshold that is compared with one number
while clients see another; a strictness that changes while a cycle runs; a port
that changes hands between its probe and its bind.

What makes each part correct:

- File locks: mutual exclusion with a fair line per path, no lost wake-up, and
  an answer of `wait()` that tells the truth at the moment it is given.
- Teaching: no message is lost from the books, duplicated or delivered twice;
  status and counters agree with the loops that run; loops end, and for the
  reason the verdict gives; a deleted session stays deleted.
- Scoring: the score lies between the opinions it blends, and the verdict
  agrees with the score that clients are shown.
- Broadcasts: the list of subscribers is that of the connected clients; no
  event twice; every client that stays gets every event (it does not).
- Registry, heartbeat and sessions: only clients make and undo registrations;
  the alive flag settles on the truth, and a session sees it.
- Pairing: one pairing for each code, in time; a connection does not spend it.
- Group chat: pushed only to those mentioned, once, and always fetchable;
  polling gets all that was posted over HTTP.
- Start: what is stopped has listened on the port since the user's yes (it need
  not be the router that the user was asked about), and a start settles.

## Modules

| Module | Models |
| --- | --- |
| `FifoLock` | the abstract lock: a line of agents per path |
| `FileLock`, `MCFileLock` | `FileLockManager` and the blocked calls of `wait()` |
| `Mailbox` | the abstract mailbox: what a session promises for clients' messages |
| `TeachingLoop`, `MCTeachingLoop` | a SOLO session, its queue, its handlers and its loops |
| `Scoring` | the scoring engine and the parsing of the answers it gets |
| `Lesson`, `MCLesson` | `TeachingLoop` with `Scoring` in place of any verdict, and the strictness |
| `Broadcast`, `MCBroadcast` | the subscribers of a session and the broadcasts to them |
| `Registry` | the agent dictionary; extended by `Heartbeat` and `Pairing` |
| `Heartbeat` | the monitor and the clients that change the registry |
| `Roster`, `MCRoster` | `Heartbeat` with a session that shares the registered objects |
| `Pairing`, `MCPairing` | pairing codes, `POST /connect` with one, the clock, the registry |
| `GroupChat`, `MCGroupChat` | GROUP sessions, topics, concurrent routing, polling |
| `Startup`, `MCStartup` | `run.py`: several starts on one port |
| `DataFacts` | lemmas about sequences, sums, finite sets and integers |
| `FileLockProofs`, `TeachingProofs`, `BroadcastProofs`, `RosterProofs`, `PairingProofs`, `GroupChatProofs`, `StartupProofs` | theorems |

### FileLock

`locks`, `waitQueues` and `events` are the three dictionaries of the manager.
An asyncio Event is named by the call of `wait()` that created it, and
`eventSet` holds the events that were set. `calls` holds the invocations of
`wait()`: `Wait` runs up to the await, `Resume` from the await to the return,
and `Timeout` is the handler of `TimeoutError`, before which the event may have been
set all the same. `release()` and the hand-off inside it, with the
nested `acquire()`, are one step, `HandOff`, over a set of paths because
`release_all_for_agent()` hands over several in one step. `wait()` has no
endpoint of its own; it is a public method of the manager and is modelled with
its own contract.

### TeachingLoop and Mailbox

The session has its status, counters and messages; teaching messages are only
counted (`exchanges`, `replies`), messages of clients are followed one by one
(`stored`, `queue`, `batch` of a loop, `inbox` of an agent). A loop is at one of
the six POSTs of a cycle (`step`), or at the delivery of the first message of
its batch to one agent (`to`). `Score` is the last reply of a cycle together
with everything up to the next await: recording, scoring, draining the queue,
and, with an empty queue, the end of the iteration and the first POST of the
next. Any verdict may come out of the scoring. A POST fails when it raises
(`Fail`), at any step; `ScoreFails` is a rubric that the scoring engine cannot
compute with. Deliveries of queued messages may be answered, may reach the
agent without an answer, or may be lost. SCORING is set and reset between two
awaits, so nobody can observe it; the model has no such status.

`Mailbox` says what a session, however many loops run on it, promises for a
message of a client: it is accepted once; it is kept, or waits and is then kept,
dropped or taken out for delivery; taken out, it reaches each agent at most
once; nothing that is kept or settled comes back. `ImplementsMailbox` maps
`queue` to what waits, `stored` to what is kept and all the batches together to
what is out.

### Scoring and Lesson

`Scoring` is exact integer arithmetic: a confidence is told in parts of a point
(`Parts` to the point), a score in hundredths of such a part, so that the
blend, the rubric, the bonuses, the cut at 0 and 100 and the rounding are those
of the code. The program computes with floats, whose error can decide an exact
tie: `Verdicts` allows both answers when the score equals the threshold and
`Shown` both neighbours of a score half-way between two hundredths. The router
never passes rubric scores, so every category counts as one half and the
weights cancel; `Base` still divides by their sum, as the code does.

`Lesson` extends `TeachingLoop` with the strictness, the rubric, what a loop has
heard of the student, and the results with the assessment each was computed
from. Each of its actions is one of `TeachingLoop` conjoined with what becomes
of these. The strictness is read when the cycle is scored (`Assess`), and
`UpdateStrictness` may come at any moment.

### Broadcast

`sockets` is the subscriber list in its order. A broadcast under way has the
`index` of Python's list iterator and the socket whose send it awaits; when
others shorten the list, the index stays. `owner` is the WebSocket handler that
awaits the broadcast, if it is one: an error inside the broadcast ends it, and
it starts no second one meanwhile. A handler that awaits none ends when its client
is gone, and also when an open client sends what is no JSON or makes no
message. Broadcasts are numbered in the order of the
events they tell. `sent`, `audience` and `departed` are only kept for the
properties.

### Heartbeat and Roster

In `Heartbeat` a round lists the registry (`StartRound`), the pings end one by
one (`PingEnds`), and the results are written in one step (`EndRound`); clients
register, replace and disconnect agents at any moment. `Roster` adds one session
at a time. `POST /sessions` puts the registered AgentInfo objects themselves
into the session, so a participant is `Shared` with the registry until the
registry replaces or loses the object; from then on the session has an object
of its own that nobody writes to.

### Pairing

The time is a counter, a code string may be drawn again after it left the
table, and `issued` numbers the pairings that codes stand for. `Connect` is
`POST /connect` with a pairing code. `Validate` is the removal of an expired
code, which any endpoint performs that is presented with it.

### GroupChat

Every message is routed by a call of its own, suspended on the POST to one agent
(`to`), and looks the next agents up when it goes on. A message that a client
sends over its WebSocket is only `stored`: in the session, not in the history
that agents poll. The clock may stand still
while messages arrive; an agent polls each session (`Fetch`) with the moment of
its last fetch.

### Startup

A start is at one stage of `main()`. The port changes hands between any two of
its steps, by other starts and by another program, which may answer `/health`
like a router. On one platform stopping a process frees its port at once and a
failed bind leads to a new attempt; on the other SIGTERM is a request and a
failed bind ends the start. `held` is the history of who listened since the user
of a start agreed.

## Runs

Passing runs (states as TLC counts them):

| Run | Instance | Distinct states |
| --- | --- | --- |
| `filelock_safety` | 3 agents, 2 paths, 2 calls | 475,168 |
| `teaching_many` | 2 loops, 1 message of a user and 1 of an agent, 2 agents, 2 iterations, symmetric | 1,443,932 |
| `lesson` | 1 loop, 1 user message, 2 iterations, 2 strictness values, 3 rubrics, 2 answers of each agent | 336,790 |
| `broadcast_safety` | 3 sockets, 2 broadcasts, symmetric | 1,447,377 |
| `roster` | 2 ids, 2 endpoints | 98,696 |
| `pairing_safety` | 2 ids, 2 endpoints, 2 strings for 3 codes, times 0 to 4, symmetric | 353,726 |
| `group_safety` | 2 sessions, 2 agents, 1 topic, 2 messages, times 0 and 1, symmetric | 1,224,836 |
| `startup` | 2 starts and another program | 4,863 |

What each shows is said in `PROJECT.json`. Why the instances are enough: a queue
of a lock has an order with three agents; one disconnect hands over several
locks with two paths; an event is shared with two calls, and a third event is
not needed because an event that was set is not found again. Two loops and two
messages give every pair of steps of two loops, two drained batches, and a flush
and a drain of the same queue; two iterations give one that is followed by
another and one that is not. The answers in `MCLesson` put scores below, at and
above the threshold, one of them within a rounding of it (69.995 with a
threshold of 70), with the teacher above and below the student; the strictness
values are one inside the range and one above it. Three sockets are what it
takes to remove one, skip one and still reach one; two broadcasts are what it
takes to remove a socket twice. Two ids give a round with one agent that left
or moved and one that stayed, and a session with one member replaced and one
still shared. A third code must be drawn as a string that was used before. Two
sessions and one topic give a topic of another session, and two times a message
before, in and after the moment of a fetch. Two starts take the port from each
other.

Four violation runs show where the program departs from what its documentation
says of it; `PROJECT.json` ("findings") quotes the sentence and the code:

- `filelock_denied`: `wait()` answers False without a timeout, because all the
  waiters of a path share one event and one of them gets the lock.
- `teaching_stranded`: a message posted while the last flush delivers another
  one stays in the queue of a completed session.
- `teaching_status`: of two loops on a session the first to end clears the
  status that makes handlers queue messages. (`LoopKeepsSessionBusy` holds with
  one loop and fails with two.)
- `broadcast_dropped`: a dead socket is removed twice, and the error ends the
  handler of a client that is still connected.

### Other departures from the documentation

The models contain them, as the code does, and no property denies them:

- Locks are handed to agents without notice, when they queued by `acquire()` or
  when their `wait()` has timed out (`filelock.py:19-21`), and also to agents
  that have disconnected. A `wait()` whose timer fires as the path is handed to
  its agent answers False and leaves the agent with the lock
  (`filelock.py:110-111`).
- A loop that fails does not flush, so queued messages stay
  (`message_queue.py:17-19`); with two loops, users' messages are delivered in
  the middle of an exchange and in another order than they were posted.
- Over the WebSocket any sender's messages are queued, not only users'
  (`message_queue.py:15`).
- The loop of a deleted session goes on to POST to the agents (`router.py:289`);
  it writes nothing to the session (`DeletedIsFrozen`).
- The program's README says (line 137) that a higher strictness makes passing
  harder. It makes the teacher's opinion count for more: where the teacher gives
  more than the student, passing becomes easier. `HarderIfTeacherStricter` is
  what holds. The formula above it (lines 129 to 135) is not what `score()`
  computes; with a rubric the student's confidence is not counted at all, and
  the weights have no effect, because no rubric scores are ever passed.
- `current_iteration` is never reset and passes `max_iterations` in a second
  teaching run (`session.py:139`).
- "confidence: 1" is read as one half, because only numbers with a point are
  recognised (`Confidence`).
- The teacher is told the strictness of the start of a cycle and judged by that
  of its end; `PUT /strictness` answers with the value before it was clamped
  (`api.py:437`).
- A departure during a broadcast can hide the event from a client that stays
  (`api.py:64`); `MissedAtMostDepartures` bounds the damage. Broadcasts of
  different handlers may overtake each other. An error in the
  `teaching_complete` broadcast is followed by `teaching_error` (`api.py:416`).
- An agent that moves during a heartbeat round is marked by the ping of its
  former endpoint (`heartbeat.py:85`) until the next round (`StatusSettles`).
  After a new registration a session keeps the former object: its loops POST to
  the former endpoint and its alive flag is frozen (`ParticipantsKeepEndpoint`,
  `SessionLearnsOfDeath`). `GET /sessions/{id}/heartbeat` never reports a dead
  agent: nothing calls `update_heartbeat()`.
- A pairing under an id that is taken consumes the code, registers nothing and
  answers 200 (`api.py:231`). No API key can ever be valid, since
  `register_api_key()` has no caller.
- `fetch_messages()` promises "ALL messages in the group"
  (`group_chat.py:104-106`), but a message that a client sent over the WebSocket
  is not in the history and never fetched; `PollingGetsPosted` is about the
  others. `route_group_message()` returns targets that were not reached
  (`router.py:257`); a message can join a topic of another session
  (`models.py:207`).
- `run.py:51` reports the old process stopped when on POSIX it was only sent a
  signal; the new start may fail to bind, and no router is left. The user is
  asked whether to restart the router (`run.py:38-39`), but the process stopped
  is whichever is found on the port after the yes: a program of another kind
  that took the port meanwhile is stopped as well, and `OnlyListenersStopped`
  does not deny it.

`CHECK_DEADLOCK FALSE` stands where the instance really stops: loops, messages,
sockets, broadcasts, starts and codes are used once, and the monitor can be
stopped.

### Bounds

`MaxTime` in `Pairing` and `GroupChat` bounds the clock in the guard of `Tick`,
`MaxIssued` in `Pairing` the codes in that of `Generate`, and `NumCasts` in
`Broadcast` the broadcasts. In the other modules the sets of calls, loops and
messages are finite and each is used once, which bounds the behaviours.
`MaxIterations`, `NumAgents`, `TTL` and `PassThreshold` are parameters of the
program, not bounds; `Parts` and the sets of answers, rubrics and strictness
values choose the inputs.

### Fairness

- `FileLock`: weak fairness of `Resume` of each call: the event loop runs a
  coroutine whose event is set. Nothing is assumed of timers, so that
  `HandOffWakes` is due to the hand-off alone, and nothing of lock holders: the
  property speaks of a path that has been handed over.
- `Lesson`: weak fairness of the steps of each loop. The event loop runs ready
  tasks, and a POST ends with an answer, an error or a time-out. The 30 seconds
  of the HTTP client are a bound on each connect and read, not on the whole: an
  agent that trickles its answer without end would hold a loop for ever, so
  `LoopReturns` is a statement about agents that answer or fall silent. Nothing
  is assumed of clients.
- `Roster`: weak fairness of starting a round, of the end of each ping
  (`wait_for` with a timeout) and of the end of the round. Nothing is assumed of
  clients and endpoints.
- `Startup`: weak fairness of the steps that a start bounds itself (`OwnStep`):
  the probe, which has a time-out, the bind, and the signal on POSIX. None of
  the steps that wait for another program: `netstat`, `lsof` and `taskkill` are
  run without a time-out, and that of the health check is one for each read.
  `StartSettles` is therefore about starts that none of them keeps waiting for
  ever (`WaitsForOthers`). Nothing is assumed of the user, who may never answer.

### Mutants

Definitions whose comment begins with "Mutant of" are not part of the model.
Each is a plausible error in one operation, and for every property of every
passing run there is one that TLC finds to violate it.

## Proofs

The theorems hold for every value of the constants that satisfies the named
assumptions; the runs show the same properties on small instances first. Every
invariant and every safety property of the passing runs is stated by a theorem.

`FileLockProofs`. `LockInv` joins the type invariant with what the proofs need:
queues without repetition that do not contain the holder, no waiter at a free
path, events in `events` that are unset and belong to calls that were made, and
for each blocked call either an event that is set, or one that is still
registered for its path while its agent is in the queue. The last is
`NoLostWakeup`; it is not inductive alone, because a hand-off changes holder,
queue and event together and keeps it only if the holder was not in the queue
and no one was twice in it. `LockInvariant` proves `[]LockInv`;
`LockTableTypes`, `LostWakeupFreedom`, `LockTableSafety` and `WaitAnswersTruly`
follow from it. `FileLockIsFifo` proves the refinement of `FifoLock`: the
holder followed by the queue is the abstract line, an acquire is a `Join` or a
stutter, and a hand-off of a set of paths is a `Leave` of that set.

`TeachingProofs`, the session. `SessionInv` strengthens the type invariant and
custody with where each message can be: posted messages are in the queue,
stored, in one batch, or delivered; an agent earlier in the order of delivery of
a batch may have its first message in the inbox, no later one may.
`SessionInvariant` proves it inductive, with any number of loops, messages and
agents, and any `MaxIterations`. `SessionTypes`, `MessagesInOnePlace`,
`AtMostOnceDelivery` and `BusySessionHasLoop` follow; `LoneLoopKeepsBusy` adds
that a loop without company keeps the session busy; `DeletedSessionFrozen` is an
action property that needs of the invariant that the queue of a deleted session
is empty. `SessionIsMailbox` proves the refinement of `Mailbox`: a step of a
loop moves no message, or drains the queue into an empty batch (`TakeOut`), or
ends an attempt at the first message of its batch (`Try`), which is in no other
batch and has not reached that agent.

`BooksBalance` proves `CyclesAddUp`, a sum over all loops. `CyclesInv` adds that
only finitely many loops have been started, without which the sum would mean
nothing; a step of one loop changes the sum by what that loop counts for.
`DeliveryIsFIFO` proves `DeliveredInOrder`. By the order of acceptance
(`Rank`), what waits comes after all that was taken out or delivered
(`OrderOfWaiting`, for any number of loops), and with a lone loop what an agent
got comes before the rest of the batch (`OrderOfDelivered`); the message under
delivery stands on both sides, and that no agent gets it twice is from
`SessionInv`.

`TeachingProofs`, the lesson. `LessonIsSession` shows that a lesson is a session
with its fairness, so all of the above holds of `Lesson` too. `LessonInv` says
that each result is what the scoring engine makes of the recorded assessment
and the rubric of the session, and that no result is there with a rubric that
it cannot compute with (`ResultsComputed`). The rest is arithmetic, for any
answers, threshold, precision `Parts` and rubric whose weights are integers: the
weights cancel, so the base score is a blend of two opinions, on which the
bonuses, the cut and the rounding act. `LessonTypeCorrect`,
`ShownAgreesWithVerdict`, `ScoresAreBetween` and `StricterNeverHelps` follow.
`LessonEndsByVerdict` needs `VerdictInv`: the results are backed by the point
the lone loop has reached (`ResultsOfLoop`), and a completed session has a loop
that completed it.

`BroadcastProofs`. `AudienceInv` says where the iterators stand in a list that
shifts under them: the sockets a broadcast is sending to or has still ahead of
it have not got its event, whoever got one was connected, and the sockets a
broadcast found dead are closed. `AudienceInvariant` proves it;
`ConnectedAreSubscribed` follows, and `EventsAreSentOnce` with one more step:
an event is recorded for the socket the broadcast is sending to, which has not
got it. `SendersOrderKept` adds that broadcasts start in the order of their
numbers and that a handler has one under way at most (`OneAtATime`).
`DeparturesBoundLoss` counts: those of the audience that a broadcast under way
has passed over are at most as many as have left since it began (`FewMissed`),
because a departure shifts at most one subscriber past an iterator; two dead
sockets removed in one step shift two, and count for two.

`RosterProofs`. `RosterIsHeartbeat` shows that a session does not disturb the
monitor; types (`RosterTypes`), `RoundsKeepRegistrations` and
`SessionsKeepEndpoints` follow, the last because an object that the registry
lets go of is what the session saw in it before.

`PairingProofs`. `PairingInv` adds to the properties that no two strings stand
for one pairing, that pairings done were issued before, and that no code is
from the future. `PairingTypes`, `PairingsAreUnique` and
`ConnectionsSpendNothing` follow.

`GroupChatProofs`. `GroupInv` says that a message not posted yet is nowhere,
that a message posted over HTTP is in the history of its session, that an agent
has it only if its handler has turned to the agent before, that nobody fetched
in the future, and that what the history had before the last fetch was got
(`HistoryIsFetched`). `GroupTypes`, `PushesAreSound` and `PollingIsComplete`
follow; the last is about messages posted over HTTP only.
`HistoryKeepsOrder` needs only that a message not posted yet is in no list
(`NewIsUntold`): without it, a message posted again would be before and after
itself.

`StartupProofs`. From the consent on, the process that listens and the one
looked up are in the history of the start (`ConsentCovers`); `StartTypes` (one
listener, which is the start that serves) and `ConsentIsRespected` follow. The
latter says that what is stopped listened at some moment since the yes, not
that it is a router nor that it still listens.

`DataFacts` has what these proofs share. The induction theorems of the library
have an operator for a parameter and cannot be instantiated, so induction is
done on sets: a nonempty set of subsets of a finite set has a smallest member
(`MinimalSubset`), which gives induction up to a bound (`BoundedInduction`),
sums that split (`SumFunctionOnSet` of the community modules), and that the
filter by which `Broadcast` models the removal from a list keeps the order
(`FilterKeeps`).

Assumptions used: the null values are none of the others (`NoneAssumption`,
`NoneIsNoValue`, `NoneIsNoCode`, `SharedIsNoValue`, `OtherAssumption`),
`NumAgentsAssumption` (the start handler requires two agents),
`MaxIterationsAssumption`, `TTLAssumption`, that the bounds are natural numbers
(`BoundsAssumption`, `MaxTimeAssumption`, `NumCastsAssumption`), and for the
scores `PartsAssumption`, `PassThresholdAssumption`, `RequestsAssumption`,
`RubricsAssumption` (a rubric is a finite dictionary of integer weights, and the
broken one is none of them) and `AnswersAssumption` (the numbers that are found
in a teacher's feedback have at most three digits). Floats are outside: what is
proved of scores is proved of the exact arithmetic of `Scoring`, with both
outcomes allowed where the rounding of floats decides.

Only model-checked: liveness under fairness (`HandOffWakes`, `LoopReturns`,
`StatusSettles`, `SessionLearnsOfDeath`, `StartSettles`), which is out of the
prover's reach.

## Not modelled

- The HTTP client beyond the outcomes of its calls, the data models, read-only
  endpoints and metrics: no state.
- `memory.py` renders Markdown and nothing calls it.
- API-key, SSH, mTLS and OAuth checks of `/connect`: they change nothing.
- `MessageQueue.dequeue()`, `PairingService.cleanup_expired()`,
  `register_api_key()`, `GroupChatManager.add_message()`, `memory_command()` and
  `SessionManager.update_heartbeat()` have no caller.
- Feedback texts, prompts, payloads of events, logging, the environment
  variables and the missing-dependency exit of `run.py`.
- Sends to WebSockets as points where the handlers of `TeachingLoop` and
  `GroupChat` are suspended: a handler broadcasts last, after all its state
  changes, and a loop does not broadcast.

## Plan

Done: every component with state is modelled, and every safety property of the
runs is proved.

Left, all of it more to prove:

1. What a denied `wait()` tells: when it answers False without a timeout, its
   path was handed to another agent since the call blocked.
2. A pairing code as an abstract one-time token (issued, spent, expired) that
   `Pairing` implements.
3. A group session as an abstract log that each reader reads at its own pace,
   implemented by `GroupChat`.
