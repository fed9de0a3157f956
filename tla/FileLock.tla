------------------------------ MODULE FileLock ------------------------------
(***************************************************************************)
(* FileLockManager (clawlink_router/filelock.py) and the endpoints that    *)
(* drive it.  Every method but wait() runs without an await, so it is one  *)
(* step of the event loop and one action here.  wait() is a coroutine: it  *)
(* blocks on an asyncio.Event shared by all the waiters of a path, and the *)
(* loop resumes it in a later step, in which the world may have moved on.  *)
(***************************************************************************)
EXTENDS Integers, Sequences, Functions

CONSTANTS
    Agents,   \* agent ids; any string is accepted, registered or not
    Paths,    \* file paths
    Calls,    \* invocations of wait(), each made at most once
    None      \* a path without an entry in _locks or in _events

ASSUME NoneAssumption == None \notin Agents \union Paths \union Calls

VARIABLES
    locks,       \* _locks: path -> FileLock.locked_by
    waitQueues,  \* _wait_queues: path -> agents in order of arrival
    events,      \* _events: path -> Event, named by the call that created it
    eventSet,    \* the events on which set() was called
    calls        \* the suspended or finished invocations of wait()

vars == <<locks, waitQueues, events, eventSet, calls>>
managerVars == <<locks, waitQueues, events, eventSet>>

\* "denied" is a False that no timeout caused.
Outcomes == {"acquired", "denied", "timedout"}
NotCalled == [pc |-> "idle", agent |-> None, path |-> None, event |-> None]

Init ==
    /\ locks = [p \in Paths |-> None]
    /\ waitQueues = [p \in Paths |-> <<>>]
    /\ events = [p \in Paths |-> None]
    /\ eventSet = {}
    /\ calls = [c \in Calls |-> NotCalled]

-----------------------------------------------------------------------------
(* The synchronous methods                                                 *)

Available(p, a) == locks[p] \in {a, None}

\* The state change of acquire(): take a free path, else join its queue once.
AcquireEffect(p, a) ==
    /\ locks' = IF Available(p, a) THEN [locks EXCEPT ![p] = a] ELSE locks
    /\ waitQueues' = IF Available(p, a) \/ a \in Range(waitQueues[p])
                     THEN waitQueues
                     ELSE [waitQueues EXCEPT ![p] = Append(@, a)]

Acquire(p, a) ==
    /\ AcquireEffect(p, a)
    /\ UNCHANGED <<events, eventSet, calls>>

\* The entries of _locks for the paths in P are deleted; where somebody
\* waits, the first waiter acquires the path and the path's event is popped
\* and set.
HandOff(P) ==
    LET waited == {p \in P : waitQueues[p] # <<>>}
    IN  /\ locks' = [p \in Paths |->
                       IF p \in waited THEN Head(waitQueues[p])
                       ELSE IF p \in P THEN None ELSE locks[p]]
        /\ waitQueues' = [p \in Paths |->
                            IF p \in waited THEN Tail(waitQueues[p]) ELSE waitQueues[p]]
        /\ events' = [p \in Paths |-> IF p \in waited THEN None ELSE events[p]]
        /\ eventSet' = eventSet \union ({events[p] : p \in waited} \ {None})
        /\ UNCHANGED calls

\* Mutant of Release: nothing is handed over.
ReleaseOnly(p, a) ==
    /\ locks[p] = a
    /\ locks' = [locks EXCEPT ![p] = None]
    /\ UNCHANGED <<waitQueues, events, eventSet, calls>>

Release(p, a) ==
    /\ locks[p] = a
    /\ HandOff({p})

\* Mutants of ForceRelease, whose code repeats that of release(): the event
\* is not set; it is set without looking whether there is one; the last
\* waiter gets the path.
PassOn(p) ==
    /\ locks[p] # None /\ waitQueues[p] # <<>>
    /\ locks' = [locks EXCEPT ![p] = Head(waitQueues[p])]
    /\ waitQueues' = [waitQueues EXCEPT ![p] = Tail(@)]
    /\ UNCHANGED calls
ForceReleaseSilently(p) ==
    PassOn(p) /\ events' = [events EXCEPT ![p] = None] /\ UNCHANGED eventSet
ForceReleaseSetsNone(p) ==
    /\ PassOn(p)
    /\ events' = [events EXCEPT ![p] = None]
    /\ eventSet' = eventSet \union {events[p]}
ForceReleaseToLast(p) ==
    /\ locks[p] # None /\ waitQueues[p] # <<>>
    /\ locks' = [locks EXCEPT ![p] = waitQueues[p][Len(waitQueues[p])]]
    /\ waitQueues' = [waitQueues EXCEPT ![p] = SubSeq(@, 1, Len(@) - 1)]
    /\ events' = [events EXCEPT ![p] = None]
    /\ eventSet' = eventSet \union ({events[p]} \ {None})
    /\ UNCHANGED calls

ForceRelease(p) ==
    /\ locks[p] # None
    /\ HandOff({p})

\* disconnect_agent() releases what the agent holds; it leaves the agent in
\* the queues in which it waits.
HeldBy(a) == {p \in Paths : locks[p] = a}

ReleaseAllForAgent(a) == HandOff(HeldBy(a))

-----------------------------------------------------------------------------
(* wait(): an acquire() that blocks for the event when it fails            *)

Blocked(c) == calls[c].pc = "blocked"

Return(c, outcome) ==
    /\ calls' = [calls EXCEPT ![c].pc = outcome]
    /\ UNCHANGED managerVars

\* _events.setdefault(path, Event())
EventFor(p, c) == IF events[p] = None THEN c ELSE events[p]

Wait(c, p, a) ==
    /\ calls[c].pc = "idle"
    /\ AcquireEffect(p, a)
    /\ \/ /\ Available(p, a)
          /\ calls' = [calls EXCEPT ![c] =
                [pc |-> "acquired", agent |-> a, path |-> p, event |-> None]]
          /\ UNCHANGED events
       \/ /\ ~Available(p, a)
          /\ events' = [events EXCEPT ![p] = EventFor(p, c)]
          /\ calls' = [calls EXCEPT ![c] =
                [pc |-> "blocked", agent |-> a, path |-> p, event |-> EventFor(p, c)]]
    /\ UNCHANGED eventSet

\* Mutant of Resume: the wake-up is taken for the lock.
ResumeTrusting(c) ==
    /\ Blocked(c)
    /\ calls[c].event \in eventSet
    /\ Return(c, "acquired")

\* The event was set some steps ago: who holds the path is read only now.
Resume(c) ==
    /\ Blocked(c)
    /\ calls[c].event \in eventSet
    /\ Return(c, IF locks[calls[c].path] = calls[c].agent THEN "acquired" ELSE "denied")

\* Between the moment the timer fires and the one the coroutine runs again the
\* event may still be set: wait_for() raises TimeoutError all the same.  The
\* handler leaves the agent in the wait queue.
Timeout(c) ==
    /\ Blocked(c)
    /\ Return(c, "timedout")

-----------------------------------------------------------------------------
Next ==
    \/ \E p \in Paths, a \in Agents : Acquire(p, a)
    \/ \E p \in Paths, a \in Agents : Release(p, a)
    \/ \E p \in Paths : ForceRelease(p)
    \/ \E a \in Agents : ReleaseAllForAgent(a)
    \/ \E c \in Calls, p \in Paths, a \in Agents : Wait(c, p, a)
    \/ \E c \in Calls : Resume(c)
    \/ \E c \in Calls : Timeout(c)

\* The event loop runs every coroutine whose event is set.  Timers fire when
\* they like, or never: the hand-off must not need them.
Fairness == \A c \in Calls : WF_vars(Resume(c))

Spec == Init /\ [][Next]_vars

FairSpec == Spec /\ Fairness

-----------------------------------------------------------------------------
(* Properties                                                              *)

TypeOK ==
    /\ locks \in [Paths -> Agents \union {None}]
    /\ waitQueues \in [Paths -> Seq(Agents)]
    /\ events \in [Paths -> Calls \union {None}]
    /\ eventSet \subseteq Calls
    /\ calls \in [Calls -> [pc : {"idle", "blocked"} \union Outcomes,
                            agent : Agents \union {None},
                            path : Paths \union {None},
                            event : Calls \union {None}]]

\* A path is never free while somebody waits for it.
WaitersBehindHolder == \A p \in Paths : waitQueues[p] # <<>> => locks[p] # None

\* No agent waits twice in one queue, and none waits for a path it holds.
NobodyQueuesTwice ==
    \A p \in Paths : IsInjective(waitQueues[p]) /\ locks[p] \notin Range(waitQueues[p])

\* A wait() blocked on an event that is still unset can count on being woken:
\* its event is the one that the next hand-off of its path will pop and set,
\* and its agent is in the queue of that path, which another agent holds.
NoLostWakeup ==
    \A c \in Calls :
        Blocked(c) /\ calls[c].event \notin eventSet =>
            /\ events[calls[c].path] = calls[c].event
            /\ calls[c].agent \in Range(waitQueues[calls[c].path])
            /\ locks[calls[c].path] \notin {None, calls[c].agent}

\* An event found in _events has not been set yet: a wait() that shares it
\* really blocks, and is not woken by a hand-off that came before it.
RegisteredEventsUnset == \A p \in Paths : events[p] \notin eventSet

\* The three tables of the manager agree: a release that forgets the hand-off,
\* an agent queued twice or behind itself, or an event left behind by one
\* hand-off would block a path or its waiters much later.
LockTableConsistent == WaitersBehindHolder /\ NobodyQueuesTwice /\ RegisteredEventsUnset

\* wait() answers True only to the agent that holds the path at that moment,
\* although the event woke every waiter and the lock may have moved on since.
TrueMeansHolding ==
    [][\A c \in Calls :
         calls'[c].pc = "acquired" /\ calls[c].pc # "acquired" =>
            locks'[calls'[c].path] = calls'[c].agent]_vars

\* FileLockManager implements one FIFO line per path, whose head holds it.
Line == INSTANCE FifoLock WITH
    line <- [p \in Paths |-> IF locks[p] = None THEN waitQueues[p]
                            ELSE <<locks[p]>> \o waitQueues[p]]
ImplementsFifoLock == Line!Spec

\* The agent of a blocked call holds the path.
Handed(c) == Blocked(c) /\ locks[calls[c].path] = calls[c].agent

\* A wait() whose agent is handed the path returns without its timer: whoever
\* gives the path away, the call is blocked on the event that is then set.
HandOffWakes == \A c \in Calls : Handed(c) ~> ~Blocked(c)

\* filelock.py:110-111 says of wait() that it "returns True if the lock was
\* acquired, False on timeout": no wait() answers False without a timeout.
FalseOnlyOnTimeout == \A c \in Calls : calls[c].pc # "denied"
=============================================================================
