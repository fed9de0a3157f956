--------------------------- MODULE FileLockProofs ---------------------------
(***************************************************************************)
(* Proofs about FileLock, for any agents, paths and calls.                 *)
(***************************************************************************)
EXTENDS FileLock, DataFacts

-----------------------------------------------------------------------------
(* The inductive invariant.  Besides the invariants of FileLock it says    *)
(* what a blocked call waits for and who created the events: an event is   *)
(* named by the call that created it, so an idle call's event does not     *)
(* exist yet, and one event belongs to one path.                           *)

BlockedCallsHaveArgs ==
    \A c \in Calls : Blocked(c) =>
        /\ calls[c].agent \in Agents
        /\ calls[c].path \in Paths
        /\ calls[c].event \in Calls

EventsHaveCreators ==
    /\ \A c \in eventSet : calls[c].pc # "idle"
    /\ \A p \in Paths : events[p] # None => calls[events[p]].pc # "idle"
    /\ \A p, q \in Paths : events[p] # None /\ events[p] = events[q] => p = q

LockInv ==
    /\ TypeOK
    /\ WaitersBehindHolder
    /\ NobodyQueuesTwice
    /\ BlockedCallsHaveArgs
    /\ EventsHaveCreators
    /\ RegisteredEventsUnset
    /\ NoLostWakeup

-----------------------------------------------------------------------------
(* Lemmas about the two state changes of the manager                       *)

\* acquire() keeps the lock table well formed, whoever asks for whatever.
LEMMA AcquireEffectTables ==
    ASSUME TypeOK, WaitersBehindHolder, NobodyQueuesTwice,
           NEW p \in Paths, NEW a \in Agents, AcquireEffect(p, a)
    PROVE  /\ locks' \in [Paths -> Agents \union {None}]
           /\ waitQueues' \in [Paths -> Seq(Agents)]
           /\ WaitersBehindHolder'
           /\ NobodyQueuesTwice'
<1> USE NoneAssumption DEF TypeOK
<1>1. CASE Available(p, a)
  <2>1. locks' = [locks EXCEPT ![p] = a] /\ waitQueues' = waitQueues
    BY <1>1 DEF AcquireEffect
  <2>2. a \notin Range(waitQueues[p])
    <3>1. CASE locks[p] = a
      BY <3>1 DEF NobodyQueuesTwice
    <3>2. CASE locks[p] = None
      <4>1. waitQueues[p] = <<>>
        BY <3>2 DEF WaitersBehindHolder
      <4>. QED  BY <4>1, EmptyQueue
    <3>. QED  BY <1>1, <3>1, <3>2 DEF Available
  <2>3. WaitersBehindHolder'
    BY <2>1 DEF WaitersBehindHolder
  <2>4. NobodyQueuesTwice'
    BY <2>1, <2>2 DEF NobodyQueuesTwice
  <2>. QED  BY <2>1, <2>3, <2>4
<1>2. CASE ~Available(p, a) /\ a \in Range(waitQueues[p])
  <2>1. UNCHANGED <<locks, waitQueues>>
    BY <1>2 DEF AcquireEffect
  <2>. QED  BY <2>1 DEF WaitersBehindHolder, NobodyQueuesTwice
<1>3. CASE ~Available(p, a) /\ a \notin Range(waitQueues[p])
  <2>1. locks' = locks /\ waitQueues' = [waitQueues EXCEPT ![p] = Append(@, a)]
    BY <1>3 DEF AcquireEffect
  <2>2. locks[p] # None /\ locks[p] # a
    BY <1>3 DEF Available
  <2>3. /\ waitQueues'[p] = Append(waitQueues[p], a)
        /\ Append(waitQueues[p], a) \in Seq(Agents)
        /\ \A q \in Paths \ {p} : waitQueues'[q] = waitQueues[q]
        /\ waitQueues' \in [Paths -> Seq(Agents)]
    BY <2>1
  <2>4. WaitersBehindHolder'
    BY <2>1, <2>2, <2>3 DEF WaitersBehindHolder
  <2>5. IsInjective(waitQueues'[p]) /\ locks[p] \notin Range(waitQueues'[p])
    <3>1. Range(waitQueues'[p]) = Range(waitQueues[p]) \union {a}
      BY <2>3, RangeAppend
    <3>2. IsInjective(waitQueues'[p])
      BY <2>3, <1>3, InjectiveAppend DEF NobodyQueuesTwice
    <3>. QED  BY <3>1, <3>2, <2>2 DEF NobodyQueuesTwice
  <2>6. NobodyQueuesTwice'
    <3>. SUFFICES ASSUME NEW q \in Paths
                  PROVE  IsInjective(waitQueues'[q]) /\ locks'[q] \notin Range(waitQueues'[q])
      BY DEF NobodyQueuesTwice
    <3>1. CASE q = p  BY <3>1, <2>1, <2>5
    <3>2. CASE q # p  BY <3>2, <2>1, <2>3 DEF NobodyQueuesTwice
    <3>. QED  BY <3>1, <3>2
  <2>. QED  BY <2>1, <2>3, <2>4, <2>6
<1>. QED  BY <1>1, <1>2, <1>3

\* acquire() leaves the waiters of every path in its queue, behind another
\* agent; the agent that asked waits too, unless it got the path.
LEMMA AcquireEffectWaiters ==
    ASSUME TypeOK, NobodyQueuesTwice, WaitersBehindHolder,
           NEW p \in Paths, NEW a \in Agents, AcquireEffect(p, a)
    PROVE  /\ \A q \in Paths : \A b \in Range(waitQueues[q]) :
                 b \in Range(waitQueues'[q]) /\ locks'[q] \notin {None, b}
           /\ ~Available(p, a) => a \in Range(waitQueues'[p]) /\ locks'[p] \notin {None, a}
<1> USE NoneAssumption DEF TypeOK
<1>1. /\ NobodyQueuesTwice' /\ WaitersBehindHolder'
      /\ locks' \in [Paths -> Agents \union {None}]
      /\ waitQueues' \in [Paths -> Seq(Agents)]
  BY AcquireEffectTables
<1>2. \A q \in Paths : Range(waitQueues[q]) \subseteq Range(waitQueues'[q])
  <2>. SUFFICES ASSUME NEW q \in Paths
                PROVE  Range(waitQueues[q]) \subseteq Range(waitQueues'[q])
    OBVIOUS
  <2>1. CASE waitQueues' = waitQueues
    BY <2>1
  <2>2. CASE waitQueues' = [waitQueues EXCEPT ![p] = Append(@, a)]
    <3>1. CASE q = p
      <4>1. waitQueues'[q] = Append(waitQueues[q], a)
        BY <2>2, <3>1
      <4>. QED  BY <4>1, RangeAppend
    <3>2. CASE q # p
      BY <2>2, <3>2
    <3>. QED  BY <3>1, <3>2
  <2>. QED  BY <2>1, <2>2 DEF AcquireEffect
<1>3. ASSUME NEW q \in Paths, NEW b \in Range(waitQueues'[q])
      PROVE  locks'[q] \notin {None, b}
  <2>1. waitQueues'[q] # <<>>
    BY <1>3, EmptyQueue
  <2>. QED  BY <2>1, <1>1 DEF NobodyQueuesTwice, WaitersBehindHolder
<1>4. ASSUME ~Available(p, a) PROVE a \in Range(waitQueues'[p])
  <2>1. CASE a \in Range(waitQueues[p])
    BY <2>1, <1>2
  <2>2. CASE a \notin Range(waitQueues[p])
    <3>1. waitQueues'[p] = Append(waitQueues[p], a)
      BY <2>2, <1>4 DEF AcquireEffect
    <3>. QED  BY <3>1, RangeAppend
  <2>. QED  BY <2>1, <2>2
<1>. QED  BY <1>2, <1>3, <1>4

\* A hand-off keeps the lock table well formed: the next holder leaves the
\* queue at its head, and a path that nobody waits for becomes free.
LEMMA HandOffTables ==
    ASSUME TypeOK, WaitersBehindHolder, NobodyQueuesTwice,
           NEW P \in SUBSET Paths, HandOff(P)
    PROVE  TypeOK' /\ WaitersBehindHolder' /\ NobodyQueuesTwice'
<1> USE NoneAssumption DEF TypeOK
<1> DEFINE waited == {p \in P : waitQueues[p] # <<>>}
<1>1. /\ locks' = [p \in Paths |-> IF p \in waited THEN Head(waitQueues[p])
                                  ELSE IF p \in P THEN None ELSE locks[p]]
      /\ waitQueues' = [p \in Paths |-> IF p \in waited THEN Tail(waitQueues[p])
                                       ELSE waitQueues[p]]
      /\ events' = [p \in Paths |-> IF p \in waited THEN None ELSE events[p]]
      /\ eventSet' = eventSet \union ({events[p] : p \in waited} \ {None})
      /\ calls' = calls
  BY DEF HandOff
<1>2. ASSUME NEW p \in waited
      PROVE  /\ Head(waitQueues[p]) \in Agents /\ Tail(waitQueues[p]) \in Seq(Agents)
             /\ IsInjective(Tail(waitQueues[p]))
             /\ Head(waitQueues[p]) \notin Range(Tail(waitQueues[p]))
  <2>1. waitQueues[p] \in Seq(Agents) /\ waitQueues[p] # <<>> /\ IsInjective(waitQueues[p])
    BY DEF NobodyQueuesTwice
  <2>. QED  BY <2>1, RangeHeadTail, InjectiveTail
<1>3. TypeOK'
  <2>1. locks' \in [Paths -> Agents \union {None}]
    BY <1>1, <1>2
  <2>2. waitQueues' \in [Paths -> Seq(Agents)]
    BY <1>1, <1>2
  <2>3. events' \in [Paths -> Calls \union {None}] /\ eventSet' \subseteq Calls
    BY <1>1
  <2>. QED  BY <1>1, <2>1, <2>2, <2>3
<1>4. ASSUME NEW p \in Paths
      PROVE  /\ waitQueues'[p] # <<>> => locks'[p] # None
             /\ IsInjective(waitQueues'[p]) /\ locks'[p] \notin Range(waitQueues'[p])
  <2>1. CASE p \in waited
    BY <2>1, <1>1, <1>2
  <2>2. CASE p \notin waited /\ p \in P
    <3>1. waitQueues'[p] = <<>> /\ locks'[p] = None
      BY <2>2, <1>1
    <3>. QED  BY <3>1, EmptyQueue
  <2>3. CASE p \notin P
    BY <2>3, <1>1 DEF WaitersBehindHolder, NobodyQueuesTwice
  <2>. QED  BY <2>1, <2>2, <2>3
<1>. QED  BY <1>3, <1>4 DEF WaitersBehindHolder, NobodyQueuesTwice

\* A hand-off preserves the whole invariant: the calls that wait on a path
\* handed over see their event set, those on other paths see no change.
LEMMA HandOffInv ==
    ASSUME LockInv, NEW P \in SUBSET Paths, HandOff(P)
    PROVE  LockInv'
<1> USE NoneAssumption
<1> DEFINE waited == {p \in P : waitQueues[p] # <<>>}
<1>1. /\ locks' = [p \in Paths |-> IF p \in waited THEN Head(waitQueues[p])
                                  ELSE IF p \in P THEN None ELSE locks[p]]
      /\ waitQueues' = [p \in Paths |-> IF p \in waited THEN Tail(waitQueues[p])
                                       ELSE waitQueues[p]]
      /\ events' = [p \in Paths |-> IF p \in waited THEN None ELSE events[p]]
      /\ eventSet' = eventSet \union ({events[p] : p \in waited} \ {None})
      /\ calls' = calls
  BY DEF HandOff
<1>2. TypeOK' /\ WaitersBehindHolder' /\ NobodyQueuesTwice'
  BY HandOffTables DEF LockInv
<1>3. BlockedCallsHaveArgs'
  BY <1>1 DEF LockInv, BlockedCallsHaveArgs, Blocked
<1>4. EventsHaveCreators'
  <2>1. ASSUME NEW c \in eventSet' PROVE calls'[c].pc # "idle"
    BY <1>1 DEF LockInv, EventsHaveCreators
  <2>2. ASSUME NEW p \in Paths, events'[p] # None
        PROVE  events'[p] = events[p] /\ p \notin waited
    BY <1>1, <2>2
  <2>. QED  BY <2>1, <2>2, <1>1 DEF LockInv, EventsHaveCreators
<1>5. RegisteredEventsUnset'
  <2>. SUFFICES ASSUME NEW p \in Paths, events'[p] \in eventSet'
                PROVE  FALSE
    BY DEF RegisteredEventsUnset
  <2>1. events'[p] \in Calls
    BY <1>2 DEF TypeOK
  <2>2. events'[p] = events[p] /\ p \notin waited /\ events[p] # None
    BY <1>1, <2>1
  <2>3. events[p] \notin eventSet
    BY DEF LockInv, RegisteredEventsUnset
  <2>4. PICK q \in waited : events[p] = events[q]
    BY <1>1, <2>2, <2>3
  <2>5. p = q
    BY <2>2, <2>4 DEF LockInv, EventsHaveCreators
  <2>. QED  BY <2>2, <2>4, <2>5
<1>6. NoLostWakeup'
  <2>. SUFFICES ASSUME NEW c \in Calls, Blocked(c)', calls'[c].event \notin eventSet'
                PROVE  /\ events'[calls'[c].path] = calls'[c].event
                       /\ calls'[c].agent \in Range(waitQueues'[calls'[c].path])
                       /\ locks'[calls'[c].path] \notin {None, calls'[c].agent}
    BY DEF NoLostWakeup
  <2> DEFINE p == calls[c].path
  <2>1. Blocked(c) /\ calls[c].event \notin eventSet /\ p \in Paths /\ calls[c].event \in Calls
    BY <1>1 DEF Blocked, LockInv, BlockedCallsHaveArgs
  <2>2. /\ events[p] = calls[c].event
        /\ calls[c].agent \in Range(waitQueues[p])
        /\ locks[p] \notin {None, calls[c].agent}
    BY <2>1 DEF LockInv, NoLostWakeup
  <2>3. p \notin waited
    BY <1>1, <2>1, <2>2
  <2>4. waitQueues[p] # <<>>
    BY <2>2, EmptyQueue
  <2>5. p \notin P
    BY <2>3, <2>4
  <2>. QED  BY <1>1, <2>1, <2>2, <2>5
<1>. QED  BY <1>2, <1>3, <1>4, <1>5, <1>6 DEF LockInv

\* acquire() preserves the invariant.
LEMMA AcquireInv ==
    ASSUME LockInv, NEW p \in Paths, NEW a \in Agents, Acquire(p, a)
    PROVE  LockInv'
<1> USE NoneAssumption
<1>1. AcquireEffect(p, a) /\ UNCHANGED <<events, eventSet, calls>>
  BY DEF Acquire
<1>2. TypeOK' /\ WaitersBehindHolder' /\ NobodyQueuesTwice'
  BY <1>1, AcquireEffectTables DEF LockInv, TypeOK
<1>3. BlockedCallsHaveArgs' /\ EventsHaveCreators' /\ RegisteredEventsUnset'
  BY <1>1 DEF LockInv, BlockedCallsHaveArgs, EventsHaveCreators, RegisteredEventsUnset, Blocked
<1>4. NoLostWakeup'
  BY <1>1, AcquireEffectWaiters
     DEF LockInv, NoLostWakeup, BlockedCallsHaveArgs, Blocked
<1>. QED  BY <1>2, <1>3, <1>4 DEF LockInv

\* wait() preserves the invariant, whether it returns at once or blocks: the
\* event it waits for is the one registered for its path, and a new one is
\* unset because no other call can have created it.
LEMMA WaitInv ==
    ASSUME LockInv, NEW c \in Calls, NEW p \in Paths, NEW a \in Agents, Wait(c, p, a)
    PROVE  LockInv'
<1> USE NoneAssumption
<1>1. /\ AcquireEffect(p, a) /\ eventSet' = eventSet
      /\ calls[c].pc = "idle"
      /\ c \notin eventSet
      /\ \A q \in Paths : events[q] # c
  BY DEF Wait, LockInv, EventsHaveCreators
<1>2. /\ locks' \in [Paths -> Agents \union {None}] /\ waitQueues' \in [Paths -> Seq(Agents)]
      /\ WaitersBehindHolder' /\ NobodyQueuesTwice'
  BY <1>1, AcquireEffectTables DEF LockInv
<1>3. ASSUME NEW d \in Calls, Blocked(d), d # c, calls[d].event \notin eventSet
      PROVE  /\ calls[d].agent \in Range(waitQueues'[calls[d].path])
             /\ locks'[calls[d].path] \notin {None, calls[d].agent}
             /\ events[calls[d].path] = calls[d].event
             /\ calls[d].path \in Paths /\ calls[d].event \in Calls
  BY <1>1, <1>3, AcquireEffectWaiters DEF LockInv, NoLostWakeup, BlockedCallsHaveArgs
<1>4. CASE Available(p, a)
  <2>1. /\ events' = events
        /\ calls' = [calls EXCEPT ![c] =
              [pc |-> "acquired", agent |-> a, path |-> p, event |-> None]]
    BY <1>4 DEF Wait
  <2>2. TypeOK'
    BY <1>1, <1>2, <2>1 DEF LockInv, TypeOK, Outcomes
  <2>3. /\ calls'[c].pc = "acquired"
        /\ \A d \in Calls \ {c} : calls'[d] = calls[d]
    BY <2>1 DEF LockInv, TypeOK
  <2>4. BlockedCallsHaveArgs'
    BY <2>3 DEF LockInv, BlockedCallsHaveArgs, Blocked
  <2>5. EventsHaveCreators' /\ RegisteredEventsUnset'
    BY <1>1, <2>1, <2>3 DEF LockInv, TypeOK, EventsHaveCreators, RegisteredEventsUnset
  <2>6. NoLostWakeup'
    BY <1>1, <1>3, <2>1, <2>3 DEF NoLostWakeup, Blocked
  <2>. QED  BY <1>2, <2>2, <2>4, <2>5, <2>6 DEF LockInv
<1>5. CASE ~Available(p, a)
  <2> DEFINE e == EventFor(p, c)
  <2>1. /\ events' = [events EXCEPT ![p] = e]
        /\ calls' = [calls EXCEPT ![c] =
              [pc |-> "blocked", agent |-> a, path |-> p, event |-> e]]
    BY <1>5 DEF Wait
  <2>2. e \in Calls /\ e \notin eventSet /\ (events[p] # None => e = events[p])
        /\ (events[p] = None => e = c)
    BY <1>1 DEF EventFor, LockInv, TypeOK, RegisteredEventsUnset
  <2>3. TypeOK'
    BY <1>1, <1>2, <2>1, <2>2 DEF LockInv, TypeOK
  <2>4. /\ calls'[c] = [pc |-> "blocked", agent |-> a, path |-> p, event |-> e]
        /\ \A d \in Calls \ {c} : calls'[d] = calls[d]
        /\ events'[p] = e
        /\ \A q \in Paths \ {p} : events'[q] = events[q]
    BY <2>1 DEF LockInv, TypeOK
  <2>5. BlockedCallsHaveArgs'
    BY <2>2, <2>4 DEF LockInv, BlockedCallsHaveArgs, Blocked
  <2>6. EventsHaveCreators'
    <3>1. \A d \in eventSet' : calls'[d].pc # "idle"
      BY <1>1, <2>4 DEF LockInv, TypeOK, EventsHaveCreators
    <3>2. ASSUME NEW q \in Paths, events'[q] # None PROVE calls'[events'[q]].pc # "idle"
      <4>1. CASE events'[q] = c
        BY <4>1, <2>4
      <4>2. CASE events'[q] # c
        <5>1. events'[q] = events[q] /\ events[q] # None
          BY <3>2, <4>2, <2>2, <2>4
        <5>2. events[q] \in Calls /\ calls[events[q]].pc # "idle"
          BY <5>1 DEF LockInv, TypeOK, EventsHaveCreators
        <5>. QED  BY <4>2, <5>1, <5>2, <2>4
      <4>. QED  BY <4>1, <4>2
    <3>3. ASSUME NEW q \in Paths, NEW r \in Paths, events'[q] # None, events'[q] = events'[r]
          PROVE  q = r
      BY <3>3, <1>1, <2>2, <2>4 DEF LockInv, EventsHaveCreators
    <3>. QED  BY <3>1, <3>2, <3>3 DEF EventsHaveCreators
  <2>7. RegisteredEventsUnset'
    BY <1>1, <2>2, <2>4 DEF LockInv, RegisteredEventsUnset
  <2>8. NoLostWakeup'
    <3>1. a \in Range(waitQueues'[p]) /\ locks'[p] \notin {None, a}
      BY <1>1, <1>5, AcquireEffectWaiters DEF LockInv
    <3>2. ASSUME NEW d \in Calls \ {c}, Blocked(d), calls[d].event \notin eventSet
          PROVE  events'[calls[d].path] = calls[d].event
      <4>1. CASE calls[d].path = p
        BY <4>1, <3>2, <1>3, <2>2, <2>4
      <4>2. CASE calls[d].path # p
        BY <4>2, <3>2, <1>3, <2>4
      <4>. QED  BY <4>1, <4>2
    <3>. QED  BY <1>1, <1>3, <2>4, <3>1, <3>2 DEF NoLostWakeup, Blocked
  <2>. QED  BY <1>2, <2>3, <2>5, <2>6, <2>7, <2>8 DEF LockInv
<1>. QED  BY <1>4, <1>5

\* A call that returns, woken or timed out, preserves the invariant.
LEMMA ReturnInv ==
    ASSUME LockInv, NEW c \in Calls, NEW o \in Outcomes, Return(c, o)
    PROVE  LockInv'
<1>1. calls' = [calls EXCEPT ![c].pc = o] /\ UNCHANGED managerVars
  BY DEF Return
<1>2. /\ calls'[c].pc = o /\ o \notin {"idle", "blocked"}
      /\ \A d \in Calls \ {c} : calls'[d] = calls[d]
  BY <1>1 DEF LockInv, TypeOK, Outcomes
<1>3. TypeOK'
  BY <1>1 DEF LockInv, TypeOK, managerVars
<1>4. WaitersBehindHolder' /\ NobodyQueuesTwice' /\ RegisteredEventsUnset'
  BY <1>1 DEF LockInv, WaitersBehindHolder, NobodyQueuesTwice, RegisteredEventsUnset, managerVars
<1>5. BlockedCallsHaveArgs' /\ NoLostWakeup'
  BY <1>1, <1>2 DEF LockInv, BlockedCallsHaveArgs, NoLostWakeup, Blocked, managerVars
<1>6. EventsHaveCreators'
  BY <1>1, <1>2 DEF LockInv, TypeOK, EventsHaveCreators, managerVars
<1>. QED  BY <1>3, <1>4, <1>5, <1>6 DEF LockInv

-----------------------------------------------------------------------------
(* The theorems                                                            *)

\* The initial state satisfies the invariant.
LEMMA InitInv == Init => LockInv
<1>. SUFFICES ASSUME Init PROVE LockInv
  OBVIOUS
<1>. USE NoneAssumption DEF Init
<1>1. TypeOK
  BY DEF TypeOK, NotCalled
<1>2. WaitersBehindHolder /\ NobodyQueuesTwice
  BY EmptyQueue DEF WaitersBehindHolder, NobodyQueuesTwice
<1>3. BlockedCallsHaveArgs /\ NoLostWakeup
  BY DEF BlockedCallsHaveArgs, NoLostWakeup, Blocked, NotCalled
<1>4. EventsHaveCreators /\ RegisteredEventsUnset
  BY DEF EventsHaveCreators, RegisteredEventsUnset
<1>. QED  BY <1>1, <1>2, <1>3, <1>4 DEF LockInv

\* Every step preserves the invariant.
LEMMA NextInv == LockInv /\ [Next]_vars => LockInv'
<1>. SUFFICES ASSUME LockInv, [Next]_vars PROVE LockInv'
  OBVIOUS
<1>1. ASSUME NEW p \in Paths, NEW a \in Agents, Acquire(p, a) PROVE LockInv'
  BY <1>1, AcquireInv
<1>2. ASSUME NEW p \in Paths, NEW a \in Agents, Release(p, a) PROVE LockInv'
  BY <1>2, HandOffInv DEF Release
<1>3. ASSUME NEW p \in Paths, ForceRelease(p) PROVE LockInv'
  BY <1>3, HandOffInv DEF ForceRelease
<1>4. ASSUME NEW a \in Agents, ReleaseAllForAgent(a) PROVE LockInv'
  BY <1>4, HandOffInv DEF ReleaseAllForAgent, HeldBy
<1>5. ASSUME NEW c \in Calls, NEW p \in Paths, NEW a \in Agents, Wait(c, p, a) PROVE LockInv'
  BY <1>5, WaitInv
<1>6. ASSUME NEW c \in Calls, Resume(c) PROVE LockInv'
  BY <1>6, ReturnInv DEF Resume, Outcomes
<1>7. ASSUME NEW c \in Calls, Timeout(c) PROVE LockInv'
  BY <1>7, ReturnInv DEF Timeout, Outcomes
<1>8. CASE UNCHANGED vars
  BY <1>8 DEF LockInv, TypeOK, WaitersBehindHolder, NobodyQueuesTwice, BlockedCallsHaveArgs,
              EventsHaveCreators, RegisteredEventsUnset, NoLostWakeup, Blocked, vars
<1>. QED  BY <1>1, <1>2, <1>3, <1>4, <1>5, <1>6, <1>7, <1>8 DEF Next

\* The invariant holds in every reachable state of the lock manager.
THEOREM LockInvariant == Spec => []LockInv
<1>. QED  BY InitInv, NextInv, PTL DEF Spec

\* No wait() is blocked for an event that nobody will set: whatever the
\* agents do, the next hand-off of its path wakes it.
THEOREM LostWakeupFreedom == Spec => []NoLostWakeup
<1>1. LockInv => NoLostWakeup
  BY DEF LockInv
<1>. QED  BY <1>1, LockInvariant, PTL

\* The lock table, the queues and the events keep their types.
THEOREM LockTableTypes == Spec => []TypeOK
<1>1. LockInv => TypeOK
  BY DEF LockInv
<1>. QED  BY <1>1, LockInvariant, PTL

\* The lock table, the queues and the events agree: no path is free while
\* somebody waits for it, no agent queues twice or behind itself, and no new
\* waiter attaches to an event that was set already.
THEOREM LockTableSafety == Spec => []LockTableConsistent
<1>1. LockInv => LockTableConsistent
  BY DEF LockInv, LockTableConsistent
<1>. QED  BY <1>1, LockInvariant, PTL

\* A wait() that answers True answers it to the holder of the path.
THEOREM WaitAnswersTruly == Spec => TrueMeansHolding
<1>1. ASSUME LockInv, [Next]_vars, NEW c \in Calls,
             calls'[c].pc = "acquired", calls[c].pc # "acquired"
      PROVE  locks'[calls'[c].path] = calls'[c].agent
  <2>1. ASSUME NEW d \in Calls, NEW p \in Paths, NEW a \in Agents, Wait(d, p, a)
        PROVE  locks'[calls'[c].path] = calls'[c].agent
    <3>1. CASE Available(p, a)
      <4>1. /\ locks' = [locks EXCEPT ![p] = a]
            /\ calls' = [calls EXCEPT ![d] =
                  [pc |-> "acquired", agent |-> a, path |-> p, event |-> None]]
        BY <2>1, <3>1 DEF Wait, AcquireEffect
      <4>2. d = c
        BY <1>1, <4>1 DEF LockInv, TypeOK
      <4>3. calls'[c] = [pc |-> "acquired", agent |-> a, path |-> p, event |-> None]
        BY <1>1, <4>1, <4>2 DEF LockInv, TypeOK
      <4>4. calls'[c].agent = a /\ calls'[c].path = p
        BY <4>3
      <4>5. locks'[p] = a
        BY <1>1, <4>1 DEF LockInv, TypeOK
      <4>. QED  BY <4>4, <4>5
    <3>2. CASE ~Available(p, a)
      <4>1. calls' = [calls EXCEPT ![d] =
                [pc |-> "blocked", agent |-> a, path |-> p, event |-> EventFor(p, d)]]
        BY <2>1, <3>2 DEF Wait
      <4>. QED  BY <1>1, <4>1 DEF LockInv, TypeOK
    <3>. QED  BY <3>1, <3>2
  <2>2. ASSUME NEW d \in Calls, Resume(d)
        PROVE  locks'[calls'[c].path] = calls'[c].agent
    <3>1. d = c /\ locks[calls[d].path] = calls[d].agent
      BY <1>1, <2>2 DEF Resume, Return, LockInv, TypeOK
    <3>2. calls'[c].path = calls[c].path /\ calls'[c].agent = calls[c].agent
      BY <2>2, <3>1 DEF Resume, Return, LockInv, TypeOK
    <3>. QED  BY <2>2, <3>1, <3>2 DEF Resume, Return, managerVars
  <2>3. ASSUME NEW d \in Calls, Timeout(d) PROVE FALSE
    BY <1>1, <2>3 DEF Timeout, Return, LockInv, TypeOK
  <2>4. CASE calls' = calls
    BY <1>1, <2>4
  <2>. QED  BY <1>1, <2>1, <2>2, <2>3, <2>4
            DEF Next, vars, Acquire, Release, ForceRelease, ReleaseAllForAgent, HandOff
<1>2. LockInv /\ [Next]_vars =>
        [\A c \in Calls : calls'[c].pc = "acquired" /\ calls[c].pc # "acquired" =>
            locks'[calls'[c].path] = calls'[c].agent]_vars
  BY <1>1
<1>. QED  BY <1>2, LockInvariant, PTL DEF Spec, TrueMeansHolding

-----------------------------------------------------------------------------
(* The lock manager implements the FIFO line                               *)

\* The refinement mapping: a free path has an empty line.
LineOf(p) == IF locks[p] = None THEN waitQueues[p] ELSE <<locks[p]>> \o waitQueues[p]

\* A free path and its (empty) queue, and a held path and its queue, as lines.
LEMMA LineShape ==
    ASSUME LockInv, NEW p \in Paths
    PROVE  /\ LineOf(p) \in Seq(Agents)
           /\ locks[p] = None => LineOf(p) = <<>>
           /\ locks[p] # None =>
                /\ locks[p] \in Agents
                /\ LineOf(p) = <<locks[p]>> \o waitQueues[p]
                /\ Tail(LineOf(p)) = waitQueues[p]
                /\ LineOf(p) # <<>>
<1>1. locks[p] \in Agents \union {None} /\ waitQueues[p] \in Seq(Agents)
  BY DEF LockInv, TypeOK
<1>2. locks[p] = None => waitQueues[p] = <<>>
  BY DEF LockInv, WaitersBehindHolder
<1>3. CASE locks[p] = None
  BY <1>1, <1>2, <1>3 DEF LineOf
<1>4. CASE locks[p] # None
  BY <1>1, <1>4, PushHead DEF LineOf
<1>. QED  BY <1>3, <1>4

\* acquire() joins the line of its path, or leaves every line as it is.
LEMMA AcquireJoins ==
    ASSUME LockInv, LockInv', NEW p \in Paths, NEW a \in Agents, AcquireEffect(p, a)
    PROVE  \/ Line!Join(a, p)
           \/ UNCHANGED [q \in Paths |-> LineOf(q)]
<1> USE NoneAssumption
<1> DEFINE line == [q \in Paths |-> LineOf(q)]
<1>1. /\ locks[p] \in Agents \union {None} /\ waitQueues[p] \in Seq(Agents)
      /\ locks \in [Paths -> Agents \union {None}] /\ waitQueues \in [Paths -> Seq(Agents)]
  BY DEF LockInv, TypeOK
<1>2. CASE locks[p] = None
  <2>1. locks' = [locks EXCEPT ![p] = a] /\ waitQueues' = waitQueues /\ waitQueues[p] = <<>>
    BY <1>2 DEF AcquireEffect, Available, LockInv, WaitersBehindHolder
  <2>2. line[p] = <<>> /\ line'[p] = <<a>> /\ a \notin Range(line[p])
    BY <1>1, <1>2, <2>1, EmptyQueue DEF LineOf
  <2>3. line'[p] = Append(line[p], a)
    BY <2>2
  <2>4. line' = [line EXCEPT ![p] = Append(@, a)]
    BY <1>1, <2>1, <2>3 DEF LineOf
  <2>. QED  BY <2>2, <2>4 DEF Line!Join, LineOf, Range, Line!Range
<1>3. CASE locks[p] # None /\ (locks[p] = a \/ a \in Range(waitQueues[p]))
  BY <1>1, <1>3 DEF AcquireEffect, Available, LineOf
<1>4. CASE locks[p] # None /\ locks[p] # a /\ a \notin Range(waitQueues[p])
  <2>1. locks' = locks /\ waitQueues' = [waitQueues EXCEPT ![p] = Append(@, a)]
    BY <1>4 DEF AcquireEffect, Available
  <2>2. line[p] = <<locks[p]>> \o waitQueues[p]
    BY <1>4 DEF LineOf
  <2>3. a \notin Range(line[p]) /\ Append(line[p], a) = <<locks[p]>> \o Append(waitQueues[p], a)
    <3>1. locks[p] \in Agents
      BY <1>1, <1>4
    <3> DEFINE q == waitQueues[p]
               h == locks[p]
    <3>2. Append(<<h>> \o q, a) = <<h>> \o Append(q, a) /\ a \notin Range(<<h>> \o q)
      <4>1. q \in Seq(Agents) /\ h \in Agents /\ a # h /\ a \notin Range(q)
        BY <1>1, <1>4, <3>1
      <4>. HIDE DEF q, h
      <4>2. Append(<<h>> \o q, a) = <<h>> \o Append(q, a)
        BY <4>1
      <4>3. a \notin Range(<<h>> \o q)
        BY <4>1, PushHeadRange
      <4>. QED  BY <4>2, <4>3
    <3>. QED  BY <2>2, <3>2
  <2>4. line'[p] = Append(line[p], a)
    BY <1>1, <1>4, <2>1, <2>3 DEF LineOf
  <2>5. line' = [line EXCEPT ![p] = Append(@, a)]
    BY <1>1, <2>1, <2>4 DEF LineOf
  <2>. QED  BY <2>3, <2>5 DEF Line!Join, LineOf, Range, Line!Range
<1>. QED  BY <1>2, <1>3, <1>4

\* A hand-off of held paths is the holders leaving their lines.
LEMMA HandOffLeaves ==
    ASSUME LockInv, LockInv', NEW P \in SUBSET Paths, HandOff(P), \A p \in P : locks[p] # None
    PROVE  Line!Leave(P)
<1> USE NoneAssumption
<1> DEFINE line == [q \in Paths |-> LineOf(q)]
<1>1. \A p \in P : line[p] # <<>>
  BY LineShape
<1>2. ASSUME NEW p \in P PROVE LineOf(p)' = Tail(LineOf(p))
  <2>1. Tail(LineOf(p)) = waitQueues[p]
    BY LineShape
  <2>2. waitQueues[p] \in Seq(Agents)
    BY DEF LockInv, TypeOK
  <2>3. CASE waitQueues[p] = <<>>
    <3>1. locks'[p] = None /\ waitQueues'[p] = <<>>
      BY <2>3 DEF HandOff
    <3>. QED  BY <2>1, <2>3, <3>1 DEF LineOf
  <2>4. CASE waitQueues[p] # <<>>
    <3>1. locks'[p] = Head(waitQueues[p]) /\ waitQueues'[p] = Tail(waitQueues[p])
      BY <2>4 DEF HandOff
    <3>2. locks'[p] # None
      BY <3>1, <2>2, <2>4
    <3>3. waitQueues[p] = <<Head(waitQueues[p])>> \o Tail(waitQueues[p])
      BY <2>2, <2>4, PushHead
    <3>. QED  BY <2>1, <3>1, <3>2, <3>3 DEF LineOf
  <2>. QED  BY <2>3, <2>4
<1>3. ASSUME NEW p \in Paths \ P PROVE LineOf(p)' = LineOf(p)
  <2>1. locks'[p] = locks[p] /\ waitQueues'[p] = waitQueues[p]
    BY DEF HandOff
  <2>. QED  BY <2>1 DEF LineOf
<1>4. line' = [p \in Paths |-> IF p \in P THEN Tail(line[p]) ELSE line[p]]
  BY <1>2, <1>3
<1>. QED  BY <1>1, <1>4 DEF Line!Leave, LineOf

\* Every lock manager is a FIFO line per path: no step overtakes a waiter,
\* drops one, or takes the lock from its holder without handing it on.
THEOREM FileLockIsFifo == Spec => ImplementsFifoLock
<1>1. Init => Line!Init
  BY DEF Init, Line!Init
<1>2. ASSUME LockInv, LockInv', [Next]_vars
      PROVE  Line!Next \/ UNCHANGED [q \in Paths |-> LineOf(q)]
  <2>1. ASSUME NEW p \in Paths, NEW a \in Agents, AcquireEffect(p, a)
        PROVE  Line!Next \/ UNCHANGED [q \in Paths |-> LineOf(q)]
    BY <1>2, <2>1, AcquireJoins DEF Line!Next
  <2>2. ASSUME NEW P \in SUBSET Paths, HandOff(P), \A p \in P : locks[p] # None
        PROVE  Line!Next
    BY <1>2, <2>2, HandOffLeaves DEF Line!Next
  <2>3. ASSUME NEW p \in Paths, NEW a \in Agents, Release(p, a) PROVE Line!Next
    BY <2>2, <2>3, NoneAssumption DEF Release
  <2>4. ASSUME NEW p \in Paths, ForceRelease(p) PROVE Line!Next
    BY <2>2, <2>4 DEF ForceRelease
  <2>5. ASSUME NEW a \in Agents, ReleaseAllForAgent(a) PROVE Line!Next
    BY <2>2, <2>5, NoneAssumption DEF ReleaseAllForAgent, HeldBy
  <2>6. CASE UNCHANGED <<locks, waitQueues>>
    BY <2>6 DEF LineOf
  <2>. QED  BY <1>2, <2>1, <2>3, <2>4, <2>5, <2>6
            DEF Next, Acquire, Wait, Resume, Timeout, Return, managerVars, vars
<1>3. LockInv /\ LockInv' /\ [Next]_vars =>
        [Line!Next]_([p \in Paths |-> IF locks[p] = None THEN waitQueues[p]
                                      ELSE <<locks[p]>> \o waitQueues[p]])
  BY <1>2 DEF LineOf
<1>. QED  BY <1>1, <1>3, LockInvariant, PTL DEF Spec, ImplementsFifoLock, Line!Spec
=============================================================================
