--------------------------- MODULE StartupProofs ---------------------------
(***************************************************************************)
(* Theorems about Startup, for any number of starts.                       *)
(***************************************************************************)
EXTENDS Startup, TLAPS

\* From the user's consent on, the history of a start has the process that
\* listens now and the one that the start is about to stop.
ConsentCovers ==
    \A s \in Starters :
        /\ pc[s] \in {"lookup", "terminate"} => listener \in held[s]
        /\ pc[s] = "terminate" => victim[s] \in held[s]

StartInv == TypeOK /\ ConsentCovers

\* No start has begun.
LEMMA StartInit == Init => StartInv
BY OtherAssumption DEF Init, StartInv, TypeOK, Stages, ConsentCovers

\* The port goes to p, and nobody but its holder, and those who stop, changes
\* place, all the others keeping to their consent.
LEMMA HandoverInv ==
    ASSUME StartInv, NEW p \in Starters \union {Other, None}, Listens(p),
           pc' \in [Starters -> Stages], again' \subseteq Starters,
           UNCHANGED <<windows, healthy, victim>>,
           \A s \in Starters : pc'[s] = "serving" <=> p = s,
           \A s \in Starters : pc'[s] \in {"lookup", "terminate"} => pc'[s] = pc[s]
    PROVE  StartInv'
<1>1. /\ listener' = p
      /\ held' \in [Starters -> SUBSET (Starters \union {Other, None})]
      /\ \A s \in Starters : pc[s] \in {"lookup", "terminate"} => held'[s] = held[s] \union {p}
  BY DEF Listens, StartInv, TypeOK
<1>2. TypeOK'
  BY <1>1 DEF StartInv, TypeOK
<1>3. ConsentCovers'
  BY <1>1 DEF StartInv, ConsentCovers
<1>. QED  BY <1>2, <1>3 DEF StartInv

\* A start goes on by itself, to a stage whose consent is covered.
LEMMA StageInv ==
    ASSUME StartInv, NEW s \in Starters, NEW stage \in Stages \ {"serving"}, pc[s] # "serving",
           pc' = [pc EXCEPT ![s] = stage], again' \subseteq Starters,
           UNCHANGED <<windows, healthy, listener>>,
           victim' \in [Starters -> Starters \union {Other, None}],
           held' \in [Starters -> SUBSET (Starters \union {Other, None})],
           \A t \in Starters \ {s} : victim'[t] = victim[t] /\ held'[t] = held[t],
           stage \in {"lookup", "terminate"} => listener \in held'[s],
           stage = "terminate" => victim'[s] \in held'[s]
    PROVE  StartInv'
<1>1. pc'[s] = stage /\ \A t \in Starters \ {s} : pc'[t] = pc[t]
  BY DEF StartInv, TypeOK
<1>2. TypeOK'
  BY <1>1 DEF StartInv, TypeOK
<1>3. ConsentCovers'
  BY <1>1 DEF StartInv, ConsentCovers
<1>. QED  BY <1>2, <1>3 DEF StartInv

\* Stopping a process frees the port if it is the listener, and nothing if it is not.
LEMMA TerminateInv == ASSUME StartInv, NEW s \in Starters, Terminate(s) PROVE StartInv'
<1> DEFINE next == IF s \in again THEN "probe" ELSE "bind"
<1>. USE DEF StartInv, TypeOK, Stages
<1>1. next \in Stages \ {"serving", "lookup", "terminate"} /\ again \ {s} \subseteq Starters
  OBVIOUS
<1>. HIDE DEF next
<1>2. CASE Goes(s, "exited") /\ UNCHANGED <<listener, held, again>>
  <2>1. pc' = [pc EXCEPT ![s] = "exited"] /\ pc[s] = "terminate" /\ "exited" \in Stages
    BY <1>2 DEF Goes, Terminate
  <2>. QED  BY <1>2, <2>1, StageInv DEF Terminate
<1>3. CASE /\ victim[s] = listener /\ Listens(None) /\ again' = again \ {s}
           /\ pc' = [t \in Starters |-> IF t = s THEN next
                                        ELSE IF t = listener THEN "exited" ELSE pc[t]]
  <2>1. pc' \in [Starters -> Stages]
    BY <1>1, <1>3
  <2>2. ASSUME NEW t \in Starters
        PROVE  /\ pc'[t] # "serving" /\ t # None
               /\ pc'[t] \in {"lookup", "terminate"} => pc'[t] = pc[t]
    BY <1>1, <1>3, OtherAssumption
  <2>. QED  BY <1>1, <1>3, <2>1, <2>2, HandoverInv DEF Terminate
<1>4. CASE Goes(s, next) /\ again' = again \ {s} /\ UNCHANGED <<listener, held>>
  <2>1. pc' = [pc EXCEPT ![s] = next] /\ pc[s] = "terminate"
    BY <1>4 DEF Goes, Terminate
  <2>. QED  BY <1>1, <1>4, <2>1, StageInv DEF Terminate
<1>. QED  BY <1>2, <1>3, <1>4 DEF Terminate, next

\* Every step preserves the invariant.
LEMMA StartNext == StartInv /\ [Next]_vars => StartInv'
<1>. SUFFICES ASSUME StartInv, [Next]_vars PROVE StartInv'
  OBVIOUS
<1>. USE DEF StartInv, TypeOK, Stages
<1>1. ASSUME NEW s \in Starters, Probe(s) \/ Check(s) PROVE StartInv'
  <2>1. PICK stage \in {"bind", "check", "exited", "ask"} : pc' = [pc EXCEPT ![s] = stage]
    BY <1>1 DEF Probe, Check, Goes
  <2>2. /\ pc[s] # "serving" /\ stage \in Stages \ {"serving"}
        /\ UNCHANGED <<windows, healthy, listener, again, victim, held>>
    BY <1>1 DEF Probe, Check
  <2>. QED  BY <2>1, <2>2, StageInv
<1>2. ASSUME NEW s \in Starters, Answer(s) PROVE StartInv'
  <2>1. CASE Goes(s, "exited") /\ UNCHANGED held
    BY <1>2, <2>1, StageInv DEF Answer, Goes
  <2>2. CASE Goes(s, "lookup") /\ held' = [held EXCEPT ![s] = {listener}]
    <3>1. /\ held' \in [Starters -> SUBSET (Starters \union {Other, None})]
          /\ held'[s] = {listener} /\ \A t \in Starters \ {s} : held'[t] = held[t]
      BY <2>2
    <3>. QED  BY <1>2, <2>2, <3>1, StageInv DEF Answer, Goes
  <2>. QED  BY <1>2, <2>1, <2>2 DEF Answer
<1>3. ASSUME NEW s \in Starters, Lookup(s) PROVE StartInv'
  <2>1. CASE Goes(s, "exited") /\ UNCHANGED victim
    BY <1>3, <2>1, StageInv DEF Lookup, Goes
  <2>2. CASE victim' = [victim EXCEPT ![s] = listener] /\ Goes(s, "terminate")
    <3>1. /\ victim' \in [Starters -> Starters \union {Other, None}]
          /\ victim'[s] = listener /\ \A t \in Starters \ {s} : victim'[t] = victim[t]
          /\ listener \in held[s]
      BY <1>3, <2>2 DEF Lookup, ConsentCovers
    <3>. QED  BY <1>3, <2>2, <3>1, StageInv DEF Lookup, Goes
  <2>. QED  BY <1>3, <2>1, <2>2 DEF Lookup
<1>4. ASSUME NEW s \in Starters, BindFails(s) PROVE StartInv'
  <2>1. PICK stage \in {"exited", "check"} : pc' = [pc EXCEPT ![s] = stage]
    BY <1>4 DEF BindFails, Goes
  <2>2. /\ pc[s] # "serving" /\ stage \in Stages \ {"serving"} /\ again' \subseteq Starters
        /\ UNCHANGED <<windows, healthy, listener, victim, held>>
    BY <1>4 DEF BindFails
  <2>. QED  BY <2>1, <2>2, StageInv
<1>5. ASSUME NEW s \in Starters, Serve(s) PROVE StartInv'
  <2>1. /\ pc' \in [Starters -> Stages] /\ pc'[s] = "serving"
        /\ \A t \in Starters \ {s} : pc'[t] = pc[t] /\ pc[t] # "serving"
    BY <1>5, OtherAssumption DEF Serve, Goes
  <2>. QED  BY <1>5, <2>1, HandoverInv DEF Serve
<1>6. CASE ListenerEnds
  <2>1. /\ pc' \in [Starters -> Stages]
        /\ \A t \in Starters : /\ pc'[t] # "serving" /\ t # None
                               /\ pc'[t] \in {"lookup", "terminate"} => pc'[t] = pc[t]
    BY <1>6, OtherAssumption DEF ListenerEnds
  <2>. QED  BY <1>6, <2>1, HandoverInv DEF ListenerEnds
<1>7. CASE OtherListens
  <2>1. \A t \in Starters : pc[t] # "serving" /\ t # Other
    BY <1>7, OtherAssumption DEF OtherListens
  <2>. QED  BY <1>7, <2>1, HandoverInv DEF OtherListens
<1>8. CASE UNCHANGED vars
  BY <1>8 DEF vars, ConsentCovers
<1>. QED  BY TerminateInv, <1>1, <1>2, <1>3, <1>4, <1>5, <1>6, <1>7, <1>8 DEF Next, StartStep

-----------------------------------------------------------------------------
(* The theorems                                                            *)

\* One process listens on the port at a time, the one that serves.
THEOREM StartTypes == Spec => []TypeOK
<1>1. StartInv => TypeOK
  BY DEF StartInv
<1>. QED  BY <1>1, StartInit, StartNext, PTL DEF Spec

\* What a start stops has listened on the port since its user agreed to it.
THEOREM ConsentIsRespected == Spec => OnlyListenersStopped
<1>1. StartInv /\ [Next]_vars =>
        [\A s \in Starters : pc[s] = "terminate" /\ pc'[s] \in {"bind", "probe"} =>
            victim[s] \in held[s]]_vars
  BY DEF StartInv, ConsentCovers
<1>. QED  BY <1>1, StartInit, StartNext, PTL DEF Spec, OnlyListenersStopped
=============================================================================
