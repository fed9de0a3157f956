--------------------------- MODULE PairingProofs ---------------------------
(***************************************************************************)
(* Theorems about Pairing, for any ids, endpoints, code strings, time to   *)
(* live and bounds of the model.                                           *)
(***************************************************************************)
EXTENDS Pairing, TLAPS

-----------------------------------------------------------------------------
(* The inductive invariant                                                 *)

\* The pairings that codes stand for, that are done and that connections saw
\* were issued before, and codes are not from the future.
IssuedBefore ==
    /\ \A c \in Codes : codes[c] # None => codes[c].pairing <= issued /\ codes[c].issuedAt <= now
    /\ \A r \in paired : r.pairing <= issued

\* No two strings stand for one pairing at a time.
OneCodeEach ==
    \A c, d \in Codes :
        codes[c] # None /\ codes[d] # None /\ codes[c].pairing = codes[d].pairing => c = d

PairingInv == TypeOK /\ IssuedBefore /\ OneCodeEach /\ CodesSpentOnce /\ ConnectionSparesCode

\* Before any code is issued none is spent.
LEMMA PairingInit == Init => PairingInv
<1>. QED  BY BoundsAssumption
          DEF Init, PairingInv, TypeOK, AgentsType, IssuedBefore, OneCodeEach,
              CodesSpentOnce, ConnectionSparesCode

\* What upsert() and register() leave is a registry.
LEMMA RegistryTypes ==
    ASSUME AgentsType, NEW i \in Ids, NEW e \in Endpoints,
           Upsert(i, e) \/ Register(i, e) \/ Unregister(i)
    PROVE  AgentsType'
<1>1. Fresh(e) \in AgentInfo
  BY DEF AgentInfo, Fresh
<1>2. ASSUME NEW v \in AgentInfo \union {None}, agents' = [agents EXCEPT ![i] = v]
      PROVE  AgentsType'
  BY <1>2 DEF AgentsType
<1>. QED  BY <1>1, <1>2 DEF AgentsType, Upsert, Register, Unregister

\* The invariant does not look at the registry, but for its type.
LEMMA RegistryStep ==
    ASSUME PairingInv, AgentsType', UNCHANGED <<now, codes, issued, paired, admitted>>
    PROVE  PairingInv'
<1>. QED  BY DEF PairingInv, TypeOK, IssuedBefore, OneCodeEach, CodesSpentOnce,
                 ConnectionSparesCode

\* Codes only get older.
LEMMA TickInv == PairingInv /\ Tick => PairingInv'
<1>. SUFFICES ASSUME PairingInv, Tick PROVE PairingInv'
  OBVIOUS
<1>1. now \in 0 .. MaxTime /\ now' = now + 1 /\ now' \in 0 .. MaxTime
  BY BoundsAssumption DEF PairingInv, TypeOK, Tick
<1>2. UNCHANGED <<agents, codes, issued, paired, admitted>>
  BY DEF Tick
<1>3. TypeOK'
  BY <1>1, <1>2 DEF PairingInv, TypeOK, AgentsType
<1>4. IssuedBefore'
  BY <1>1, <1>2, BoundsAssumption DEF PairingInv, TypeOK, IssuedBefore, PairingCode
<1>5. ConnectionSparesCode'
  BY <1>1, <1>2, BoundsAssumption, TTLAssumption
  DEF PairingInv, TypeOK, ConnectionSparesCode, PairingCode
<1>. QED  BY <1>2, <1>3, <1>4, <1>5 DEF PairingInv, OneCodeEach, CodesSpentOnce

\* A new code stands for a pairing of its own.
LEMMA GenerateInv == ASSUME PairingInv, NEW c \in Codes, Generate(c) PROVE PairingInv'
<1> DEFINE p == [issuedAt |-> now, pairing |-> issued + 1]
<1>1. /\ codes[c] = None /\ issued' = issued + 1 /\ issued' \in 1 .. MaxIssued
      /\ codes' = [codes EXCEPT ![c] = p] /\ p \in PairingCode
      /\ UNCHANGED <<agents, now, paired, admitted>>
  BY BoundsAssumption DEF PairingInv, TypeOK, Generate, PairingCode, Pairings
<1>2. /\ codes'[c] = p /\ p # None
      /\ \A d \in Codes \ {c} : codes'[d] = codes[d]
  BY <1>1, NoneIsNoCode DEF PairingInv, TypeOK
<1>3. TypeOK'
  BY <1>1 DEF PairingInv, TypeOK, AgentsType
<1>4. \A d \in Codes : codes[d] # None => codes[d].pairing # p.pairing
  BY BoundsAssumption DEF PairingInv, TypeOK, IssuedBefore, PairingCode, Pairings
<1>5. \A r \in paired : r.pairing # p.pairing
  BY BoundsAssumption DEF PairingInv, TypeOK, IssuedBefore, Pairings
<1>6. IssuedBefore'
  <2>1. now <= now /\ issued + 1 <= issued'
    BY <1>1, BoundsAssumption DEF PairingInv, TypeOK
  <2>2. ASSUME NEW d \in Codes \ {c}, codes[d] # None
        PROVE  codes[d].pairing <= issued' /\ codes[d].issuedAt <= now
    BY <1>1, <2>2, BoundsAssumption DEF PairingInv, TypeOK, IssuedBefore, PairingCode, Pairings
  <2>3. \A r \in paired : r.pairing <= issued'
    BY <1>1, BoundsAssumption DEF PairingInv, TypeOK, IssuedBefore, Pairings
  <2>. QED  BY <1>1, <1>2, <2>1, <2>2, <2>3 DEF IssuedBefore
<1>7. OneCodeEach'
  BY <1>2, <1>4 DEF PairingInv, OneCodeEach
<1>8. CodesSpentOnce'
  BY <1>1, <1>2, <1>5 DEF PairingInv, CodesSpentOnce
<1>9. ConnectionSparesCode'
  <2>1. \A q \in admitted, d \in Codes : codes[d] = q => codes'[d] = q
    BY <1>1, <1>2, NoneIsNoCode DEF PairingInv, TypeOK
  <2>. QED  BY <1>1, <2>1 DEF PairingInv, ConnectionSparesCode
<1>. QED  BY <1>3, <1>6, <1>7, <1>8, <1>9 DEF PairingInv

\* A code that leaves the table disturbs no more than what was promised to
\* those who connected with it.
LEMMA RemovalInv ==
    ASSUME PairingInv, NEW c \in Codes, codes[c] # None,
           codes' = [codes EXCEPT ![c] = None], UNCHANGED <<now, issued, admitted>>,
           AgentsType',
           \/ now - codes[c].issuedAt > TTL /\ UNCHANGED paired
           \/ \E r \in [pairing : {codes[c].pairing}, id : Ids, endpoint : Endpoints,
                        age : {now - codes[c].issuedAt}] :
                /\ ~(now - codes[c].issuedAt > TTL)
                /\ paired' = paired \union {r}
    PROVE  PairingInv'
<1>1. codes'[c] = None /\ \A d \in Codes \ {c} : codes'[d] = codes[d]
  BY DEF PairingInv, TypeOK
<1>2. /\ codes[c] \in PairingCode /\ codes[c].pairing \in Pairings
      /\ codes[c].pairing <= issued
      /\ codes[c].issuedAt \in Nat /\ now \in Nat /\ now - codes[c].issuedAt \in Nat
  BY BoundsAssumption DEF PairingInv, TypeOK, IssuedBefore, PairingCode
<1>3. /\ \A r \in paired' \ paired :
            /\ r \in [pairing : Pairings, id : Ids, endpoint : Endpoints, age : Nat]
            /\ r.pairing = codes[c].pairing /\ r.age <= TTL
            /\ paired' = paired \union {r}
      /\ paired \subseteq paired'
  BY <1>2, TTLAssumption
<1>4. TypeOK'
  BY <1>3 DEF PairingInv, TypeOK
<1>5. IssuedBefore'
  BY <1>1, <1>2, <1>3 DEF PairingInv, IssuedBefore
<1>6. OneCodeEach'
  BY <1>1 DEF PairingInv, OneCodeEach
<1>7. CodesSpentOnce'
  <2>1. \A r \in paired' : r.age <= TTL
    BY <1>3 DEF PairingInv, CodesSpentOnce
  <2>2. \A r \in paired : r.pairing # codes[c].pairing
    BY DEF PairingInv, CodesSpentOnce
  <2>3. \A r, q \in paired' : r.pairing = q.pairing => r = q
    BY <1>3, <2>2 DEF PairingInv, CodesSpentOnce
  <2>4. ASSUME NEW d \in Codes, codes'[d] # None, NEW r \in paired'
        PROVE  r.pairing # codes'[d].pairing
    BY <1>1, <1>3, <2>4 DEF PairingInv, CodesSpentOnce, OneCodeEach
  <2>. QED  BY <2>1, <2>3, <2>4 DEF CodesSpentOnce
<1>8. ConnectionSparesCode'
  <2>. SUFFICES ASSUME NEW p \in admitted
                PROVE  \/ now - p.issuedAt > TTL
                       \/ \E r \in paired' : r.pairing = p.pairing
                       \/ \E d \in Codes : codes'[d] = p
    BY DEF ConnectionSparesCode
  <2>1. CASE codes[c] = p
    BY <2>1
  <2>2. CASE codes[c] # p
    BY <1>1, <1>3, <2>2 DEF PairingInv, ConnectionSparesCode
  <2>. QED  BY <2>1, <2>2
<1>. QED  BY <1>4, <1>5, <1>6, <1>7, <1>8 DEF PairingInv

\* A completed pairing takes its code along.
LEMMA CompleteInv ==
    ASSUME PairingInv, NEW c \in Codes, NEW i \in Ids, NEW e \in Endpoints, Complete(c, i, e)
    PROVE  PairingInv'
<1> DEFINE r == [pairing |-> codes[c].pairing, id |-> i, endpoint |-> e, age |-> Age(c)]
<1>1. /\ codes[c] # None /\ codes' = [codes EXCEPT ![c] = None]
      /\ UNCHANGED <<now, issued, admitted>>
      /\ ~(now - codes[c].issuedAt > TTL) /\ paired' = paired \union {r}
  BY DEF Complete, Expired, Age
<1>2. r \in [pairing : {codes[c].pairing}, id : Ids, endpoint : Endpoints,
             age : {now - codes[c].issuedAt}]
  BY DEF Age
<1>3. AgentsType'
  BY RegistryTypes DEF Complete, PairingInv, TypeOK
<1>. HIDE DEF r
<1>. QED  BY <1>1, <1>2, <1>3, RemovalInv

\* A connection records its code and leaves every code as it was issued.
LEMMA ConnectInv == ASSUME PairingInv, NEW c \in Codes, Connect(c) PROVE PairingInv'
<1>1. /\ admitted' = admitted \union {codes[c]} /\ codes[c] \in PairingCode
      /\ UNCHANGED <<agents, now, codes, issued, paired>>
  BY DEF Connect, PairingInv, TypeOK
<1>2. TypeOK'
  BY <1>1 DEF PairingInv, TypeOK, AgentsType
<1>3. ConnectionSparesCode'
  BY <1>1 DEF PairingInv, ConnectionSparesCode
<1>. QED  BY <1>1, <1>2, <1>3 DEF PairingInv, IssuedBefore, OneCodeEach, CodesSpentOnce

\* Every step preserves the invariant.
LEMMA PairingNext == PairingInv /\ [Next]_vars => PairingInv'
<1>. SUFFICES ASSUME PairingInv, [Next]_vars PROVE PairingInv'
  OBVIOUS
<1>1. ASSUME NEW c \in Codes, Validate(c) PROVE PairingInv'
  <2>1. AgentsType'
    BY <1>1 DEF Validate, PairingInv, TypeOK, AgentsType
  <2>. QED  BY <1>1, <2>1, RemovalInv DEF Validate, Expired, Age
<1>2. ASSUME NEW i \in Ids, NEW e \in Endpoints, RegisterAgent(i, e) PROVE PairingInv'
  BY <1>2, RegistryTypes, RegistryStep DEF RegisterAgent, PairingInv, TypeOK
<1>3. ASSUME NEW i \in Ids, DisconnectAgent(i) PROVE PairingInv'
  <2>1. AgentsType'
    BY <1>3 DEF DisconnectAgent, Unregister, PairingInv, TypeOK, AgentsType
  <2>. QED  BY <1>3, <2>1, RegistryStep DEF DisconnectAgent
<1>4. CASE UNCHANGED vars
  <2>1. AgentsType'
    BY <1>4 DEF vars, PairingInv, TypeOK, AgentsType
  <2>. QED  BY <1>4, <2>1, RegistryStep DEF vars
<1>. QED  BY TickInv, GenerateInv, CompleteInv, ConnectInv, <1>1, <1>2, <1>3, <1>4 DEF Next

-----------------------------------------------------------------------------
(* The theorems                                                            *)

\* The invariant holds in every reachable state.
THEOREM PairingInvariant == Spec => []PairingInv
<1>. QED  BY PairingInit, PairingNext, PTL DEF Spec

\* Codes, the registry and what was paired keep their types.
THEOREM PairingTypes == Spec => []TypeOK
<1>1. PairingInv => TypeOK
  BY DEF PairingInv
<1>. QED  BY <1>1, PairingInvariant, PTL

\* A code completes one pairing at most, and in time, although its string may
\* be drawn again after it was spent or has expired.
THEOREM PairingsAreUnique == Spec => []CodesSpentOnce
<1>1. PairingInv => CodesSpentOnce
  BY DEF PairingInv
<1>. QED  BY <1>1, PairingInvariant, PTL

\* Connecting with a code does not spend it.
THEOREM ConnectionsSpendNothing == Spec => []ConnectionSparesCode
<1>1. PairingInv => ConnectionSparesCode
  BY DEF PairingInv
<1>. QED  BY <1>1, PairingInvariant, PTL
=============================================================================
