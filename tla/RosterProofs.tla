---------------------------- MODULE RosterProofs ----------------------------
(***************************************************************************)
(* Theorems about Heartbeat and Roster: what a round of the monitor, a     *)
(* registration and a session may do to an agent, for any ids and          *)
(* endpoints.                                                              *)
(***************************************************************************)
EXTENDS Roster, TLAPS

-----------------------------------------------------------------------------
(* The session leaves the monitor alone                                    *)

\* Beside a session the monitor and the registry behave as without one.
THEOREM RosterIsHeartbeat == RosterSpec => Spec
<1>1. RosterInit => Init
  BY DEF RosterInit
<1>2. [RosterNext]_rosterVars => [Next]_vars
  BY DEF RosterNext, Reregister, Disconnect, CreateSession, DeleteSession, OtherStep,
         Next, rosterVars
<1>. QED  BY <1>1, <1>2, PTL DEF RosterSpec, Spec

-----------------------------------------------------------------------------
(* Types                                                                   *)

\* The monitor starts without pings.
LEMMA HeartbeatInitTypes == Init => TypeOK
BY DEF Init, TypeOK, AgentsType, NoPings, NoPing

\* Each step of the monitor and of the registry keeps the types.
LEMMA HeartbeatNextTypes == TypeOK /\ [Next]_vars => TypeOK'
<1>. SUFFICES ASSUME TypeOK, [Next]_vars PROVE TypeOK'
  OBVIOUS
<1>. USE DEF TypeOK, AgentsType, AgentInfo
<1>1. ASSUME NEW i \in Ids, NEW e \in Endpoints, RegisterAgent(i, e) PROVE TypeOK'
  BY <1>1 DEF RegisterAgent, ClientStep, Upsert, Fresh
<1>2. ASSUME NEW i \in Ids, NEW e \in Endpoints, CompletePairing(i, e) PROVE TypeOK'
  BY <1>2 DEF CompletePairing, ClientStep, Register, Fresh
<1>3. ASSUME NEW i \in Ids, DisconnectAgent(i) PROVE TypeOK'
  BY <1>3 DEF DisconnectAgent, ClientStep, Unregister
<1>4. ASSUME NEW e \in Endpoints, EndpointChanges(e) PROVE TypeOK'
  BY <1>4 DEF EndpointChanges
<1>5. CASE StartRound
  BY <1>5 DEF StartRound, NoPing, IsRegistered
<1>6. ASSUME NEW i \in Ids, PingEnds(i) PROVE TypeOK'
  BY <1>6 DEF PingEnds
<1>7. CASE EndRound
  BY <1>7 DEF EndRound, NoPings, NoPing, IsRegistered
<1>8. CASE Stop
  BY <1>8 DEF Stop, NoPings, NoPing
<1>9. CASE UNCHANGED vars
  BY <1>9 DEF vars
<1>. QED  BY <1>1, <1>2, <1>3, <1>4, <1>5, <1>6, <1>7, <1>8, <1>9 DEF Next

\* The types hold at all times.
LEMMA HeartbeatTypes == Spec => []TypeOK
BY HeartbeatInitTypes, HeartbeatNextTypes, PTL DEF Spec

\* Only clients unregister: the other steps keep every registration.
LEMMA OthersKeepRegistrations ==
    ASSUME TypeOK, OtherStep, NEW i \in Ids, IsRegistered(i)
    PROVE  agents'[i] # None /\ agents'[i].endpoint = agents[i].endpoint
<1>. USE NoneIsNoValue DEF TypeOK, AgentsType, AgentInfo, IsRegistered
<1>1. CASE \E j \in Ids, e \in Endpoints : CompletePairing(j, e)
  BY <1>1 DEF CompletePairing, Register, Fresh
<1>2. CASE EndRound
  BY <1>2 DEF EndRound
<1>3. CASE UNCHANGED agents
  BY <1>3
<1>. QED  BY <1>1, <1>2, <1>3 DEF OtherStep, EndpointChanges, StartRound, PingEnds, Stop

\* Each step of the session keeps the types.
LEMMA RosterNextTypes == RosterTypeOK /\ [RosterNext]_rosterVars => RosterTypeOK'
<1>. SUFFICES ASSUME RosterTypeOK, [RosterNext]_rosterVars PROVE RosterTypeOK'
  OBVIOUS
<1>1. TypeOK'
  <2>1. [Next]_vars
    BY DEF RosterNext, Reregister, Disconnect, CreateSession, DeleteSession, OtherStep,
           Next, rosterVars
  <2>. QED  BY <2>1, HeartbeatNextTypes DEF RosterTypeOK
<1>. USE DEF RosterTypeOK, TypeOK, AgentsType, IsMember, IsRegistered
<1>2. ASSUME NEW i \in Ids, LetGo(i), \A j \in Ids \ {i} : agents'[j] = agents[j]
      PROVE  RosterTypeOK'
  <2>1. Seen(i) \in AgentInfo \union {None} /\ (Seen(i) = None <=> ~IsMember(i))
    BY SharedIsNoValue DEF Seen
  <2>2. \A j \in Ids \ {i} : participants'[j] = participants[j]
    BY <1>2 DEF LetGo
  <2>3. participants' \in [Ids -> AgentInfo \union {None, Shared}] /\ participants'[i] = Seen(i)
    BY <1>2, <2>1 DEF LetGo
  <2>4. replaced' \subseteq {j \in Ids : participants'[j] # None}
    BY <1>2, <2>1, <2>2, <2>3 DEF LetGo
  <2>5. \A j \in Ids : participants'[j] = Shared => agents'[j] # None
    BY <1>2, <2>1, <2>2, <2>3, SharedIsNoValue
  <2>. QED  BY <1>1, <2>3, <2>4, <2>5
<1>3. ASSUME NEW i \in Ids, NEW e \in Endpoints, Reregister(i, e) PROVE RosterTypeOK'
  BY <1>2, <1>3 DEF Reregister, RegisterAgent, Upsert
<1>4. ASSUME NEW i \in Ids, Disconnect(i) PROVE RosterTypeOK'
  BY <1>2, <1>4 DEF Disconnect, DisconnectAgent, Unregister
<1>5. ASSUME NEW members \in SUBSET Ids, CreateSession(members) PROVE RosterTypeOK'
  <2>1. replaced = {}
    BY <1>5 DEF CreateSession, NoSession
  <2>2. /\ participants' = [i \in Ids |-> IF i \in members THEN Shared ELSE None]
        /\ agents' = agents /\ replaced' = {}
    BY <1>5, <2>1 DEF CreateSession, vars
  <2>3. \A i \in Ids : participants'[i] = Shared => agents'[i] # None
    BY <1>5, <2>2, SharedIsNoValue DEF CreateSession
  <2>. QED  BY <1>1, <2>2, <2>3
<1>6. CASE DeleteSession
  BY <1>1, <1>6, SharedIsNoValue DEF DeleteSession, NoSession, vars
<1>7. CASE OtherStep
  <2>1. UNCHANGED <<participants, replaced>>
    BY <1>7 DEF OtherStep
  <2>2. \A i \in Ids : participants'[i] = Shared => agents'[i] # None
    BY <1>7, <2>1, OthersKeepRegistrations
  <2>. QED  BY <1>1, <2>1, <2>2
<1>8. CASE UNCHANGED rosterVars
  BY <1>1, <1>8 DEF rosterVars, vars
<1>. QED  BY <1>3, <1>4, <1>5, <1>6, <1>7, <1>8 DEF RosterNext

-----------------------------------------------------------------------------
(* The theorems                                                            *)

\* Registry, rounds and sessions keep their types, and what a session shares
\* with the registry is registered.
THEOREM RosterTypes == RosterSpec => []RosterTypeOK
<1>1. RosterInit => RosterTypeOK
  BY HeartbeatInitTypes, SharedIsNoValue DEF RosterInit, RosterTypeOK, NoSession, IsMember
<1>. QED  BY <1>1, RosterNextTypes, PTL DEF RosterSpec

\* The end of a round of pings neither makes nor moves nor undoes a
\* registration, whatever clients did while the round was suspended.
THEOREM RoundsKeepRegistrations == RosterSpec => MonitorKeepsRegistrations
<1>1. ASSUME TypeOK, [Next]_vars, RoundEnds, NEW i \in Ids
      PROVE  /\ IsRegistered(i) <=> agents'[i] # None
             /\ IsRegistered(i) => agents'[i].endpoint = agents[i].endpoint
  <2>1. EndRound
    BY <1>1 DEF Next, vars, RoundEnds, RegisterAgent, CompletePairing, DisconnectAgent,
                ClientStep, EndpointChanges, StartRound, PingEnds, Stop
  <2>. QED  BY <1>1, <2>1, NoneIsNoValue
            DEF EndRound, TypeOK, AgentsType, AgentInfo, IsRegistered
<1>2. TypeOK /\ [Next]_vars =>
        [RoundEnds =>
           \A i \in Ids : /\ IsRegistered(i) <=> agents'[i] # None
                          /\ IsRegistered(i) => agents'[i].endpoint = agents[i].endpoint]_vars
  BY <1>1
<1>. QED  BY <1>2, RosterIsHeartbeat, HeartbeatTypes, PTL DEF Spec, MonitorKeepsRegistrations

\* No registration, pairing or round moves an agent under a running session.
THEOREM SessionsKeepEndpoints == RosterSpec => ParticipantsKeepEndpoint
<1>1. ASSUME RosterTypeOK, [RosterNext]_rosterVars, NEW i \in Ids,
             IsMember(i), participants'[i] # None
      PROVE  Seen(i)'.endpoint = Seen(i).endpoint
  <2>. USE <1>1 DEF RosterTypeOK, TypeOK, AgentsType, IsMember, IsRegistered
  <2>1. Seen(i) \in AgentInfo
    BY DEF Seen
  <2>2. ASSUME NEW j \in Ids, LetGo(j), \A k \in Ids \ {j} : agents'[k] = agents[k]
        PROVE  Seen(i)' = Seen(i)
    BY <2>1, <2>2, SharedIsNoValue DEF LetGo, Seen
  <2>3. ASSUME NEW j \in Ids, NEW e \in Endpoints, Reregister(j, e) PROVE Seen(i)' = Seen(i)
    BY <2>2, <2>3 DEF Reregister, RegisterAgent, Upsert
  <2>4. ASSUME NEW j \in Ids, Disconnect(j) PROVE Seen(i)' = Seen(i)
    BY <2>2, <2>4 DEF Disconnect, DisconnectAgent, Unregister
  <2>5. ASSUME NEW members \in SUBSET Ids, CreateSession(members) PROVE FALSE
    BY <2>5 DEF CreateSession, NoSession
  <2>6. CASE DeleteSession
    BY <2>6 DEF DeleteSession, NoSession
  <2>7. CASE OtherStep
    <3>1. participants' = participants
      BY <2>7 DEF OtherStep
    <3>. QED  BY <2>7, <3>1, OthersKeepRegistrations DEF Seen
  <2>8. CASE UNCHANGED rosterVars
    BY <2>8 DEF rosterVars, vars, Seen
  <2>. QED  BY <2>3, <2>4, <2>5, <2>6, <2>7, <2>8 DEF RosterNext
<1>2. RosterTypeOK /\ [RosterNext]_rosterVars =>
        [\A i \in Ids : IsMember(i) /\ participants'[i] # None =>
            Seen(i)'.endpoint = Seen(i).endpoint]_rosterVars
  BY <1>1
<1>. QED  BY <1>2, RosterTypes, PTL DEF RosterSpec, ParticipantsKeepEndpoint
=============================================================================
