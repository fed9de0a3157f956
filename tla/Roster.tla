------------------------------- MODULE Roster -------------------------------
(***************************************************************************)
(* A session beside the registry and the heartbeat monitor.  POST /sessions*)
(* puts the registered AgentInfo objects themselves into the session, so   *)
(* that the two share them: what the monitor writes, the session shows.    *)
(* POST /agents/register puts a new object into the registry; the session  *)
(* keeps the old one, which nobody writes to any more, and its loops go on *)
(* to POST to the endpoint found there.                                    *)
(***************************************************************************)
EXTENDS Heartbeat

CONSTANT Shared  \* the session holds the object that the registry holds

ASSUME SharedIsNoValue == Shared \notin AgentInfo \union {None}

VARIABLES
    participants,  \* session.agents: id -> None, Shared, or an object of its own
    replaced       \* the participants that the registry replaced or lost (history)

rosterVars == <<vars, participants, replaced>>

NoSession == [i \in Ids |-> None]
IsMember(i) == participants[i] # None
Seen(i) == IF participants[i] = Shared THEN agents[i] ELSE participants[i]

RosterInit == Init /\ participants = NoSession /\ replaced = {}

-----------------------------------------------------------------------------
\* The registry lets go of the object of i, and the session keeps it.
LetGo(i) ==
    /\ participants' = [participants EXCEPT ![i] = Seen(i)]
    /\ replaced' = IF IsMember(i) THEN replaced \union {i} ELSE replaced

\* Mutant of Reregister: the registered object is updated in place.
ReregisterInPlace(i, e) == RegisterAgent(i, e) /\ UNCHANGED <<participants, replaced>>

Reregister(i, e) == RegisterAgent(i, e) /\ LetGo(i)

Disconnect(i) == DisconnectAgent(i) /\ LetGo(i)

\* Mutant of CreateSession: the session gets copies of the objects.
CreateSessionCopies(members) ==
    /\ pc # "stopped" /\ participants = NoSession
    /\ \A i \in members : IsRegistered(i)
    /\ participants' = [i \in Ids |-> IF i \in members THEN agents[i] ELSE None]
    /\ UNCHANGED <<vars, replaced>>

CreateSession(members) ==
    /\ pc # "stopped" /\ participants = NoSession
    /\ \A i \in members : IsRegistered(i)
    /\ participants' = [i \in Ids |-> IF i \in members THEN Shared ELSE None]
    /\ UNCHANGED <<vars, replaced>>

DeleteSession ==
    /\ pc # "stopped" /\ participants # NoSession
    /\ participants' = NoSession /\ replaced' = {}
    /\ UNCHANGED vars

\* Pairing leaves a registered agent as it is; the monitor writes to the
\* registered objects only.
OtherStep ==
    /\ \/ \E i \in Ids, e \in Endpoints : CompletePairing(i, e)
       \/ \E e \in Endpoints : EndpointChanges(e)
       \/ StartRound
       \/ \E i \in Ids : PingEnds(i)
       \/ EndRound
       \/ Stop
    /\ UNCHANGED <<participants, replaced>>

RosterNext ==
    \/ \E i \in Ids, e \in Endpoints : Reregister(i, e)
    \/ \E i \in Ids : Disconnect(i)
    \/ \E members \in SUBSET Ids \ {{}} : CreateSession(members)
    \/ DeleteSession
    \/ OtherStep

RosterSpec == RosterInit /\ [][RosterNext]_rosterVars /\ Fairness

-----------------------------------------------------------------------------
(* Properties                                                              *)

RosterTypeOK ==
    /\ TypeOK
    /\ participants \in [Ids -> AgentInfo \union {None, Shared}]
    /\ replaced \subseteq {i \in Ids : IsMember(i)}
    /\ \A i \in Ids : participants[i] = Shared => IsRegistered(i)

\* The loops of a session POST to the endpoints that its agents had when it
\* was created: no registration moves an agent under a running session, and
\* none repairs a session whose agent moved.
ParticipantsKeepEndpoint ==
    [][\A i \in Ids : IsMember(i) /\ participants'[i] # None =>
         Seen(i)'.endpoint = Seen(i).endpoint]_rosterVars

\* A session learns, through the object that it shares with the registry, that
\* an agent no longer answers, unless the agent registered anew or left.
SessionLearnsOfDeath ==
    \A i \in Ids, e \in Endpoints :
        <>[](IsMember(i) /\ i \notin replaced /\ StaysAt(i, e) /\ e \notin up)
            => []<>(IsMember(i) /\ ~Seen(i).alive)
=============================================================================
