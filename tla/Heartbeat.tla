----------------------------- MODULE Heartbeat -----------------------------
(***************************************************************************)
(* HeartbeatMonitor (clawlink_router/heartbeat.py): a background task that *)
(* pings every registered agent, waits for all the answers and writes them *)
(* to the registry, while clients register, replace and disconnect agents. *)
(***************************************************************************)
EXTENDS Registry

VARIABLES
    up,         \* the endpoints that answer a ping with 200 before the timeout
    pc,         \* the task is "sleeping", "pinging" or "stopped"
    ping        \* id -> the ping of this round: the endpoint pinged, its answer

vars == <<agents, up, pc, ping>>

NoPing == [endpoint |-> None, answer |-> "none"]
NoPings == [i \in Ids |-> NoPing]
Pinged(i) == ping[i].answer # "none"

Init ==
    /\ agents = [i \in Ids |-> None]
    /\ up \in SUBSET Endpoints
    /\ pc = "sleeping"
    /\ ping = NoPings

-----------------------------------------------------------------------------
(* Clients and agents; after the monitor stopped no request is served      *)

ClientStep == pc # "stopped" /\ UNCHANGED <<up, pc, ping>>

RegisterAgent(i, e) == ClientStep /\ Upsert(i, e)

CompletePairing(i, e) == ClientStep /\ Register(i, e)

DisconnectAgent(i) == ClientStep /\ Unregister(i)

EndpointChanges(e) ==
    /\ up' = IF e \in up THEN up \ {e} ELSE up \union {e}
    /\ UNCHANGED <<agents, pc, ping>>

-----------------------------------------------------------------------------
(* The monitor                                                             *)

\* Mutant of StartRound: list_alive() in place of list_all().
StartRoundAlive ==
    /\ pc = "sleeping"
    /\ \E i \in Ids : IsRegistered(i)
    /\ pc' = "pinging"
    /\ ping' = [i \in Ids |->
                  IF IsRegistered(i) /\ agents[i].alive
                  THEN [endpoint |-> agents[i].endpoint, answer |-> "pending"]
                  ELSE NoPing]
    /\ UNCHANGED <<agents, up>>

\* The interval is over.  The pings get the endpoints of this moment.  (With
\* nobody registered the task only sleeps again.)
StartRound ==
    /\ pc = "sleeping"
    /\ \E i \in Ids : IsRegistered(i)
    /\ pc' = "pinging"
    /\ ping' = [i \in Ids |->
                  IF IsRegistered(i)
                  THEN [endpoint |-> agents[i].endpoint, answer |-> "pending"]
                  ELSE NoPing]
    /\ UNCHANGED <<agents, up>>

\* Mutant of PingEnds: the exception of a failed ping is taken for its answer.
PingEndsRaising(i) ==
    /\ ping[i].answer = "pending"
    /\ ping' = [ping EXCEPT ![i].answer = IF ping[i].endpoint \in up THEN "alive" ELSE "raised"]
    /\ UNCHANGED <<agents, up, pc>>

\* A ping ends: with the answer 200, or by an error, another status or the
\* timeout, which all count as False.
PingEnds(i) ==
    /\ ping[i].answer = "pending"
    /\ ping' = [ping EXCEPT ![i].answer = IF ping[i].endpoint \in up THEN "alive" ELSE "dead"]
    /\ UNCHANGED <<agents, up, pc>>

\* Mutant of EndRound: it writes back the AgentInfo that the round began with.
EndRoundWriteBack ==
    /\ pc = "pinging"
    /\ \A i \in Ids : ping[i].answer # "pending"
    /\ agents' = [i \in Ids |->
                    IF Pinged(i) THEN [endpoint |-> ping[i].endpoint,
                                       alive |-> ping[i].answer = "alive"]
                    ELSE agents[i]]
    /\ pc' = "sleeping"
    /\ ping' = NoPings
    /\ UNCHANGED <<up>>

\* All have ended.  update_status() looks each id of the round up anew and
\* does nothing for one that is gone.
EndRound ==
    /\ pc = "pinging"
    /\ \A i \in Ids : ping[i].answer # "pending"
    /\ agents' = [i \in Ids |->
                    IF Pinged(i) /\ IsRegistered(i)
                    THEN [agents[i] EXCEPT !.alive = (ping[i].answer = "alive")]
                    ELSE agents[i]]
    /\ pc' = "sleeping"
    /\ ping' = NoPings
    /\ UNCHANGED <<up>>

\* Shutdown cancels the task, in the middle of a round or between two.
Stop ==
    /\ pc # "stopped"
    /\ pc' = "stopped"
    /\ ping' = NoPings
    /\ UNCHANGED <<agents, up>>

-----------------------------------------------------------------------------
Next ==
    \/ \E i \in Ids, e \in Endpoints : RegisterAgent(i, e)
    \/ \E i \in Ids, e \in Endpoints : CompletePairing(i, e)
    \/ \E i \in Ids : DisconnectAgent(i)
    \/ \E e \in Endpoints : EndpointChanges(e)
    \/ StartRound
    \/ \E i \in Ids : PingEnds(i)
    \/ EndRound
    \/ Stop

Spec == Init /\ [][Next]_vars

\* The interval and every ping end, and the event loop resumes the task.
Fairness ==
    /\ WF_vars(StartRound)
    /\ \A i \in Ids : WF_vars(PingEnds(i))
    /\ WF_vars(EndRound)

FairSpec == Spec /\ Fairness

-----------------------------------------------------------------------------
(* Properties                                                              *)

TypeOK ==
    /\ AgentsType
    /\ up \subseteq Endpoints
    /\ pc \in {"sleeping", "pinging", "stopped"}
    /\ ping \in [Ids -> [endpoint : Endpoints \union {None},
                         answer : {"none", "pending", "alive", "dead"}]]

RoundEnds == pc = "pinging" /\ pc' = "sleeping"

\* The monitor reports on registrations and never makes, moves or undoes one,
\* although it has been suspended since it listed them: an agent that was
\* disconnected during the round stays away, one that moved stays where it is.
MonitorKeepsRegistrations ==
    [][RoundEnds =>
         \A i \in Ids : /\ IsRegistered(i) <=> agents'[i] # None
                        /\ IsRegistered(i) => agents'[i].endpoint = agents[i].endpoint]_vars

\* The flag settles on the truth: an agent that stays registered where nobody
\* answers is marked dead (again and again, should it register anew), and one
\* that stays where pings are answered, though it was marked dead, is alive.
StaysAt(i, e) == IsAt(i, e) /\ pc # "stopped"
Marked(i, alive) == IsRegistered(i) /\ agents[i].alive = alive
StatusSettles ==
    \A i \in Ids, e \in Endpoints :
        /\ <>[](StaysAt(i, e) /\ e \notin up) => []<>Marked(i, FALSE)
        /\ <>[](StaysAt(i, e) /\ e \in up) => <>[]Marked(i, TRUE)
=============================================================================
