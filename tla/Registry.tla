------------------------------ MODULE Registry ------------------------------
(***************************************************************************)
(* AgentRegistry (clawlink_router/agents.py): a dictionary from agent ids  *)
(* to what is known of the agent.  Its methods do not await; they are      *)
(* building blocks for the actions of the modules that extend this one.    *)
(***************************************************************************)
CONSTANTS
    Ids,        \* agent ids
    Endpoints,  \* the addresses that agents register
    None        \* an id that is not registered

AgentInfo == [endpoint : Endpoints, alive : BOOLEAN]

ASSUME NoneIsNoValue == None \notin Endpoints \union AgentInfo

VARIABLE agents  \* _agents: id -> AgentInfo, or None

IsRegistered(i) == agents[i] # None
IsAt(i, e) == IsRegistered(i) /\ agents[i].endpoint = e

\* A newly created AgentInfo; is_alive defaults to True.
Fresh(e) == [endpoint |-> e, alive |-> TRUE]

\* POST /agents/register.
Upsert(i, e) == agents' = [agents EXCEPT ![i] = Fresh(e)]

\* The end of POST /pair/complete: an id that is taken stays as it is.
Register(i, e) ==
    agents' = IF IsRegistered(i) THEN agents ELSE [agents EXCEPT ![i] = Fresh(e)]

\* DELETE /agents/{id}.
Unregister(i) ==
    /\ IsRegistered(i)
    /\ agents' = [agents EXCEPT ![i] = None]

AgentsType == agents \in [Ids -> AgentInfo \union {None}]
=============================================================================
