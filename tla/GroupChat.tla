----------------------------- MODULE GroupChat -----------------------------
(***************************************************************************)
(* GROUP sessions: topics, messages with @mentions, their delivery to the  *)
(* agents mentioned and the history that agents fetch (group_chat.py,      *)
(* ConversationRouter.route_group_message and the endpoints of api.py).    *)
(* Storing a message is one step of the event loop; the POSTs to the       *)
(* agents mentioned follow one by one, each suspending the handler.        *)
(***************************************************************************)
EXTENDS Integers, Sequences, Functions

CONSTANTS
    Sessions,  \* GROUP sessions
    Agents,    \* agent ids that can be mentioned
    Topics,    \* topics, each with an id of its own
    Messages,  \* messages, each posted once
    Nobody,    \* the session of a message or a topic that does not exist
    MaxTime    \* bound of the model on the clock

ASSUME NobodyAssumption == Nobody \notin Sessions \union Agents \union Topics
ASSUME MaxTimeAssumption == MaxTime \in Nat

VARIABLES
    live,        \* the sessions in SessionManager._sessions
    registered,  \* the agents in the registry
    topicOf,     \* GroupChatManager._topics: topic -> its session, or Nobody
    log,         \* session -> session.messages
    history,     \* session -> GroupChatManager._messages
    thread,      \* topic -> topic.messages
    route,       \* message -> the call that routes it
    inbox,       \* agent -> the messages that reached it
    now,         \* the clock, which may stand still while messages arrive
    reader       \* session -> the agent that polls it: when it fetched last, and
                 \*   the messages it got

vars == <<live, registered, topicOf, log, history, thread, route, inbox, now, reader>>
clock == <<now, reader>>

\* A route is "routing" and then "done"; a message from a WebSocket is only
\* "stored".  session is where the message was posted, targets the agents it
\* mentions, todo those not yet looked at, and to the one whose POST is under
\* way; at is message.timestamp.
NotPosted == [pc |-> "new", session |-> Nobody, targets |-> {}, todo |-> {}, to |-> Nobody, at |-> 0]
Routed(m) == route[m].pc \in {"routing", "done"}

Init ==
    /\ live = Sessions
    /\ registered \in SUBSET Agents
    /\ topicOf = [t \in Topics |-> Nobody]
    /\ log = [s \in Sessions |-> <<>>]
    /\ history = [s \in Sessions |-> <<>>]
    /\ thread = [t \in Topics |-> <<>>]
    /\ route = [m \in Messages |-> NotPosted]
    /\ inbox = [a \in Agents |-> <<>>]
    /\ now = 0
    /\ reader = [s \in Sessions |-> [since |-> 0, got |-> {}]]

-----------------------------------------------------------------------------
(* The world around                                                        *)

RegisterAgent(a) ==
    /\ a \notin registered
    /\ registered' = registered \union {a}
    /\ UNCHANGED <<live, topicOf, log, history, thread, route, inbox, clock>>

DisconnectAgent(a) ==
    /\ a \in registered
    /\ registered' = registered \ {a}
    /\ UNCHANGED <<live, topicOf, log, history, thread, route, inbox, clock>>

\* POST /sessions/{id}/topics.
CreateTopic(s, t) ==
    /\ s \in live /\ topicOf[t] = Nobody
    /\ topicOf' = [topicOf EXCEPT ![t] = s]
    /\ UNCHANGED <<live, registered, log, history, thread, route, inbox, clock>>

\* Mutant of Delete: the history goes with the session.
DeleteHistory(s) ==
    /\ s \in live
    /\ live' = live \ {s}
    /\ history' = [history EXCEPT ![s] = <<>>]
    /\ UNCHANGED <<registered, topicOf, log, thread, route, inbox, clock>>

\* DELETE /sessions/{id} drops the SessionState (whose last messages stay in
\* log, for the properties); topics and history remain.
Delete(s) ==
    /\ s \in live
    /\ live' = live \ {s}
    /\ UNCHANGED <<registered, topicOf, log, history, thread, route, inbox, clock>>

-----------------------------------------------------------------------------
(* Routing                                                                 *)

\* The handler takes the targets in an arbitrary order.  It skips those that
\* are not registered when their turn comes and suspends on the POST to one
\* that is; after the last it returns the targets.
Proceed(m, r) ==
    \/ /\ r.todo \intersect registered = {}
       /\ route' = [route EXCEPT ![m] = [r EXCEPT !.pc = "done", !.todo = {}, !.to = Nobody]]
    \/ \E a \in r.todo \intersect registered, skipped \in SUBSET (r.todo \ registered) :
        route' = [route EXCEPT ![m] =
            [r EXCEPT !.pc = "routing", !.todo = @ \ ({a} \union skipped), !.to = a]]

\* Mutant of Post: the newest message comes first in the history.
PostFirst(m, s, mentions, t) ==
    /\ s \in live /\ route[m].pc = "new"
    /\ log' = [log EXCEPT ![s] = Append(@, m)]
    /\ history' = [history EXCEPT ![s] = <<m>> \o @]
    /\ thread' = IF t # Nobody /\ topicOf[t] # Nobody
                 THEN [thread EXCEPT ![t] = Append(@, m)] ELSE thread
    /\ Proceed(m, [NotPosted EXCEPT !.session = s, !.targets = mentions, !.todo = mentions,
                                !.at = now])
    /\ UNCHANGED <<live, registered, topicOf, inbox, clock>>

\* POST /message: the message joins the session, the group's history and the
\* topic that its metadata names (Nobody: none), in whatever session that
\* topic is.  Unknown topics are ignored.
Post(m, s, mentions, t) ==
    /\ s \in live /\ route[m].pc = "new"
    /\ log' = [log EXCEPT ![s] = Append(@, m)]
    /\ history' = [history EXCEPT ![s] = Append(@, m)]
    /\ thread' = IF t # Nobody /\ topicOf[t] # Nobody
                 THEN [thread EXCEPT ![t] = Append(@, m)] ELSE thread
    /\ Proceed(m, [NotPosted EXCEPT !.session = s, !.targets = mentions, !.todo = mentions,
                                !.at = now])
    /\ UNCHANGED <<live, registered, topicOf, inbox, clock>>

\* A message from the session's WebSocket is stored there, and not routed: it
\* never joins the history.
PostViaSocket(m, s) ==
    /\ s \in live /\ route[m].pc = "new"
    /\ log' = [log EXCEPT ![s] = Append(@, m)]
    /\ route' = [route EXCEPT ![m] = [NotPosted EXCEPT !.pc = "stored", !.session = s, !.at = now]]
    /\ UNCHANGED <<live, registered, topicOf, history, thread, inbox, clock>>

\* Mutant of Push: the recipient and the message change places.
PushSwapped(m, reached) ==
    /\ route[m].pc = "routing"
    /\ inbox' = IF reached THEN [inbox EXCEPT ![route[m].to] = Append(@, route[m].to)] ELSE inbox
    /\ Proceed(m, route[m])
    /\ UNCHANGED <<live, registered, topicOf, log, history, thread, clock>>

\* The POST to an agent ends: the agent got the message, or not.  A failure
\* is logged and the handler goes on.
Push(m, reached) ==
    /\ route[m].pc = "routing"
    /\ inbox' = IF reached THEN [inbox EXCEPT ![route[m].to] = Append(@, m)] ELSE inbox
    /\ Proceed(m, route[m])
    /\ UNCHANGED <<live, registered, topicOf, log, history, thread, clock>>

-----------------------------------------------------------------------------
(* Polling                                                                 *)

Tick ==
    /\ now < MaxTime
    /\ now' = now + 1
    /\ UNCHANGED <<live, registered, topicOf, log, history, thread, route, inbox, reader>>

\* Mutant of Since: a message of the very moment is left out.
SinceStrictly(s, t) == {m \in Range(history[s]) : route[m].at > t}

Since(s, t) == {m \in Range(history[s]) : route[m].at >= t}

\* POST /fetch-messages, also of a deleted session, with the moment of the
\* last fetch.
Fetch(s) ==
    /\ reader' = [reader EXCEPT ![s] = [since |-> now, got |-> @.got \union Since(s, @.since)]]
    /\ UNCHANGED <<live, registered, topicOf, log, history, thread, route, inbox, now>>

-----------------------------------------------------------------------------
Next ==
    \/ Tick
    \/ \E s \in Sessions : Fetch(s)
    \/ \E a \in Agents : RegisterAgent(a)
    \/ \E a \in Agents : DisconnectAgent(a)
    \/ \E s \in Sessions, t \in Topics : CreateTopic(s, t)
    \/ \E s \in Sessions : Delete(s)
    \/ \E m \in Messages, s \in Sessions, mentions \in SUBSET Agents, t \in Topics \union {Nobody} :
        Post(m, s, mentions, t)
    \/ \E m \in Messages, s \in Sessions : PostViaSocket(m, s)
    \/ \E m \in Messages, reached \in BOOLEAN : Push(m, reached)

Spec == Init /\ [][Next]_vars

-----------------------------------------------------------------------------
(* Properties                                                              *)

RouteStates ==
    [pc : {"new", "routing", "done", "stored"}, session : Sessions \union {Nobody},
     targets : SUBSET Agents, todo : SUBSET Agents, to : Agents \union {Nobody},
     at : 0 .. MaxTime]

TypeOK ==
    /\ live \subseteq Sessions
    /\ registered \subseteq Agents
    /\ topicOf \in [Topics -> Sessions \union {Nobody}]
    /\ log \in [Sessions -> Seq(Messages)]
    /\ history \in [Sessions -> Seq(Messages)]
    /\ thread \in [Topics -> Seq(Messages)]
    /\ route \in [Messages -> RouteStates]
    /\ inbox \in [Agents -> Seq(Messages)]
    /\ now \in 0 .. MaxTime
    /\ reader \in [Sessions -> [since : 0 .. MaxTime, got : SUBSET Messages]]

\* An agent is pushed a message only if it mentions the agent, and only once,
\* although calls that route several messages are under way together; and the
\* agent can look it up, even when the session was deleted in between.
PushesAreBacked ==
    \A a \in Agents :
        /\ IsInjective(inbox[a])
        /\ \A m \in Range(inbox[a]) :
            a \in route[m].targets /\ m \in Range(history[route[m].session])

\* An agent that keeps asking for what came since its last fetch has got every
\* message that was posted over HTTP before that fetch, although messages
\* arrive in the very moment of one.  (Those of a WebSocket it never gets,
\* while group_chat.py:104-106 speaks of "ALL messages in the group".)
PollingGetsPosted ==
    \A m \in Messages :
        Routed(m) /\ route[m].at < reader[route[m].session].since =>
            m \in reader[route[m].session].got

\* m comes before k in q.
Before(q, m, k) == \E i, j \in DOMAIN q : i < j /\ q[i] = m /\ q[j] = k

\* The messages of S that q has are in p as well, and in the same order.
Retells(q, p, S) ==
    \A i \in DOMAIN q : q[i] \in S =>
        /\ q[i] \in Range(p)
        /\ \A j \in DOMAIN q : i < j /\ q[j] \in S => Before(p, q[i], q[j])

\* A session has each message once; its history and the topics tell its
\* messages once each and in the session's order, and what a topic shows is in
\* the history of the session it came from.
HistoryInOrder ==
    \A s \in Sessions :
        /\ IsInjective(log[s])
        /\ Retells(history[s], log[s], Messages)
        /\ \A t \in Topics :
            Retells(thread[t], history[s], {m \in Messages : route[m].session = s})
=============================================================================
