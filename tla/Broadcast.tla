----------------------------- MODULE Broadcast -----------------------------
(***************************************************************************)
(* The WebSocket subscribers of one session and the events pushed to them  *)
(* (_ws_broadcast and websocket_endpoint of clawlink_router/api.py).  A    *)
(* broadcast iterates over the subscriber list itself, not a copy of it,   *)
(* and awaits each send: while it is suspended, clients join and leave the *)
(* list.  A Python list iterator is an index into the list, so a removal   *)
(* shifts the rest of the list under it.                                   *)
(***************************************************************************)
EXTENDS Integers, Sequences, Functions, FiniteSets

CONSTANTS
    Sockets,  \* WebSocket connections to the session, each made once
    NumCasts, \* the number of calls of _ws_broadcast
    Http      \* the owner of a broadcast that no WebSocket handler awaits

ASSUME HttpAssumption == Http \notin Sockets
ASSUME NumCastsAssumption == NumCasts \in Nat

VARIABLES
    sockets,  \* _ws_connections of the session, in order of arrival
    peer,     \* "new", "open", "closed" by the client, or its handler "ended"
    cast,     \* the broadcasts, in the order of the events that they tell
    sent      \* socket -> the broadcasts whose send to it ended, in order

vars == <<sockets, peer, cast, sent>>

Casts == 1 .. NumCasts

NotStarted == [pc |-> "idle", owner |-> Http, index |-> 0, to |-> Http,
               dead |-> <<>>, audience |-> {}, departed |-> 0]

Init ==
    /\ sockets = <<>>
    /\ peer = [s \in Sockets |-> "new"]
    /\ cast = [b \in Casts |-> NotStarted]
    /\ sent = [s \in Sockets |-> <<>>]

Sending(b) == cast[b].pc = "sending"

\* The handler of a connection awaits the broadcast of a message it received.
Busy(s) == \E b \in Casts : Sending(b) /\ cast[b].owner = s

\* list.remove() of the members of S.  Broadcasts that are under way count
\* the departures (for the properties; the code keeps no such number).
Without(S) ==
    LET kept[n \in 0 .. Len(sockets)] ==
            IF n = 0 THEN <<>>
            ELSE IF sockets[n] \in S THEN kept[n - 1] ELSE Append(kept[n - 1], sockets[n])
    IN  kept[Len(sockets)]
CountDepartures(S) ==
    [c \in Casts |->
        IF Sending(c) THEN [cast[c] EXCEPT !.departed = @ + Cardinality(S \intersect Range(sockets))]
        ELSE cast[c]]

-----------------------------------------------------------------------------
(* Connections                                                             *)

\* Mutant of Connect: the newest connection comes first.
ConnectFirst(s) ==
    /\ peer[s] = "new"
    /\ peer' = [peer EXCEPT ![s] = "open"]
    /\ sockets' = <<s>> \o sockets
    /\ UNCHANGED <<cast, sent>>

Connect(s) ==
    /\ peer[s] = "new"
    /\ peer' = [peer EXCEPT ![s] = "open"]
    /\ sockets' = Append(sockets, s)
    /\ UNCHANGED <<cast, sent>>

\* The client goes away; nothing in the router notices yet.
Close(s) ==
    /\ peer[s] = "open"
    /\ peer' = [peer EXCEPT ![s] = "closed"]
    /\ UNCHANGED <<sockets, cast, sent>>

\* Mutant of HandlerEnds: there is no finally clause.
HandlerEndsSubscribed(s) ==
    /\ peer[s] \in {"open", "closed"} /\ ~Busy(s)
    /\ peer' = [peer EXCEPT ![s] = "ended"]
    /\ UNCHANGED <<sockets, cast, sent>>

\* receive_json() raises, because the client is gone or sent no JSON, or what
\* an open client sent makes no Message; the finally clause unsubscribes the
\* socket.
HandlerEnds(s) ==
    /\ peer[s] \in {"open", "closed"} /\ ~Busy(s)
    /\ peer' = [peer EXCEPT ![s] = "ended"]
    /\ sockets' = Without({s})
    /\ cast' = CountDepartures({s})
    /\ UNCHANGED sent

-----------------------------------------------------------------------------
(* Broadcasts                                                              *)

\* Mutant of Owners: a handler does not await its broadcasts.
OwnersDetached == {Http} \union {s \in Sockets : peer[s] \in {"open", "closed"}}

\* An HTTP handler or a teaching task broadcasts, or the idle handler of a
\* connection that received a message.
Owners == {Http} \union {s \in Sockets : peer[s] \in {"open", "closed"} /\ ~Busy(s)}

\* Mutant of Start: the case of no subscriber is forgotten.
StartAnyway(b, owner) ==
    /\ cast[b].pc = "idle" /\ \A c \in 1 .. b - 1 : cast[c].pc # "idle"
    /\ cast' = [cast EXCEPT ![b] = [NotStarted EXCEPT
            !.pc = "sending", !.owner = owner, !.index = 1,
            !.to = IF sockets = <<>> THEN Http ELSE Head(sockets),
            !.audience = Range(sockets)]]
    /\ UNCHANGED <<sockets, peer, sent>>

Start(b, owner) ==
    /\ cast[b].pc = "idle" /\ \A c \in 1 .. b - 1 : cast[c].pc # "idle"
    /\ cast' = [cast EXCEPT ![b] = [NotStarted EXCEPT
            !.pc = IF sockets = <<>> THEN "done" ELSE "sending",
            !.owner = owner,
            !.index = 1,
            !.to = IF sockets = <<>> THEN Http ELSE Head(sockets),
            !.audience = Range(sockets)]]
    /\ UNCHANGED <<sockets, peer, sent>>

\* The removal of the sockets whose send raised, up to the first one that
\* somebody else has removed in the meantime: list.remove() raises ValueError.
Removable(dead) == {dead[i] : i \in {i \in DOMAIN dead :
                                \A j \in 1 .. i : dead[j] \in Range(sockets)}}
Raises(dead) == \E i \in DOMAIN dead : dead[i] \notin Range(sockets)

\* The error passes through the broadcast into the code that awaits it: a
\* WebSocket handler ends on it, although its own client is still there.
Finish(b, r) ==
    LET fails == Raises(r.dead)
        ended == IF fails THEN {r.owner} \ {Http} ELSE {}
        gone  == Removable(r.dead) \union ended
    IN  /\ sockets' = Without(gone)
        /\ peer' = [s \in Sockets |-> IF s \in ended THEN "ended" ELSE peer[s]]
        /\ cast' = [CountDepartures(gone) EXCEPT
                ![b] = [r EXCEPT !.pc = IF fails THEN "raised" ELSE "done"]]

\* Mutant of Send: the iteration ends one element early.
SendAllButLast(b, raised) ==
    LET c == cast[b]
        r == [c EXCEPT !.dead = IF raised THEN Append(@, c.to) ELSE @]
    IN  /\ Sending(b)
        /\ raised => peer[c.to] \in {"closed", "ended"}
        /\ sent' = [sent EXCEPT ![c.to] = Append(@, b)]
        /\ \/ /\ c.index + 1 < Len(sockets)
              /\ cast' = [cast EXCEPT ![b] =
                    [r EXCEPT !.index = @ + 1, !.to = sockets[c.index + 1]]]
              /\ UNCHANGED <<sockets, peer>>
           \/ /\ c.index + 1 >= Len(sockets)
              /\ Finish(b, r)

\* A send ends and the iterator moves on to the next index, whatever is there
\* now.  Sending to a client that is gone raises or is silently dropped.
Send(b, raised) ==
    LET c == cast[b]
        r == [c EXCEPT !.dead = IF raised THEN Append(@, c.to) ELSE @]
    IN  /\ Sending(b)
        /\ raised => peer[c.to] \in {"closed", "ended"}
        /\ sent' = [sent EXCEPT ![c.to] = Append(@, b)]
        /\ \/ /\ c.index < Len(sockets)
              /\ cast' = [cast EXCEPT ![b] =
                    [r EXCEPT !.index = @ + 1, !.to = sockets[c.index + 1]]]
              /\ UNCHANGED <<sockets, peer>>
           \/ /\ c.index >= Len(sockets)
              /\ Finish(b, r)

-----------------------------------------------------------------------------
Next ==
    \/ \E s \in Sockets : Connect(s)
    \/ \E s \in Sockets : Close(s)
    \/ \E s \in Sockets : HandlerEnds(s)
    \/ \E b \in Casts : \E owner \in Owners : Start(b, owner)
    \/ \E b \in Casts, raised \in BOOLEAN : Send(b, raised)

Spec == Init /\ [][Next]_vars

-----------------------------------------------------------------------------
(* Properties                                                              *)

CastStates ==
    [pc : {"idle", "sending", "done", "raised"},
     owner : Sockets \union {Http}, index : Nat, to : Sockets \union {Http},
     dead : Seq(Sockets), audience : SUBSET Sockets, departed : Nat]

TypeOK ==
    /\ sockets \in Seq(Sockets)
    /\ peer \in [Sockets -> {"new", "open", "closed", "ended"}]
    /\ cast \in [Casts -> CastStates]
    /\ \A b \in Casts : Sending(b) => cast[b].to \in Sockets
    /\ sent \in [Sockets -> Seq(Casts)]

Finished(b) == cast[b].pc \in {"done", "raised"}

\* Every connection that is up is subscribed once, and one whose handler has
\* ended is not subscribed, whoever removed it.  (A closed connection may have
\* been removed by a broadcast before its handler notices.)
SubscribersAreConnected ==
    /\ IsInjective(sockets)
    /\ \A s \in Sockets :
        /\ peer[s] = "open" => s \in Range(sockets)
        /\ peer[s] \in {"new", "ended"} => s \notin Range(sockets)

\* However the list shifts under the iterator, no client gets an event twice.
NoEventTwice == \A s \in Sockets : IsInjective(sent[s])

\* Broadcasts of different handlers overtake each other on the way to a client,
\* but what the messages of one client cause is told in their order.
EventsInSendersOrder ==
    \A s \in Sockets : \A i, j \in DOMAIN sent[s] :
        LET b == sent[s][i]
            c == sent[s][j]
        IN  i < j /\ cast[b].owner = cast[c].owner /\ cast[b].owner # Http => b < c

\* Each client that leaves during a broadcast hides the event from at most
\* one of those subscribed when it began, itself or another one.
MissedAtMostDepartures ==
    \A b \in Casts :
        Finished(b) => Cardinality({s \in cast[b].audience : b \notin Range(sent[s])})
                            <= cast[b].departed

\* api.py:648: a connection gets "Real-time updates for a session": while its
\* handler tells the others what its open client sent, nothing ends it.
OpenPeersKeepUpdates ==
    [][\A s \in Sockets : Busy(s) /\ peer[s] = "open" => peer'[s] # "ended"]_vars
=============================================================================
