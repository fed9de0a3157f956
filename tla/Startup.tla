------------------------------ MODULE Startup ------------------------------
(***************************************************************************)
(* run.py: starting the router on a port that may be taken.  A start finds *)
(* the port open, asks the router there for its health, asks the user      *)
(* whether to restart it, looks for the process that listens, stops it and *)
(* binds the port.  Between any two of these, other starts and other       *)
(* programs take and leave the port.                                       *)
(***************************************************************************)
CONSTANTS
    Starters,  \* processes that run main()
    Other,     \* a process of another origin
    None       \* no process

ASSUME OtherAssumption == Other \notin Starters /\ None \notin Starters \union {Other}

VARIABLES
    windows,   \* os.name is "nt"
    healthy,   \* the other process answers /health like a router
    listener,  \* the process that listens on the port, or None
    pc,        \* where main() is in each start
    again,     \* the starts whose bind raised error 10048, to exec themselves
    victim,    \* start -> the process it found listening
    held       \* start -> who listened since its user said yes (history)

vars == <<windows, healthy, listener, pc, again, victim, held>>

Init ==
    /\ windows \in BOOLEAN /\ healthy \in BOOLEAN
    /\ listener \in {None, Other}
    /\ pc = [s \in Starters |-> "probe"]
    /\ again = {}
    /\ victim = [s \in Starters |-> None]
    /\ held = [s \in Starters |-> {}]

\* The port changes hands, which the history of each start takes down.
Listens(p) ==
    /\ listener' = p
    /\ held' = [s \in Starters |-> IF pc[s] \in {"lookup", "terminate"} THEN held[s] \union {p}
                                   ELSE held[s]]
Goes(s, where) == pc' = [pc EXCEPT ![s] = where]

-----------------------------------------------------------------------------
(* main()                                                                  *)

\* _is_port_open().
Probe(s) ==
    /\ pc[s] = "probe"
    /\ Goes(s, IF listener = None THEN "bind" ELSE "check")
    /\ UNCHANGED <<windows, healthy, listener, again, victim, held>>

\* _check_existing_router(): any answer but that of a healthy router within
\* the time-out, and no answer at all, ends the start.
Check(s) ==
    /\ pc[s] = "check"
    /\ \/ Goes(s, "exited")
       \/ listener \in Starters \union (IF healthy THEN {Other} ELSE {}) /\ Goes(s, "ask")
    /\ UNCHANGED <<windows, healthy, listener, again, victim, held>>

\* Mutant of Answer: the process is looked up before the question is put.
AnswerAboutSeen(s) ==
    /\ pc[s] = "ask"
    /\ \/ Goes(s, "exited") /\ UNCHANGED <<victim, held>>
       \/ /\ victim[s] # None
          /\ Goes(s, "terminate")
          /\ held' = [held EXCEPT ![s] = {listener}]
          /\ UNCHANGED victim
       \/ /\ victim[s] = None
          /\ victim' = [victim EXCEPT ![s] = listener]
          /\ UNCHANGED <<pc, held>>
    /\ UNCHANGED <<windows, healthy, listener, again>>

\* The user says yes, or anything else (or the terminal is at its end).
Answer(s) ==
    /\ pc[s] = "ask"
    /\ \/ Goes(s, "exited") /\ UNCHANGED held
       \/ Goes(s, "lookup") /\ held' = [held EXCEPT ![s] = {listener}]
    /\ UNCHANGED <<windows, healthy, listener, again, victim>>

\* _find_listener_pid(), which also fails when netstat or lsof does.
Lookup(s) ==
    /\ pc[s] = "lookup"
    /\ \/ Goes(s, "exited") /\ UNCHANGED victim
       \/ /\ listener # None
          /\ victim' = [victim EXCEPT ![s] = listener]
          /\ Goes(s, "terminate")
    /\ UNCHANGED <<windows, healthy, listener, again, held>>

\* _terminate_process() may fail.  taskkill ends a process and frees its port;
\* SIGTERM asks it to stop, which it does in its own time (ListenerEnds).  One
\* that no longer listens may still be there.  A start whose bind had failed
\* begins anew, the others bind.
Terminate(s) ==
    LET next == IF s \in again THEN "probe" ELSE "bind"
    IN  /\ pc[s] = "terminate"
        /\ \/ Goes(s, "exited") /\ UNCHANGED <<listener, held, again>>
           \/ /\ windows /\ victim[s] = listener
              /\ Listens(None)
              /\ pc' = [t \in Starters |-> IF t = s THEN next
                                           ELSE IF t = listener THEN "exited" ELSE pc[t]]
              /\ again' = again \ {s}
           \/ /\ ~windows \/ victim[s] # listener
              /\ Goes(s, next)
              /\ again' = again \ {s}
              /\ UNCHANGED <<listener, held>>
        /\ UNCHANGED <<windows, healthy, victim>>

\* Mutant of BindFails: the bind is tried again and again.
BindFailsRetrying(s) ==
    /\ pc[s] = "bind" /\ listener # None
    /\ UNCHANGED vars

\* uvicorn exits when it cannot bind, or lets error 10048 through, on which
\* main() handles the taken port once more.
BindFails(s) ==
    /\ pc[s] = "bind" /\ listener # None
    /\ \/ Goes(s, "exited") /\ UNCHANGED again
       \/ windows /\ Goes(s, "check") /\ again' = again \union {s}
    /\ UNCHANGED <<windows, healthy, listener, victim, held>>

\* Mutant of Serve: the socket is bound although the port is taken.
ServeAnyway(s) ==
    /\ pc[s] = "bind"
    /\ Listens(s)
    /\ Goes(s, "serving")
    /\ UNCHANGED <<windows, healthy, again, victim>>

Serve(s) ==
    /\ pc[s] = "bind" /\ listener = None
    /\ Listens(s)
    /\ Goes(s, "serving")
    /\ UNCHANGED <<windows, healthy, again, victim>>

-----------------------------------------------------------------------------
(* The listening process                                                   *)

\* It ends, by itself or because of the signal.
ListenerEnds ==
    /\ listener # None
    /\ Listens(None)
    /\ pc' = [s \in Starters |-> IF s = listener THEN "exited" ELSE pc[s]]
    /\ UNCHANGED <<windows, healthy, again, victim>>

OtherListens ==
    /\ listener = None
    /\ Listens(Other)
    /\ UNCHANGED <<windows, healthy, pc, again, victim>>

StartStep(s) == Probe(s) \/ Check(s) \/ Lookup(s) \/ Terminate(s) \/ BindFails(s) \/ Serve(s)

Next ==
    \/ \E s \in Starters : StartStep(s)
    \/ \E s \in Starters : Answer(s)
    \/ ListenerEnds
    \/ OtherListens

Spec == Init /\ [][Next]_vars

\* Steps that the start itself bounds: the probe has a time-out, the bind and
\* SIGTERM are calls that return.  The others wait for somebody else without
\* a bound: the question for the user, the check for the last byte of a
\* health answer, the look-up for netstat or lsof, and a stop on Windows for
\* taskkill.
OwnStep(s) == Probe(s) \/ (~windows /\ Terminate(s)) \/ BindFails(s) \/ Serve(s)
WaitsForOthers(s) == pc[s] \in {"check", "lookup"} \/ (windows /\ pc[s] = "terminate")

FairSpec == Spec /\ \A s \in Starters : WF_vars(OwnStep(s))

-----------------------------------------------------------------------------
(* Properties                                                              *)

Stages == {"probe", "check", "ask", "lookup", "terminate", "bind", "serving", "exited"}
TypeOK ==
    /\ windows \in BOOLEAN /\ healthy \in BOOLEAN
    /\ listener \in Starters \union {Other, None}
    /\ pc \in [Starters -> Stages] /\ again \subseteq Starters
    /\ victim \in [Starters -> Starters \union {Other, None}]
    /\ held \in [Starters -> SUBSET (Starters \union {Other, None})]
    /\ \A s \in Starters : pc[s] = "serving" <=> listener = s

\* A start stops only a process that listened on the port at some moment after
\* its user agreed: not one that had left the port before, however long the
\* question stood.  That it is still listening, and which program it is,
\* nobody looks at.
OnlyListenersStopped ==
    [][\A s \in Starters : pc[s] = "terminate" /\ pc'[s] \in {"bind", "probe"} =>
            victim[s] \in held[s]]_vars

\* A start that no other program keeps waiting for ever comes to serve, to end
\* or to ask its user, whatever else takes the port in the meantime: it never
\* circles from one failed bind to the next.
StartSettles ==
    \A s \in Starters :
        []<>~WaitsForOthers(s) => []<>(pc[s] \in {"ask", "serving", "exited"})
=============================================================================
