------------------------------ MODULE FifoLock ------------------------------
(***************************************************************************)
(* What FileLockManager promises to its clients: every path has one line   *)
(* of agents; the first in line holds the lock, the others wait in the     *)
(* order in which they asked, and nobody stands in the same line twice.    *)
(* Losing the lock, for whatever reason, hands it to the next in line in   *)
(* the same step.                                                          *)
(***************************************************************************)
EXTENDS Sequences, Functions

CONSTANTS Agents, Paths

VARIABLE line

Init == line = [p \in Paths |-> <<>>]

Join(a, p) ==
    /\ a \notin Range(line[p])
    /\ line' = [line EXCEPT ![p] = Append(@, a)]

\* The holders of all the paths in P lose their locks together.
Leave(P) ==
    /\ \A p \in P : line[p] # <<>>
    /\ line' = [p \in Paths |-> IF p \in P THEN Tail(line[p]) ELSE line[p]]

Next ==
    \/ \E a \in Agents, p \in Paths : Join(a, p)
    \/ \E P \in SUBSET Paths : Leave(P)

Spec == Init /\ [][Next]_line
=============================================================================
