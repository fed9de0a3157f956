------------------------------ MODULE Mailbox ------------------------------
(***************************************************************************)
(* What ClawLink Router promises for the messages that clients post to a   *)
(* session: an accepted message is kept in the session, or it waits; what  *)
(* waits is kept, dropped or taken out for delivery as a whole; a message  *)
(* taken out is tried on the agents, each of which gets it at most once,   *)
(* and is then settled.  Nothing that is kept or settled ever comes back.  *)
(***************************************************************************)
EXTENDS Sequences, Functions

CONSTANTS Messages, Agents

VARIABLES
    accepted,  \* the messages accepted so far
    pending,   \* those that wait, in order
    kept,      \* those in the session, in order
    out,       \* those being delivered
    inbox      \* agent -> what reached it, in order

boxVars == <<accepted, pending, kept, out, inbox>>

Init ==
    /\ accepted = {}
    /\ pending = <<>> /\ kept = <<>>
    /\ out = {}
    /\ inbox = [a \in Agents |-> <<>>]

Accept(m) ==
    /\ m \notin accepted
    /\ accepted' = accepted \union {m}
    /\ \/ pending' = Append(pending, m) /\ UNCHANGED kept
       \/ kept' = Append(kept, m) /\ UNCHANGED pending
    /\ UNCHANGED <<out, inbox>>

KeepAll ==
    /\ kept' = kept \o pending
    /\ pending' = <<>>
    /\ UNCHANGED <<accepted, out, inbox>>

DropAll == pending' = <<>> /\ UNCHANGED <<accepted, kept, out, inbox>>

TakeOut ==
    /\ out' = out \union Range(pending)
    /\ pending' = <<>>
    /\ UNCHANGED <<accepted, kept, inbox>>

\* A delivery to one agent ends; it may have reached the agent, and it may
\* have been the last of the message.
Try(m, a, reached, last) ==
    /\ m \in out
    /\ reached => m \notin Range(inbox[a])
    /\ inbox' = IF reached THEN [inbox EXCEPT ![a] = Append(@, m)] ELSE inbox
    /\ out' = IF last THEN out \ {m} ELSE out
    /\ UNCHANGED <<accepted, pending, kept>>

Next ==
    \/ \E m \in Messages : Accept(m)
    \/ KeepAll
    \/ DropAll
    \/ TakeOut
    \/ \E m \in Messages, a \in Agents, reached, last \in BOOLEAN : Try(m, a, reached, last)

Spec == Init /\ [][Next]_boxVars
=============================================================================
