---------------------------- MODULE MCBroadcast ----------------------------
(***************************************************************************)
(* Instances of Broadcast for TLC.  Connections are interchangeable.       *)
(***************************************************************************)
EXTENDS Broadcast, TLC

Symmetry == Permutations(Sockets)
=============================================================================
