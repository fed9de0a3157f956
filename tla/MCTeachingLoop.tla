--------------------------- MODULE MCTeachingLoop ---------------------------
(***************************************************************************)
(* Instances of TeachingLoop for TLC.  Loops are interchangeable, and so   *)
(* are the messages of users and those of agents.                          *)
(***************************************************************************)
EXTENDS TeachingLoop, TLC

Symmetry == Permutations(Loops) \union Permutations(UserMessages)
                \union Permutations(Messages \ UserMessages)
=============================================================================
