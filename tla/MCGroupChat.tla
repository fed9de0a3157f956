---------------------------- MODULE MCGroupChat ----------------------------
(***************************************************************************)
(* Instances of GroupChat for TLC.  All its sets are interchangeable.      *)
(***************************************************************************)
EXTENDS GroupChat, TLC

Symmetry == Permutations(Sessions) \union Permutations(Agents)
                \union Permutations(Topics) \union Permutations(Messages)
=============================================================================
