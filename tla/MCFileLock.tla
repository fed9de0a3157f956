----------------------------- MODULE MCFileLock -----------------------------
(***************************************************************************)
(* Instances of FileLock for TLC.  The manager never compares agents,      *)
(* paths or calls other than for equality, so each set is symmetric.       *)
(***************************************************************************)
EXTENDS FileLock, TLC

Symmetry == Permutations(Agents) \union Permutations(Paths) \union Permutations(Calls)
=============================================================================
