----------------------------- MODULE MCPairing -----------------------------
(***************************************************************************)
(* Instances of Pairing for TLC.  Ids, endpoints and codes are             *)
(* interchangeable.                                                        *)
(***************************************************************************)
EXTENDS Pairing, TLC

Symmetry == Permutations(Ids) \union Permutations(Endpoints) \union Permutations(Codes)
=============================================================================
