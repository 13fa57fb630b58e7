--------------------------- MODULE MCCercallSystem --------------------------
(***************************************************************************)
(* Model-checking instance of CercallSystem: clients and operations are   *)
(* model values given in the .cfg files; the three sets are symmetric (no *)
(* action distinguishes one client, operation or address from another).   *)
(***************************************************************************)
EXTENDS CercallSystem, TLC

ClientSymmetry == Permutations(Clients) \cup Permutations(Funcs) \cup Permutations(Addrs)
=============================================================================
