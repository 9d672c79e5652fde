-------------------------- MODULE MCVirtualDispute --------------------------
(***************************************************************************)
(* Instances of VirtualDispute for TLC.  Clients and parents are alike, so *)
(* states that differ only in their names are checked once.                *)
(***************************************************************************)
EXTENDS VirtualDispute, TLC

Symmetry == Permutations(Caller) \cup Permutations(Parent)
=============================================================================
