----------------------------- MODULE MCSnapTable -----------------------------
(* TLC instance of the snapshot table. *)
EXTENDS SnapTable, TLC

Symmetry == Permutations(Clients)
==============================================================================
