---------------------------- MODULE MCSnapStore -----------------------------
(* TLC instances of the snapshot store; one configuration per question. *)
EXTENDS SnapStore, TLC

Symmetry == Permutations(Data) \union Permutations(Tags) \union Permutations(Chunks)
==============================================================================
