---------------------------- MODULE MCSnapLocks ------------------------------
(* TLC instances of the lock server: all chunks fall into one bucket. *)
EXTENDS SnapLocks

OneBucket == [c \in Chunks |-> 0]
==============================================================================
