----------------------------- MODULE MCAllocator -----------------------------
(* TLC instances of the allocator. *)
EXTENDS Allocator
==============================================================================
