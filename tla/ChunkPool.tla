------------------------------ MODULE ChunkPool ------------------------------
(***************************************************************************)
(* What the allocator promises: a store of chunks, of which some are       *)
(* reserved and the others are given out one at a time, as long as there   *)
(* is one. It is the view ETree and SnapStore take of the allocator.       *)
(***************************************************************************)
EXTENDS Integers

NONE == -1

VARIABLES size,      \* chunks of the store
          reserved,  \* chunks that are not given out
          owned,     \* chunks given out and not taken back
          found      \* the last answer

poolVars == <<size, reserved, owned, found>>

Store == 0 .. size - 1

PoolInit ==
    /\ size \in Nat
    /\ reserved \subseteq Store
    /\ owned = {}
    /\ found = NONE

\* A chunk that nobody has is given out.
GiveOut ==
    /\ found' \in Store \ (reserved \union owned)
    /\ owned' = owned \union {found'}
    /\ UNCHANGED <<size, reserved>>

\* The answer is no only when every chunk is taken.
RunOut ==
    /\ Store = reserved \union owned
    /\ found' = NONE
    /\ UNCHANGED <<size, reserved, owned>>

TakeBack(c) ==
    /\ owned' = owned \ {c}
    /\ UNCHANGED <<size, reserved, found>>

\* The store gets another size. Nobody loses a chunk.
ChangeSize ==
    /\ size' \in Nat
    /\ reserved' \union owned \subseteq Store'
    /\ reserved' \intersect owned = {}
    /\ UNCHANGED <<owned, found>>

PoolNext ==
    \/ GiveOut
    \/ RunOut
    \/ \E c \in owned : TakeBack(c)
    \/ ChangeSize

PoolSpec == PoolInit /\ [][PoolNext]_poolVars
==============================================================================
