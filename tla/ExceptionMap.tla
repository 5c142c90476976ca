---------------------------- MODULE ExceptionMap ----------------------------
(***************************************************************************)
(* What the exception tree promises: a map from the chunks of the volume   *)
(* to their exceptions, each shared by a set of snapshots. It is the view  *)
(* SnapStore takes of the tree.                                            *)
(***************************************************************************)
EXTENDS Integers, FiniteSets

CONSTANTS Chunks, Bit, StoreChunks

ORIGIN == -1

VARIABLES exc,       \* chunk -> its exceptions
          snapmask,  \* bits of the live snapshots
          going      \* bits of the snapshots being released

mapVars == <<exc, snapmask, going>>

Exception == [share: SUBSET Bit, chunk: StoreChunks]

Sharing(es) == UNION {e.share : e \in es}

\* An exception no snapshot shares any more is dropped.
Kept(es, bits) ==
    {e \in {[x EXCEPT !.share = @ \ bits] : x \in es} : e.share # {}}

Added(es, b, new) ==
    IF b = ORIGIN
    THEN es \union {[share |-> snapmask \ Sharing(es), chunk |-> new]}
    ELSE {[e EXCEPT !.share = @ \ {b}] : e \in es}
            \union {[share |-> {b}, chunk |-> new]}

MapInit ==
    /\ exc = [c \in Chunks |-> {}]
    /\ snapmask = {}
    /\ going = {}

\* A snapshot is created: it has no exceptions.
Create(b) ==
    /\ going = {} /\ b \in Bit \ snapmask
    /\ snapmask' = snapmask \union {b}
    /\ UNCHANGED <<exc, going>>

InUse == {e.chunk : e \in UNION {exc[c] : c \in Chunks}}

\* The first write of a chunk since snapshots came to share it: an exception at
\* an unused chunk of the store.
Add(c, b) ==
    /\ going = {}
    /\ UNCHANGED <<snapmask, going>>
    /\ IF b = ORIGIN THEN ~(snapmask \subseteq Sharing(exc[c]))
       ELSE b \in snapmask /\ {b} \notin {e.share : e \in exc[c]}
    /\ DOMAIN exc' = Chunks
    /\ \E new \in {e.chunk : e \in exc'[c]} \ InUse : exc'[c] = Added(exc[c], b, new)
    /\ \A d \in Chunks \ {c} : exc'[d] = exc[d]

\* A release begins, drops the bits from the chunks, some at a time, and ends
\* when no exception has them.
Release(bits) ==
    /\ going = {} /\ bits \subseteq snapmask /\ bits # {}
    /\ going' = bits
    /\ UNCHANGED <<exc, snapmask>>

DropSome ==
    /\ going # {}
    /\ UNCHANGED <<snapmask, going>>
    /\ DOMAIN exc' = Chunks
    /\ \A c \in Chunks : exc'[c] \in {exc[c], Kept(exc[c], going)}

Released ==
    /\ going # {}
    /\ snapmask' = snapmask \ going
    /\ going' = {}
    /\ \A c \in Chunks : Sharing(exc[c]) \intersect going = {}
    /\ UNCHANGED exc

MapNext ==
    \/ \E b \in Bit : Create(b)
    \/ \E c \in Chunks, b \in Bit \union {ORIGIN} : Add(c, b)
    \/ \E bits \in SUBSET Bit : Release(bits)
    \/ DropSome
    \/ Released

MapSpec == MapInit /\ [][MapNext]_mapVars
==============================================================================
