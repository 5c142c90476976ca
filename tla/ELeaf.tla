------------------------------- MODULE ELeaf --------------------------------
(***************************************************************************)
(* The leaf of the exception tree: a directory that grows up from the      *)
(* header, and exceptions that grow down from the end of the block. Each   *)
(* directory entry has the offset of the first exception of its chunk; a   *)
(* sentinel entry has the end of the block.                                *)
(*                                                                         *)
(* Sizes and offsets are in units of a directory entry (8 bytes), counted  *)
(* from the end of the header; an exception takes two. The exceptions are  *)
(* kept as the sequence that ends where the block ends, so an offset that  *)
(* went wrong shows as a wrong position in it.                             *)
(***************************************************************************)
EXTENDS Integers, Sequences, FiniteSets, SequencesExt, FiniteSetsExt

CONSTANTS Chunks,    \* chunks of the volume
          Bit,       \* internal numbers of snapshots: bits of a share mask
          LeafSize   \* units of a leaf behind its header

\* A chunk with an exception for every snapshot and one more chunk fit.
ASSUME LeafAssumption ==
    /\ Chunks \subseteq Nat
    /\ IsFiniteSet(Bit)
    /\ LeafSize \in Nat
    /\ LeafSize >= (1 + 2 * Cardinality(Bit)) + 3 + 1

ORIGIN == -1   \* the snapshot bit of a request to the origin
ENTRY == 1     \* sizeof(struct etree_map)
EXC == 2       \* sizeof(struct exception)

EmptyLeaf == [map |-> <<[offset |-> LeafSize, rchunk |-> 0]>>, area |-> <<>>]

\* leaf->count
Count(leaf) == Len(leaf.map) - 1

\* emap: where in the area the exceptions of entry i begin.
EMap(leaf, i) == Len(leaf.area) + 1 - (LeafSize - leaf.map[i].offset) \div EXC

ExceptionsOf(leaf, i) == SubSeq(leaf.area, EMap(leaf, i), EMap(leaf, i + 1) - 1)

Freespace(leaf) == leaf.map[1].offset - ENTRY * (Count(leaf) + 1)

Payload(leaf) ==
    ENTRY * Count(leaf) + leaf.map[Count(leaf) + 1].offset - leaf.map[1].offset

Rchunks(leaf) == {leaf.map[i].rchunk : i \in 1 .. Count(leaf)}

EntryOf(leaf, c) == CHOOSE i \in 1 .. Count(leaf) : leaf.map[i].rchunk = c

\* The exceptions of a chunk, as a set.
Found(leaf, c) ==
    IF c \in Rchunks(leaf) THEN ToSet(ExceptionsOf(leaf, EntryOf(leaf, c))) ELSE {}

SharedBy(es) == UNION {e.share : e \in es}

OriginChunkUnique(leaf, c, snapmask) == snapmask \subseteq SharedBy(Found(leaf, c))

SnapshotChunkUnique(leaf, c, b) == \E e \in Found(leaf, c) : e.share = {b}

-----------------------------------------------------------------------------
(* add_exception_to_leaf *)

\* The first entry that is not before the chunk; past the last if there is none.
Place(leaf, c) ==
    Min({i \in 1 .. Count(leaf) : leaf.map[i].rchunk >= c} \union {Count(leaf) + 1})

\* The size of what the chunk's next exception takes.
Need(leaf, c) == IF c \in Rchunks(leaf) THEN EXC ELSE EXC + ENTRY

\* -EFULL is returned when this does not hold.
HasRoom(leaf, c) == Freespace(leaf) >= Need(leaf, c)

Shift(map, n, by) ==
    [j \in DOMAIN map |-> IF j <= n THEN [map[j] EXCEPT !.offset = @ + by] ELSE map[j]]

\* Fault: the offset of the chunk's own entry is left.
AddExceptionToLeafShort(leaf, c, new, b, active) ==
    LET i     == Place(leaf, c)
        isNew == c \notin Rchunks(leaf)
        map   == IF isNew
                 THEN InsertAt(leaf.map, i, [offset |-> leaf.map[i].offset, rchunk |-> c])
                 ELSE leaf.map
        old   == Found(leaf, c)
        share == IF b = ORIGIN THEN active \ SharedBy(old) ELSE {b}
    IN  [map  |-> Shift(map, IF isNew THEN i ELSE i - 1, -EXC),
         area |-> InsertAt(leaf.area, EMap(leaf, i), [share |-> share, chunk |-> new])]

\* The leaf with a new exception of chunk c, in front of those it has. One for
\* the origin is shared by the active snapshots that have none yet; one for a
\* snapshot takes its bit out of the exception it shared.
AddExceptionToLeaf(leaf, c, new, b, active) ==
    LET i     == Place(leaf, c)
        old   == Found(leaf, c)
        own   == IF old = {} THEN {} ELSE EMap(leaf, i) .. EMap(leaf, i + 1) - 1
        map   == IF c \in Rchunks(leaf) THEN leaf.map
                 ELSE InsertAt(leaf.map, i, [offset |-> leaf.map[i].offset, rchunk |-> c])
        area  == [k \in DOMAIN leaf.area |->
                     IF k \in own /\ b # ORIGIN
                     THEN [leaf.area[k] EXCEPT !.share = @ \ {b}] ELSE leaf.area[k]]
        share == IF b = ORIGIN THEN active \ SharedBy(old) ELSE {b}
    IN  [map  |-> Shift(map, i, -EXC),
         area |-> InsertAt(area, EMap(leaf, i), [share |-> share, chunk |-> new])]

-----------------------------------------------------------------------------
(* split_leaf and merge_leaves *)

Nhead(leaf) == (Count(leaf) + 1) \div 2

SplitPoint(leaf) == leaf.map[Nhead(leaf) + 1].rchunk

\* Fault: the lower half is left where it was.
Head1Unmoved(leaf) ==
    LET n == Nhead(leaf)
    IN  [map  |-> Append(SubSeq(leaf.map, 1, n), [leaf.map[n + 1] EXCEPT !.rchunk = 0]),
         area |-> SubSeq(leaf.area, 1, EMap(leaf, n + 1) - 1)]

\* What stays: the lower half, moved to the end of the block.
Head1(leaf) ==
    LET n    == Nhead(leaf)
        tail == leaf.map[Count(leaf) + 1].offset - leaf.map[n + 1].offset
    IN  [map  |-> Shift(Append(SubSeq(leaf.map, 1, n),
                               [leaf.map[n + 1] EXCEPT !.rchunk = 0]), n + 1, tail),
         area |-> SubSeq(leaf.area, 1, EMap(leaf, n + 1) - 1)]

\* What the new leaf gets, at the offsets it had.
Tail1(leaf) ==
    LET n == Nhead(leaf)
    IN  [map  |-> SubSeq(leaf.map, n + 1, Count(leaf) + 1),
         area |-> SubSeq(leaf.area, EMap(leaf, n + 1), Len(leaf.area))]

\* Fault: the free space is compared with the exceptions alone.
CanMergeExceptions(leaf, leaf2) == Payload(leaf2) - Count(leaf2) <= Freespace(leaf)

CanMerge(leaf, leaf2) == Payload(leaf2) <= Freespace(leaf)

MergeLeaves(leaf, leaf2) ==
    LET tail == leaf2.map[Count(leaf2) + 1].offset - leaf2.map[1].offset
    IN  [map  |-> SubSeq(Shift(leaf.map, Count(leaf) + 1, -tail), 1, Count(leaf)) \o leaf2.map,
         area |-> leaf.area \o leaf2.area]

-----------------------------------------------------------------------------
(* delete_snapshots_from_leaf *)

\* The members of S among 1 .. n in order, as a loop finds them.
InOrder(S, n) ==
    LET upTo[k \in 0 .. n] ==
            IF k = 0 THEN <<>>
            ELSE IF k \in S THEN Append(upTo[k - 1], k) ELSE upTo[k - 1]
    IN  upTo[n]

\* The exceptions that stay: those of a snapshot outside bits.
Staying(area, bits) == {k \in DOMAIN area : ~(area[k].share \subseteq bits)}

\* The area with the bits taken out; an exception left without any goes.
Survivors(area, bits) ==
    LET kept == InOrder(Staying(area, bits), Len(area))
    IN  [j \in DOMAIN kept |-> [area[kept[j]] EXCEPT !.share = @ \ bits]]

\* Fault: a chunk goes with the first of its snapshots.
DroppedShared(leaf, bits) ==
    {e.chunk : e \in {x \in ToSet(leaf.area) : x.share \intersect bits # {}}}

\* The chunks of the store that go with them.
Dropped(leaf, bits) == {e.chunk : e \in {x \in ToSet(leaf.area) : x.share \subseteq bits}}

\* Each entry is moved to the first of its survivors, then those without any
\* are squeezed out.
DeleteFromLeaf(leaf, bits) ==
    LET end == leaf.map[Count(leaf) + 1]
        after(i) == {k \in Staying(leaf.area, bits) : k >= EMap(leaf, i)}
        moved == [i \in DOMAIN leaf.map |->
                     [leaf.map[i] EXCEPT !.offset = end.offset - EXC * Cardinality(after(i))]]
        kept  == InOrder({i \in 1 .. Count(leaf) : moved[i].offset # moved[i + 1].offset},
                         Count(leaf))
    IN  [map  |-> Append([k \in DOMAIN kept |-> moved[kept[k]]], [end EXCEPT !.rchunk = 0]),
         area |-> Survivors(leaf.area, bits)]

-----------------------------------------------------------------------------
\* A leaf as the operations expect it: the directory is in order and every
\* entry in it has exceptions, the offsets run from the first exception to the
\* end of the block, and directory and exceptions do not meet.
LeafSound(leaf) ==
    /\ \A i \in 1 .. Count(leaf) :
          /\ leaf.map[i].offset < leaf.map[i + 1].offset
          /\ i < Count(leaf) => leaf.map[i].rchunk < leaf.map[i + 1].rchunk
    /\ leaf.map[Count(leaf) + 1] = [offset |-> LeafSize, rchunk |-> 0]
    /\ leaf.map[1].offset = LeafSize - EXC * Len(leaf.area)
    /\ Freespace(leaf) >= 0
    /\ \A e \in ToSet(leaf.area) : e.share # {}
==============================================================================
