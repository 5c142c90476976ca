------------------------------ MODULE Allocator ------------------------------
(***************************************************************************)
(* The allocation bitmap of a combined snapshot store, whose chunks hold   *)
(* the bitmap itself, the journal, tree blocks and copied-out data: the    *)
(* scan for a free chunk, and the bitmap's adjustment when the device is   *)
(* given another size, in which it may move.                               *)
(*                                                                         *)
(* Bitmap blocks change in the buffer cache and are written home when the  *)
(* request commits, but for RESIZE, which does not commit. This is the     *)
(* mode without RUN_DEFER, and a server that is shut down and not stopped. *)
(* The cache holds no block of space that is added. That a store is not    *)
(* allowed to run full is ensure_free_chunks, see SnapStore.               *)
(***************************************************************************)
EXTENDS Integers, FiniteSets, FiniteSetsExt

CONSTANTS Sizes,           \* the sizes a device may have, in chunks
          ByteBits,        \* bits in a byte of the bitmap
          BlockBits,       \* bits in a block of the bitmap
          FirstBitmap,     \* chunks before the bitmap: the superblock
          JournalSize,     \* chunks of the journal
          ResizeCarefully  \* the store is not shrunk below the last allocation, nor
                           \* to or from a size with part of a byte, and the bitmap
                           \* is not moved before the last resize is committed

\* The chunks of a call of change_bits.
Span(first, n) == first .. first + n - 1

\* calc_bitmap_blocks
BitmapBlocks(n) == (n + BlockBits - 1) \div BlockBits

ReservedAtFirst(n) == FirstBitmap + BitmapBlocks(n) + JournalSize

ASSUME AllocatorAssumption ==
    /\ ByteBits \in Nat \ {0} /\ BlockBits \in Nat \ {0} /\ BlockBits % ByteBits = 0
    /\ FirstBitmap \in Nat \ {0} /\ JournalSize \in Nat \ {0}
    /\ \A n \in Sizes : n \in Nat /\ ReservedAtFirst(n) <= n
    /\ ResizeCarefully \in BOOLEAN

NONE == -1

VARIABLES chunks,       \* asi->chunks
          bitmaps,      \* asi->bitmap_blocks
          base,         \* asi->bitmap_base, as a chunk
          journalBase,  \* image.journal_base, as a chunk
          last,         \* asi->last_alloc
          freechunks,   \* asi->freechunks
          bits,         \* the bits of the bitmap blocks that are set
          disk,         \* those set in the blocks on disk
          owned,        \* the chunks in the tree or the snapshots
          found         \* what the last alloc_chunk returned

space == <<chunks, bitmaps, base>>

bitmap == <<bits, disk>>

vars == <<chunks, bitmaps, base, journalBase, last, freechunks, bits, disk, owned, found>>

-----------------------------------------------------------------------------
(* The bitmap. *)

\* Fault: the rest of the byte is taken to begin with the last chunk.
PastEndEarly(n) == IF n % ByteBits = 0 THEN {} ELSE n - 1 .. (n \div ByteBits + 1) * ByteBits - 1

\* The rest of the last byte: bits that are no chunks and shall not be found.
PastEnd(n) == IF n % ByteBits = 0 THEN {} ELSE n .. (n \div ByteBits + 1) * ByteBits - 1

\* count_zeros, which counts whole bytes.
CountZeros(set, n) ==
    Cardinality(Span(0, ((n + ByteBits - 1) \div ByteBits) * ByteBits) \ set)

\* Fault: the scan starts at the bit and ends as many bits later, in whole bytes.
FromRangeShort(start, n) ==
    LET ring == (bitmaps * BlockBits) \div ByteBits
        length == IF n < 0 THEN ring ELSE n \div ByteBits
        clear(i) == Span(((start \div ByteBits + i) % ring) * ByteBits, ByteBits) \ bits
        hits == {i \in 0 .. length - 1 : clear(i) # {}}
    IN  IF hits = {} THEN NONE ELSE Min(clear(Min(hits)))

\* alloc_chunk_from_range looks at whole bytes, from the one with the first chunk
\* to the one with the last, and goes on with the first block after the last one.
\* A number of chunks below zero is a very large one, as it is unsigned.
FromRange(start, n) ==
    LET ring == (bitmaps * BlockBits) \div ByteBits
        length == IF n < 0 THEN ring ELSE (n + (start % ByteBits) + ByteBits - 1) \div ByteBits
        clear(i) == Span(((start \div ByteBits + i) % ring) * ByteBits, ByteBits) \ bits
        hits == {i \in 0 .. length - 1 : clear(i) # {}}
    IN  IF hits = {} THEN NONE ELSE Min(clear(Min(hits)))

-----------------------------------------------------------------------------
(* Allocation. The request commits when it is done. *)

AllocChunk ==
    LET near == FromRange(last, chunks - last)
    IN  /\ found' = IF near # NONE THEN near ELSE FromRange(0, last)
        /\ found' # NONE
        /\ bits' = bits \union {found'}
        /\ disk' = bits'
        /\ freechunks' = freechunks - 1
        /\ last' = found'
        /\ owned' = owned \union {found'}
        /\ UNCHANGED <<space, journalBase>>

AllocFails ==
    /\ FromRange(last, chunks - last) = NONE
    /\ FromRange(0, last) = NONE
    /\ found' = NONE
    /\ UNCHANGED <<space, journalBase, last, freechunks, bitmap, owned>>

\* The tree lets go of a block or an exception.
FreeChunk(c) ==
    /\ c \in owned
    /\ owned' = owned \ {c}
    /\ bits' = bits \ {c}
    /\ disk' = bits'
    /\ freechunks' = IF c \in bits THEN freechunks + 1 ELSE freechunks
    /\ UNCHANGED <<space, journalBase, last, found>>

-----------------------------------------------------------------------------
(* adjust_bitmap: the bitmap for n chunks. *)

\* No chunk to be given up is in use. Of the bitmap blocks the last ones go.
Shrink(n) ==
    /\ n < chunks
    /\ ResizeCarefully => chunks % ByteBits = 0 /\ n % ByteBits = 0 /\ last < n
    /\ Span(n, chunks - n) \intersect bits = {}
    /\ bitmaps' = BitmapBlocks(n)
    /\ base' = base
    /\ bits' = (bits \ Span(base + bitmaps', bitmaps - bitmaps')) \intersect
                   Span(0, bitmaps' * BlockBits)

\* The bitmap blocks have room for the new chunks.
GrowInPlace(n) ==
    /\ n > chunks /\ BitmapBlocks(n) = bitmaps
    /\ bits' = (bits \ PastEnd(chunks)) \union PastEnd(n)
    /\ UNCHANGED <<bitmaps, base>>

\* Fault: the chunks of the old bitmap stay reserved.
RelocateKeepingOld(n, copied) ==
    /\ n > chunks /\ BitmapBlocks(n) # bitmaps
    /\ n - chunks >= BitmapBlocks(n)
    /\ ResizeCarefully => copied = bits
    /\ bitmaps' = BitmapBlocks(n)
    /\ base' = chunks
    /\ bits' = (copied \ PastEnd(chunks)) \union PastEnd(n) \union Span(base', bitmaps')

\* The blocks on disk are copied to the chunks that are new. Their own are free.
Relocate(n, copied) ==
    /\ n > chunks /\ BitmapBlocks(n) # bitmaps
    /\ n - chunks >= BitmapBlocks(n)
    /\ ResizeCarefully => copied = bits
    /\ bitmaps' = BitmapBlocks(n)
    /\ base' = chunks
    /\ bits' = (((copied \ PastEnd(chunks)) \union PastEnd(n)) \ Span(base, bitmaps))
                   \union Span(base', bitmaps')

\* adjust_bitmap refuses, or there is nothing to do.
Refuse(n) ==
    /\ \/ n = chunks
       \/ n < chunks /\ Span(n, chunks - n) \intersect bits # {}
       \/ n > chunks /\ BitmapBlocks(n) # bitmaps /\ n - chunks < BitmapBlocks(n)
    /\ UNCHANGED <<space, bits>>

\* change_device_sizes, with what is on disk.
ChangeDeviceSizes(n, copied) ==
    \/ Refuse(n)
    \/ /\ Shrink(n) \/ GrowInPlace(n) \/ Relocate(n, copied)
       /\ chunks' = n

\* RESIZE counts the free chunks when the sizes have changed. It commits nothing.
Resize(n) ==
    /\ ChangeDeviceSizes(n, disk)
    /\ freechunks' = CountZeros(bits', chunks')
    /\ disk' = disk \intersect Span(0, bitmaps' * BlockBits)
    /\ UNCHANGED <<journalBase, last, owned, found>>

\* A server that was shut down has committed. The next one takes the sizes the
\* devices have.
StartServer(n) ==
    /\ ChangeDeviceSizes(n, bits)
    /\ freechunks' = freechunks + chunks' - chunks + bitmaps - bitmaps'
    /\ disk' = bits \intersect Span(0, bitmaps' * BlockBits)
    /\ UNCHANGED <<journalBase, last, owned, found>>

-----------------------------------------------------------------------------
\* init_allocation
Init ==
    /\ chunks \in Sizes
    /\ bitmaps = BitmapBlocks(chunks)
    /\ base = FirstBitmap
    /\ journalBase = base + bitmaps
    /\ last = 0
    /\ freechunks = chunks - ReservedAtFirst(chunks)
    /\ bits = Span(0, ReservedAtFirst(chunks)) \union PastEnd(chunks)
    /\ disk = bits
    /\ owned = {}
    /\ found = NONE

Next ==
    \/ AllocChunk
    \/ AllocFails
    \/ \E c \in owned : FreeChunk(c)
    \/ \E n \in Sizes : Resize(n)
    \/ \E n \in Sizes : StartServer(n)

Spec == Init /\ [][Next]_vars

-----------------------------------------------------------------------------
(* Properties. *)

\* The superblock, the bitmap wherever it is now, and the journal.
Reserved == Span(0, FirstBitmap) \union Span(base, bitmaps) \union Span(journalBase, JournalSize)

\* Through every careful change of size the bitmap and the free count agree with
\* what is really in use, and the rest of the last byte is never free.
BitmapAgrees ==
    /\ bits \intersect Span(0, chunks) = Reserved \union owned
    /\ PastEnd(chunks) \subseteq bits
    /\ bits \subseteq Span(0, bitmaps * BlockBits)
    /\ bitmaps = BitmapBlocks(chunks)
    /\ freechunks = chunks - Cardinality(Reserved \union owned)

Pool == INSTANCE ChunkPool WITH size <- chunks, reserved <- Reserved

\* alloc_chunk: "Fail if both searches turn up nothing". It returns a chunk of
\* the store that nobody has as long as there is one, wherever the last one
\* was found, and a store that changes its size takes no chunk from anybody.
ImplementsPool == Pool!PoolSpec
==============================================================================
