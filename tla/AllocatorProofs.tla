--------------------------- MODULE AllocatorProofs ---------------------------
(***************************************************************************)
(* Proofs that the bitmap agrees with what is in use, and that the         *)
(* allocator implements the pool, for stores, bytes and blocks of any size *)
(* and any sequence of careful resizes.                                    *)
(***************************************************************************)
EXTENDS Allocator, FiniteSetTheorems, WellFoundedInduction, TLAPS

-----------------------------------------------------------------------------
(* Numbers. *)

\* A set of naturals has a least element.
LEMMA LeastNat ==
    ASSUME NEW S \in SUBSET Nat, S # {}
    PROVE  \E m \in S : \A x \in S : m <= x
<1> DEFINE below == OpToRel(<, Nat)
<1>1. IsWellFoundedOn(below, Nat)
  BY NatLessThanWellFounded
<1>2. \A x, y \in Nat : y < x => <<y, x>> \in below
  BY DEF OpToRel
<1> HIDE DEF below
<1>3. PICK x \in S : \A y \in S : ~(<<y, x>> \in below)
  BY <1>1, WFMin
<1>4. \A y \in S : ~(y < x)
  BY <1>2, <1>3, Zenon
<1>5. \A y \in S : y \in Nat /\ x \in Nat
  OBVIOUS
<1> QED
  BY <1>4, <1>5

-----------------------------------------------------------------------------
(* Bytes and blocks. *)

\* The bytes that n bits take.
Bytes(n) == (n + ByteBits - 1) \div ByteBits

\* Division with remainder.
LEMMA DivMod ==
    ASSUME NEW a \in Nat, NEW b \in Nat \ {0}
    PROVE  /\ a \div b \in Nat
           /\ a % b \in 0 .. b - 1
           /\ a = (a \div b) * b + (a % b)
  OBVIOUS

\* Multiples by a number keep their order.
LEMMA TimesMonotone ==
    ASSUME NEW k \in Int, NEW m \in Int, NEW b \in Nat, k <= m
    PROVE  k * b <= m * b /\ k * b \in Int /\ m * b \in Int
  OBVIOUS

\* The quotient is the number of times b goes into a.
LEMMA QuotientIs ==
    ASSUME NEW a \in Nat, NEW b \in Nat \ {0}, NEW k \in Int,
           k * b <= a, a < (k + 1) * b
    PROVE  a \div b = k
<1> DEFINE q == a \div b
<1>1. q \in Nat /\ q * b <= a /\ a < (q + 1) * b
  BY DivMod
<1> HIDE DEF q
<1>2. CASE k >= q + 1
  BY <1>1, <1>2, TimesMonotone
<1>3. CASE q >= k + 1
  BY <1>1, <1>3, TimesMonotone
<1> QED
  BY <1>1, <1>2, <1>3 DEF q

\* The last of the bytes has the last of the bits.
LEMMA BytesHold ==
    ASSUME NEW n \in Nat
    PROVE  /\ Bytes(n) \in Nat /\ Bytes(n) * ByteBits \in Nat
           /\ n <= Bytes(n) * ByteBits /\ Bytes(n) * ByteBits < n + ByteBits
<1> DEFINE a == n + ByteBits - 1
<1>0. ByteBits \in Nat \ {0}
  BY AllocatorAssumption
<1>1. a \in Nat
  BY <1>0
<1>2. Bytes(n) = a \div ByteBits
  BY DEF Bytes
<1> HIDE DEF a
<1>3. /\ Bytes(n) \in Nat
      /\ a % ByteBits \in 0 .. ByteBits - 1
      /\ a = Bytes(n) * ByteBits + (a % ByteBits)
  BY <1>0, <1>1, <1>2, DivMod
<1>4. Bytes(n) * ByteBits \in Nat
  BY <1>0, <1>3
<1> QED
  BY <1>0, <1>3, <1>4 DEF a

\* PastEnd is the rest of the last byte, without a case for whole bytes.
LEMMA PastEndIs ==
    ASSUME NEW n \in Nat
    PROVE  PastEnd(n) = n .. Bytes(n) * ByteBits - 1
<1> DEFINE q == n \div ByteBits
<1>0. ByteBits \in Nat \ {0}
  BY AllocatorAssumption
<1>1. q \in Nat /\ n % ByteBits \in 0 .. ByteBits - 1 /\ n = q * ByteBits + (n % ByteBits)
  BY <1>0, DivMod
<1>2. q * ByteBits \in Nat /\ (q + 1) * ByteBits = q * ByteBits + ByteBits
  BY <1>0, <1>1
<1>3. n + ByteBits - 1 \in Nat
  BY <1>0
<1>4. CASE n % ByteBits = 0
  <2>1. Bytes(n) = q
    <3> HIDE DEF q
    <3> QED
      BY <1>0, <1>1, <1>2, <1>3, <1>4, QuotientIs DEF Bytes
  <2>2. PastEnd(n) = {} /\ n .. n - 1 = {} /\ n = q * ByteBits
    <3> HIDE DEF q
    <3> QED
      BY <1>1, <1>2, <1>4 DEF PastEnd
  <2> HIDE DEF q
  <2> QED
    BY <2>1, <2>2
<1>5. CASE n % ByteBits # 0
  <2>1. Bytes(n) = q + 1
    <3> HIDE DEF q
    <3>1. (q + 2) * ByteBits = q * ByteBits + 2 * ByteBits
      BY <1>0, <1>1
    <3> QED
      <4>1. /\ (q + 1) * ByteBits <= n + ByteBits - 1
            /\ n + ByteBits - 1 < (q + 2) * ByteBits
        BY <1>0, <1>1, <1>2, <1>5, <3>1
      <4>2. q + 1 \in Int /\ (q + 1) + 1 = q + 2
        BY <1>1
      <4> QED
        BY <1>0, <1>3, <4>1, <4>2, QuotientIs DEF Bytes
  <2> QED
    BY <1>5, <2>1 DEF PastEnd
<1> QED
  BY <1>4, <1>5

\* A block is a whole number of bytes, so the bitmap is one.
LEMMA BlocksAreBytes ==
    ASSUME NEW m \in Nat
    PROVE  /\ (m * BlockBits) \div ByteBits \in Nat
           /\ ((m * BlockBits) \div ByteBits) * ByteBits = m * BlockBits
<1>0. ByteBits \in Nat \ {0} /\ BlockBits \in Nat \ {0} /\ BlockBits % ByteBits = 0
  BY AllocatorAssumption
<1>1. PICK q \in Nat : BlockBits = q * ByteBits
  BY <1>0, DivMod
<1>2. m * BlockBits = (m * q) * ByteBits
  BY <1>0, <1>1
<1>3. m * q \in Nat /\ m * BlockBits \in Nat /\ m * BlockBits < ((m * q) + 1) * ByteBits
  BY <1>0, <1>1, <1>2
<1>4. (m * BlockBits) \div ByteBits = m * q
  BY <1>0, <1>2, <1>3, QuotientIs
<1> QED
  BY <1>2, <1>3, <1>4

\* The blocks of a bitmap have room for the bytes.
LEMMA BlocksHold ==
    ASSUME NEW n \in Nat
    PROVE  /\ BitmapBlocks(n) \in Nat
           /\ n <= BitmapBlocks(n) * BlockBits /\ BitmapBlocks(n) * BlockBits \in Nat
           /\ Bytes(n) * ByteBits <= BitmapBlocks(n) * BlockBits
           /\ Bytes(n) <= (BitmapBlocks(n) * BlockBits) \div ByteBits
<1> DEFINE r == (BitmapBlocks(n) * BlockBits) \div ByteBits
<1>0. ByteBits \in Nat \ {0} /\ BlockBits \in Nat \ {0}
  BY AllocatorAssumption
<1>1. BitmapBlocks(n) \in Nat /\ n <= BitmapBlocks(n) * BlockBits
  <2>1. n + BlockBits - 1 \in Nat
    BY <1>0
  <2> QED
    BY <1>0, <2>1, DivMod DEF BitmapBlocks
<1>2. r \in Nat /\ r * ByteBits = BitmapBlocks(n) * BlockBits
  BY <1>1, BlocksAreBytes
<1>3. Bytes(n) <= r
  <2> HIDE DEF r
  <2>1. CASE Bytes(n) >= r + 1
    <3>1. (r + 1) * ByteBits <= Bytes(n) * ByteBits
      <4>1. r + 1 \in Int /\ Bytes(n) \in Int /\ ByteBits \in Nat
        BY <1>0, <1>2, BytesHold
      <4> QED
        BY <2>1, <4>1, TimesMonotone
    <3>2. (r + 1) * ByteBits = r * ByteBits + ByteBits
      BY <1>0, <1>2
    <3> QED
      BY <1>0, <1>1, <1>2, <3>1, <3>2, BytesHold
  <2> QED
    BY <1>2, <2>1, BytesHold
<1>4. BitmapBlocks(n) * BlockBits \in Nat
  BY <1>0, <1>1
<1> HIDE DEF r
<1>5. Bytes(n) * ByteBits <= r * ByteBits
  BY <1>0, <1>2, <1>3, BytesHold, TimesMonotone
<1>6. Bytes(n) * ByteBits <= BitmapBlocks(n) * BlockBits
  BY <1>2, <1>5
<1> QED
  BY <1>1, <1>3, <1>4, <1>6 DEF r

\* Whole bytes are bytes.
LEMMA WholeBytes ==
    ASSUME NEW n \in Nat
    PROVE  n \div ByteBits \in Nat /\ n \div ByteBits <= Bytes(n)
<1> DEFINE q == n \div ByteBits
<1>0. ByteBits \in Nat \ {0}
  BY AllocatorAssumption
<1>1. q \in Nat /\ n % ByteBits \in 0 .. ByteBits - 1 /\ n = q * ByteBits + (n % ByteBits)
  BY <1>0, DivMod
<1>2. Bytes(n) \in Nat /\ n <= Bytes(n) * ByteBits
  BY BytesHold
<1> HIDE DEF q
<1>3. ASSUME Bytes(n) + 1 <= q
      PROVE  FALSE
  <2>1. (Bytes(n) + 1) * ByteBits <= q * ByteBits
    BY <1>0, <1>1, <1>2, <1>3, TimesMonotone, Bytes(n) + 1 \in Int
  <2>2. (Bytes(n) + 1) * ByteBits = Bytes(n) * ByteBits + ByteBits /\ q * ByteBits \in Nat
    BY <1>0, <1>1, <1>2
  <2> QED
    BY <1>0, <1>1, <1>2, <2>1, <2>2
<1>4. q \in Nat /\ Bytes(n) \in Nat
  BY <1>1, <1>2
<1> QED
  BY <1>3, <1>4 DEF q

\* So do quotients.
LEMMA DivMonotone ==
    ASSUME NEW x \in Nat, NEW y \in Nat, x <= y, NEW b \in Nat \ {0}
    PROVE  x \div b <= y \div b
<1> DEFINE p == x \div b
           q == y \div b
<1>1. p \in Nat /\ q \in Nat /\ p * b <= x /\ y < q * b + b
  BY DivMod
<1> HIDE DEF p, q
<1>2. ASSUME q + 1 <= p
      PROVE  FALSE
  <2>1. (q + 1) * b <= p * b
    BY <1>1, <1>2, TimesMonotone, q + 1 \in Int
  <2>2. (q + 1) * b = q * b + b /\ q * b \in Nat /\ p * b \in Nat
    BY <1>1
  <2> QED
    BY <1>1, <2>1, <2>2
<1>3. p \in Nat /\ q \in Nat
  BY <1>1
<1> QED
  BY <1>2, <1>3 DEF p, q

\* Fewer bits take no more bytes, and no more blocks.
LEMMA BytesMonotone ==
    ASSUME NEW m \in Nat, NEW n \in Nat, m <= n
    PROVE  Bytes(m) <= Bytes(n) /\ BitmapBlocks(m) <= BitmapBlocks(n)
<1>1. ByteBits \in Nat \ {0} /\ BlockBits \in Nat \ {0}
  BY AllocatorAssumption
<1>2. /\ m + ByteBits - 1 \in Nat /\ n + ByteBits - 1 \in Nat
      /\ m + BlockBits - 1 \in Nat /\ n + BlockBits - 1 \in Nat
      /\ m + ByteBits - 1 <= n + ByteBits - 1 /\ m + BlockBits - 1 <= n + BlockBits - 1
  BY <1>1
<1> QED
  BY <1>1, <1>2, DivMonotone DEF Bytes, BitmapBlocks

-----------------------------------------------------------------------------
(* The scan. *)

\* Min is an element of every set of naturals that has one.
LEMMA MinIsIn ==
    ASSUME NEW S \in SUBSET Nat, S # {}
    PROVE  Min(S) \in S
<1>1. PICK x \in S : \A y \in S : x <= y
  BY LeastNat
<1> QED
  BY <1>1 DEF Min

\* A number below the modulus is its own rest.
LEMMA ModSmall ==
    ASSUME NEW x \in Nat, NEW m \in Nat, x < m
    PROVE  x % m = x
  OBVIOUS

\* The scan from start ends with the byte that has the last of n bits.
LEMMA LengthIs ==
    ASSUME NEW start \in Nat, NEW n \in Nat
    PROVE  (n + (start % ByteBits) + ByteBits - 1) \div ByteBits
              = Bytes(start + n) - (start \div ByteBits)
<1> DEFINE q == start \div ByteBits
           m == start % ByteBits
           c == Bytes(start + n)
           a == n + m + ByteBits - 1
<1>0. ByteBits \in Nat \ {0}
  BY AllocatorAssumption
<1>1. q \in Nat /\ m \in 0 .. ByteBits - 1 /\ start = q * ByteBits + m
  BY <1>0, DivMod
<1>2. c \in Nat /\ start + n <= c * ByteBits /\ c * ByteBits < start + n + ByteBits
  BY BytesHold
<1>3. a \in Nat
  BY <1>0, <1>1
<1> HIDE DEF q, m, c
<1>4. /\ q * ByteBits \in Nat /\ c * ByteBits \in Nat
      /\ (c - q) * ByteBits = c * ByteBits - q * ByteBits
      /\ ((c - q) + 1) * ByteBits = c * ByteBits - q * ByteBits + ByteBits
  BY <1>0, <1>1, <1>2
<1>5. (c - q) * ByteBits <= a /\ a < ((c - q) + 1) * ByteBits
  BY <1>0, <1>1, <1>2, <1>4
<1>6. a \div ByteBits = c - q
  <2> HIDE DEF a
  <2> QED
    BY <1>0, <1>1, <1>2, <1>3, <1>5, QuotientIs
<1> QED
  BY <1>6 DEF q, m, c

\* The bits of a byte that are clear.
ClearIn(k) == Span(k * ByteBits, ByteBits) \ bits

Ring == (bitmaps * BlockBits) \div ByteBits

\* The scan of n chunks from start on finds a clear bit in one of the bytes they
\* are in, if there is one.
LEMMA ScanFinds ==
    ASSUME NEW start \in Nat, NEW n \in Nat, Ring \in Nat, Bytes(start + n) <= Ring
    PROVE  LET range == start \div ByteBits .. Bytes(start + n) - 1
           IN  IF \A k \in range : ClearIn(k) = {}
               THEN FromRange(start, n) = NONE
               ELSE \E k \in range : FromRange(start, n) \in ClearIn(k)
<1> DEFINE q == start \div ByteBits
           c == Bytes(start + n)
           length == (n + (start % ByteBits) + ByteBits - 1) \div ByteBits
           clear(i) == Span(((q + i) % Ring) * ByteBits, ByteBits) \ bits
           hits == {i \in 0 .. length - 1 : clear(i) # {}}
<1>0. ByteBits \in Nat \ {0}
  BY AllocatorAssumption
<1>1. q \in Nat /\ c \in Nat
  <2>1. q \in Nat
    BY <1>0, DivMod
  <2>2. start + n \in Nat
    OBVIOUS
  <2>3. c \in Nat
    BY <2>2, BytesHold
  <2> QED
    BY <2>1, <2>3
<1>2. length = c - q
  BY LengthIs
<1>3. FromRange(start, n) = IF hits = {} THEN NONE ELSE Min(clear(Min(hits)))
  <2>1. ~(n < 0)
    OBVIOUS
  <2> QED
    BY <2>1 DEF FromRange, Ring
<1> HIDE DEF q, c, length
<1>4. \A i \in 0 .. length - 1 : q + i \in q .. c - 1 /\ clear(i) = ClearIn(q + i)
  <2> SUFFICES ASSUME NEW i \in 0 .. length - 1
               PROVE  q + i \in q .. c - 1 /\ clear(i) = ClearIn(q + i)
    OBVIOUS
  <2>1. q + i \in Nat /\ q + i < c /\ c <= Ring
    BY <1>1, <1>2 DEF c
  <2>2. (q + i) % Ring = q + i
    BY <2>1, <1>1, ModSmall
  <2> QED
    BY <1>1, <2>1, <2>2 DEF ClearIn
<1>5. \A k \in q .. c - 1 : k - q \in 0 .. length - 1 /\ q + (k - q) = k
  BY <1>1, <1>2
<1> HIDE DEF clear
<1>6. CASE \A k \in q .. c - 1 : ClearIn(k) = {}
  BY <1>3, <1>4, <1>6 DEF q, c
<1>7. CASE ~(\A k \in q .. c - 1 : ClearIn(k) = {})
  <2>1. hits # {}
    BY <1>4, <1>5, <1>7
  <2>2. hits \in SUBSET Nat
    BY <1>1, <1>2
  <2>3. Min(hits) \in 0 .. length - 1 /\ clear(Min(hits)) # {}
    BY <2>1, <2>2, MinIsIn
  <2> DEFINE k == q + Min(hits)
  <2>4. k \in q .. c - 1 /\ clear(Min(hits)) = ClearIn(k)
    BY <1>4, <2>3
  <2>5. ClearIn(k) \in SUBSET Nat
    <3> HIDE DEF k
    <3>1. k * ByteBits \in Nat
      BY <1>0, <1>1, <2>4
    <3> QED
      BY <1>0, <3>1 DEF ClearIn, Span
  <2>6. FromRange(start, n) = Min(ClearIn(k))
    BY <1>3, <2>1, <2>4
  <2>7. Min(ClearIn(k)) \in ClearIn(k)
    BY <2>3, <2>4, <2>5, MinIsIn
  <2>8. \E b \in q .. c - 1 : FromRange(start, n) \in ClearIn(b)
    BY <2>4, <2>6, <2>7
  <2> QED
    BY <2>8, <1>7 DEF q, c
<1> QED
  BY <1>6, <1>7

-----------------------------------------------------------------------------
(* The inductive invariant. *)

\* Where the parts that are not given out lie: the bitmap apart from the journal.
Layout ==
    /\ chunks \in Sizes
    /\ bitmaps = BitmapBlocks(chunks)
    /\ base \in Nat /\ FirstBitmap <= base /\ base + bitmaps <= chunks
    /\ journalBase \in Nat /\ FirstBitmap <= journalBase /\ journalBase + JournalSize <= chunks
    /\ base + bitmaps <= journalBase \/ journalBase + JournalSize <= base
    /\ last \in Nat /\ last < chunks

\* The bits that are set are known exactly, those behind the end included.
Placed ==
    /\ owned \subseteq Span(0, chunks) \ Reserved
    /\ bits = Reserved \union owned \union PastEnd(chunks)

Counted == freechunks = chunks - Cardinality(Reserved \union owned)

AInv == Layout /\ Placed /\ Counted

\* Sizes are numbers with room for what is reserved.
LEMMA SizeTypes ==
    ASSUME NEW n \in Sizes
    PROVE  /\ n \in Nat /\ n > 0
           /\ BitmapBlocks(n) \in Nat \ {0}
           /\ FirstBitmap + BitmapBlocks(n) + JournalSize <= n
<1>1. n \in Nat
  BY AllocatorAssumption
<1>2. BitmapBlocks(n) \in Nat /\ n <= BitmapBlocks(n) * BlockBits
  BY <1>1, BlocksHold
<1>3. n > 0 /\ FirstBitmap + BitmapBlocks(n) + JournalSize <= n
  BY <1>1, <1>2, AllocatorAssumption DEF ReservedAtFirst
<1>4. 0 * BlockBits = 0
  BY AllocatorAssumption
<1>5. BitmapBlocks(n) # 0
  BY <1>1, <1>2, <1>3, <1>4
<1> QED
  BY <1>1, <1>2, <1>3, <1>5

\* What a sound layout says of the numbers in it.
LEMMA LayoutTypes ==
    ASSUME Layout
    PROVE  /\ chunks \in Nat /\ bitmaps \in Nat /\ base \in Nat /\ journalBase \in Nat
           /\ last \in Nat
           /\ FirstBitmap \in Nat \ {0} /\ JournalSize \in Nat \ {0}
           /\ Ring \in Nat /\ Bytes(chunks) <= Ring
           /\ Reserved \subseteq Span(0, chunks)
<1>1. chunks \in Nat /\ bitmaps \in Nat
  BY SizeTypes DEF Layout
<1>2. Ring \in Nat /\ Bytes(chunks) <= Ring
  BY <1>1, BlocksAreBytes, BlocksHold DEF Layout, Ring
<1>3. FirstBitmap \in Nat \ {0} /\ JournalSize \in Nat \ {0}
  BY AllocatorAssumption
<1>4. Reserved \subseteq Span(0, chunks)
  BY <1>1, <1>3 DEF Layout, Reserved, Span
<1> QED
  BY <1>1, <1>2, <1>3, <1>4 DEF Layout

\* The same of the state after a step.
LEMMA LayoutTypesNext ==
    Layout' => chunks' \in Nat /\ Reserved' \subseteq Span(0, chunks')
<1>1. Layout => chunks \in Nat /\ Reserved \subseteq Span(0, chunks)
  BY LayoutTypes
<1>2. Layout' => (chunks \in Nat /\ Reserved \subseteq Span(0, chunks))'
  BY <1>1, PTL
<1> QED
  BY <1>2

\* What is behind the end is no chunk.
LEMMA PastEndBehind ==
    ASSUME NEW n \in Nat
    PROVE  PastEnd(n) \intersect Span(0, n) = {}
<1>1. PastEnd(n) = n .. Bytes(n) * ByteBits - 1
  BY PastEndIs
<1>2. Bytes(n) * ByteBits \in Nat
  BY BytesHold
<1> QED
  BY <1>1, <1>2 DEF Span

\* The last chunks of a span are in it.
LEMMA SpanEnd ==
    ASSUME NEW first \in Nat, NEW n \in Nat, NEW m \in Nat, m <= n
    PROVE  /\ first + m \in Int /\ n - m \in Nat
           /\ Span(first + m, n - m) \subseteq Span(first, n)
           /\ Span(first, m) = Span(first, n) \ Span(first + m, n - m)
  BY DEF Span

\* A span has as many chunks as it says.
LEMMA SpanCard ==
    ASSUME NEW first \in Int, NEW n \in Nat
    PROVE  IsFiniteSet(Span(first, n)) /\ Cardinality(Span(first, n)) = n
<1> DEFINE b == first + n - 1
<1>1. b \in Int /\ (first > b <=> n = 0) /\ b - first + 1 = n
  OBVIOUS
<1>2. Span(first, n) = first .. b
  BY DEF Span
<1> HIDE DEF b
<1> QED
  BY <1>1, <1>2, FS_Interval

-----------------------------------------------------------------------------
(* Allocation. *)

\* A clear bit in a byte of the store is a chunk that is free.
LEMMA ClearIsFree ==
    ASSUME AInv, NEW k \in Nat, k < Bytes(chunks)
    PROVE  ClearIn(k) \subseteq Span(0, chunks) \ (Reserved \union owned)
<1>0. ByteBits \in Nat \ {0}
  BY AllocatorAssumption
<1>1. chunks \in Nat /\ Bytes(chunks) \in Nat
  BY LayoutTypes, BytesHold DEF AInv
<1>2. PastEnd(chunks) = chunks .. Bytes(chunks) * ByteBits - 1
  BY <1>1, PastEndIs
<1>3. k * ByteBits \in Nat /\ Bytes(chunks) * ByteBits \in Nat
  BY <1>0, <1>1
<1>4. k * ByteBits + ByteBits <= Bytes(chunks) * ByteBits
  <2>1. (k + 1) * ByteBits <= Bytes(chunks) * ByteBits
    BY <1>0, <1>1, TimesMonotone, k + 1 \in Int
  <2> QED
    BY <1>0, <2>1
<1>5. ASSUME NEW x \in ClearIn(k)
      PROVE  x \in Span(0, chunks) \ (Reserved \union owned)
  <2>1. x \in Nat /\ x < Bytes(chunks) * ByteBits /\ x \notin bits
    BY <1>0, <1>3, <1>4, <1>5 DEF ClearIn, Span
  <2>2. x \notin PastEnd(chunks) /\ x \notin Reserved \union owned
    BY <2>1 DEF AInv, Placed
  <2>3. x < chunks
    BY <1>1, <1>2, <1>3, <2>1, <2>2
  <2> QED
    BY <1>1, <2>1, <2>2, <2>3 DEF Span
<1> QED
  BY <1>5

\* Every bit is in a byte.
LEMMA InByte ==
    ASSUME NEW x \in Nat, NEW n \in Nat, x < n
    PROVE  /\ x \div ByteBits \in Nat
           /\ x \div ByteBits < Bytes(n)
           /\ x \in Span((x \div ByteBits) * ByteBits, ByteBits)
<1> DEFINE q == x \div ByteBits
<1>0. ByteBits \in Nat \ {0}
  BY AllocatorAssumption
<1>1. q \in Nat /\ x % ByteBits \in 0 .. ByteBits - 1 /\ x = q * ByteBits + (x % ByteBits)
  BY <1>0, DivMod
<1> HIDE DEF q
<1>2. q * ByteBits \in Nat
  BY <1>0, <1>1
<1>3. x \in Span(q * ByteBits, ByteBits)
  BY <1>0, <1>1, <1>2 DEF Span
<1>4. Bytes(n) \in Nat /\ n <= Bytes(n) * ByteBits
  BY BytesHold
<1>5. CASE Bytes(n) <= q
  <2>1. Bytes(n) * ByteBits <= q * ByteBits
    BY <1>0, <1>1, <1>4, <1>5, TimesMonotone
  <2> QED
    BY <1>0, <1>1, <1>2, <1>4, <2>1
<1> QED
  BY <1>1, <1>3, <1>4, <1>5 DEF q

\* The two scans of alloc_chunk together find a free chunk, and fail only when
\* there is none.
Near == FromRange(last, chunks - last)
Got == IF Near # NONE THEN Near ELSE FromRange(0, last)

\* alloc_chunk finds a chunk nobody has, and fails only when there is none.
LEMMA GotRight ==
    ASSUME AInv
    PROVE  /\ Got # NONE => Got \in Span(0, chunks) \ (Reserved \union owned)
           /\ Got = NONE => Span(0, chunks) = Reserved \union owned
<1>0. ByteBits \in Nat \ {0}
  BY AllocatorAssumption
<1>1. /\ chunks \in Nat /\ last \in Nat /\ last < chunks
      /\ Ring \in Nat /\ Bytes(chunks) <= Ring /\ Reserved \subseteq Span(0, chunks)
  BY LayoutTypes DEF AInv, Layout
<1>2. /\ Bytes(chunks) \in Nat /\ Bytes(last) \in Nat /\ Bytes(last) <= Bytes(chunks)
      /\ last <= Bytes(last) * ByteBits
  BY <1>1, BytesHold, BytesMonotone
<1>3. last \div ByteBits \in Nat /\ last \div ByteBits <= Bytes(last) /\ 0 \div ByteBits = 0
  BY <1>0, <1>1, WholeBytes
<1> DEFINE q == last \div ByteBits
           upper == q .. Bytes(chunks) - 1
           lower == 0 .. Bytes(last) - 1
<1>4. IF \A k \in upper : ClearIn(k) = {} THEN Near = NONE
      ELSE \E k \in upper : Near \in ClearIn(k)
  <2>1. chunks - last \in Nat /\ last + (chunks - last) = chunks
    BY <1>1
  <2> QED
    BY <1>1, <2>1, ScanFinds DEF Near
<1>5. IF \A k \in lower : ClearIn(k) = {} THEN FromRange(0, last) = NONE
      ELSE \E k \in lower : FromRange(0, last) \in ClearIn(k)
  <2>1. 0 + last = last /\ Bytes(last) <= Ring
    BY <1>1, <1>2
  <2> QED
    BY <1>1, <1>3, <2>1, ScanFinds
<1> HIDE DEF q
<1>6. \A k \in upper \union lower : k \in Nat /\ k < Bytes(chunks)
  BY <1>2, <1>3 DEF q
<1>7. \A k \in upper \union lower :
          ClearIn(k) \subseteq Span(0, chunks) \ (Reserved \union owned)
  BY <1>6, ClearIsFree
<1>8. NONE \notin Span(0, chunks)
  BY <1>1 DEF NONE, Span
<1>9. Got # NONE => Got \in Span(0, chunks) \ (Reserved \union owned)
  BY <1>4, <1>5, <1>7 DEF Got
<1>10. ASSUME Got = NONE, NEW x \in Span(0, chunks)
       PROVE  x \in Reserved \union owned
  <2>1. \A k \in upper \union lower : ClearIn(k) = {}
    BY <1>4, <1>5, <1>7, <1>8, <1>10 DEF Got
  <2> DEFINE b == x \div ByteBits
  <2>2. x \in Nat /\ x < chunks
    BY <1>1 DEF Span
  <2>3. b \in Nat /\ b < Bytes(chunks) /\ x \in Span(b * ByteBits, ByteBits)
    BY <1>1, <2>2, InByte
  <2> HIDE DEF b
  <2>4. b \in upper \union lower
    <3>1. CASE b >= q
      BY <1>2, <1>3, <2>3, <3>1 DEF q
    <3>2. CASE b < q
      BY <1>2, <1>3, <2>3, <3>2 DEF q
    <3> QED
      BY <1>3, <2>3, <3>1, <3>2 DEF q
  <2>5. x \in bits
    BY <2>1, <2>3, <2>4 DEF ClearIn
  <2>6. x \notin PastEnd(chunks)
    BY <1>1, PastEndBehind
  <2> QED
    BY <2>5, <2>6 DEF AInv, Placed
<1> QED
  BY <1>1, <1>9, <1>10 DEF AInv, Placed

\* What is in use can be counted.
LEMMA UsedFinite ==
    ASSUME Layout, Placed
    PROVE  /\ IsFiniteSet(Reserved \union owned)
           /\ Cardinality(Reserved \union owned) \in Nat
           /\ IsFiniteSet(Span(0, chunks)) /\ Cardinality(Span(0, chunks)) = chunks
<1>1. chunks \in Nat /\ Reserved \union owned \subseteq Span(0, chunks)
  BY LayoutTypes DEF Placed
<1>2. IsFiniteSet(Span(0, chunks)) /\ Cardinality(Span(0, chunks)) = chunks
  BY <1>1, FS_Interval DEF Span
<1> QED
  BY <1>1, <1>2, FS_Subset, FS_CardinalityType

-----------------------------------------------------------------------------
(* Every step keeps the invariant. *)

LEMMA AllocKeeps ==
    ASSUME AInv, AllocChunk
    PROVE  AInv'
<1>1. /\ found' = Got /\ found' # NONE
      /\ bits' = bits \union {found'}
      /\ freechunks' = freechunks - 1
      /\ last' = found' /\ owned' = owned \union {found'}
      /\ UNCHANGED <<chunks, bitmaps, base, journalBase>>
  BY DEF AllocChunk, space, Got, Near
<1>2. found' \in Span(0, chunks) \ (Reserved \union owned)
  BY <1>1, GotRight
<1>3. chunks \in Nat
  BY LayoutTypes DEF AInv
<1>4. UNCHANGED Reserved /\ PastEnd(chunks)' = PastEnd(chunks) /\ Span(0, chunks)' = Span(0, chunks)
  BY <1>1 DEF Reserved
<1>5. Layout'
  BY <1>1, <1>2, <1>3 DEF AInv, Layout, Span
<1>6. Placed'
  BY <1>1, <1>2, <1>4 DEF AInv, Placed
<1>7. Counted'
  <2>1. IsFiniteSet(Reserved \union owned) /\ Cardinality(Reserved \union owned) \in Nat
    BY UsedFinite DEF AInv
  <2>2. (Reserved \union owned)' = (Reserved \union owned) \union {found'}
    BY <1>1, <1>4
  <2>3. Cardinality((Reserved \union owned)') = Cardinality(Reserved \union owned) + 1
    BY <1>2, <2>1, <2>2, FS_AddElement
  <2> QED
    BY <1>1, <1>3, <2>1, <2>3 DEF AInv, Counted
<1> QED
  BY <1>5, <1>6, <1>7 DEF AInv

\* free_chunk clears a bit that was set and counts it.
LEMMA FreeKeeps ==
    ASSUME AInv, NEW c \in owned, FreeChunk(c)
    PROVE  AInv'
<1>1. /\ c \in bits
      /\ bits' = bits \ {c}
      /\ freechunks' = freechunks + 1
      /\ owned' = owned \ {c}
      /\ UNCHANGED <<chunks, bitmaps, base, journalBase, last>>
  BY DEF FreeChunk, space, AInv, Placed
<1>2. c \in Span(0, chunks) /\ c \notin Reserved
  BY DEF AInv, Placed
<1>3. chunks \in Nat
  BY LayoutTypes DEF AInv
<1>4. UNCHANGED Reserved /\ PastEnd(chunks)' = PastEnd(chunks) /\ Span(0, chunks)' = Span(0, chunks)
  BY <1>1 DEF Reserved
<1>5. Layout'
  BY <1>1 DEF AInv, Layout
<1>6. Placed'
  <2>1. c \notin PastEnd(chunks)
    BY <1>2, <1>3, PastEndBehind
  <2> QED
    BY <1>1, <1>2, <1>4, <2>1 DEF AInv, Placed
<1>7. Counted'
  <2>1. IsFiniteSet(Reserved \union owned) /\ Cardinality(Reserved \union owned) \in Nat
    BY UsedFinite DEF AInv
  <2>2. (Reserved \union owned)' = (Reserved \union owned) \ {c}
    BY <1>1, <1>2, <1>4
  <2>3. Cardinality((Reserved \union owned)') = Cardinality(Reserved \union owned) - 1
    BY <2>1, <2>2, FS_RemoveElement
  <2> QED
    BY <1>1, <1>3, <2>1, <2>3 DEF AInv, Counted
<1> QED
  BY <1>5, <1>6, <1>7 DEF AInv

\* count_zeros counts the chunks that are free, as the rest of the last byte is
\* not clear.
LEMMA CountsRight ==
    ASSUME NEW n \in Nat, NEW S, PastEnd(n) \subseteq S
    PROVE  CountZeros(S, n) = n - Cardinality(S \intersect Span(0, n))
<1>1. /\ Bytes(n) * ByteBits \in Nat /\ n <= Bytes(n) * ByteBits
      /\ PastEnd(n) = n .. Bytes(n) * ByteBits - 1
  BY BytesHold, PastEndIs
<1>2. Span(0, Bytes(n) * ByteBits) \ S = Span(0, n) \ S
  BY <1>1 DEF Span
<1>3. IsFiniteSet(Span(0, n)) /\ Cardinality(Span(0, n)) = n
  BY FS_Interval DEF Span
<1>4. Cardinality(Span(0, n) \ S) = n - Cardinality(Span(0, n) \intersect S)
  BY <1>3, FS_Difference
<1>5. Span(0, n) \intersect S = S \intersect Span(0, n)
  OBVIOUS
<1>6. CountZeros(S, n) = Cardinality(Span(0, Bytes(n) * ByteBits) \ S)
  BY DEF CountZeros, Bytes
<1> QED
  BY <1>2, <1>4, <1>5, <1>6

-----------------------------------------------------------------------------
(* Resizing. What is shown of each way through adjust_bitmap is the place of *)
(* everything afterwards, and by how much the number of chunks in use grows. *)

LEMMA ShrinkPlaces ==
    ASSUME AInv, ResizeCarefully, NEW n \in Sizes, Shrink(n), chunks' = n,
           UNCHANGED <<journalBase, last, owned>>
    PROVE  /\ Layout' /\ Placed'
           /\ Cardinality((Reserved \union owned)')
                = Cardinality(Reserved \union owned) + bitmaps' - bitmaps
<1> DEFINE freed == Span(base + bitmaps', bitmaps - bitmaps')
<1>1. /\ n < chunks /\ last < n
      /\ Span(n, chunks - n) \intersect bits = {}
      /\ bitmaps' = BitmapBlocks(n) /\ base' = base
      /\ bits' = (bits \ freed) \intersect Span(0, bitmaps' * BlockBits)
      /\ PastEnd(chunks) = {} /\ PastEnd(n) = {}
  BY DEF Shrink, PastEnd
<1>2. /\ chunks \in Nat /\ bitmaps \in Nat /\ base \in Nat /\ journalBase \in Nat
      /\ last \in Nat /\ FirstBitmap \in Nat \ {0} /\ JournalSize \in Nat \ {0}
      /\ Reserved \subseteq Span(0, chunks)
  BY LayoutTypes DEF AInv
<1>3. n \in Nat /\ bitmaps' \in Nat \ {0}
  BY <1>1, SizeTypes
<1>4. bitmaps' <= bitmaps
  BY <1>1, <1>2, <1>3, BytesMonotone DEF AInv, Layout
<1>5. Reserved \union owned \subseteq Span(0, n)
  <2>1. Reserved \union owned \subseteq bits /\ Reserved \union owned \subseteq Span(0, chunks)
    BY <1>2 DEF AInv, Placed
  <2>2. \A x \in Span(0, chunks) : x \in Span(0, n) \/ x \in Span(n, chunks - n)
    BY <1>2, <1>3 DEF Span
  <2> QED
    BY <1>1, <2>1, <2>2
<1>6. base + bitmaps <= n /\ journalBase + JournalSize <= n
  <2>1. base + bitmaps - 1 \in Reserved /\ journalBase + JournalSize - 1 \in Reserved
    BY <1>2, <1>3, <1>4 DEF Reserved, Span
  <2>2. base + bitmaps - 1 \in Span(0, n) /\ journalBase + JournalSize - 1 \in Span(0, n)
    BY <1>5, <2>1
  <2> QED
    BY <1>2, <1>3, <2>2 DEF Span
<1>7. Layout'
  BY <1>1, <1>2, <1>3, <1>4, <1>6 DEF AInv, Layout
<1>8. freed \subseteq Reserved
  <2>1. base \in Nat /\ bitmaps \in Nat /\ bitmaps' \in Nat
    BY <1>2, <1>3
  <2>2. freed \subseteq Span(base, bitmaps)
    BY <1>4, <2>1, SpanEnd
  <2> QED
    BY <2>2 DEF Reserved
<1>9. Reserved' = Reserved \ freed
  <2>1. Span(base, bitmaps') = Span(base, bitmaps) \ freed
    BY <1>2, <1>3, <1>4 DEF Span
  <2>2. freed \intersect Span(0, FirstBitmap) = {}
    BY <1>2, <1>3, <1>4 DEF Span, AInv, Layout
  <2>3. freed \intersect Span(journalBase, JournalSize) = {}
    BY <1>2, <1>3, <1>4 DEF Span, AInv, Layout
  <2>4. Reserved' = Span(0, FirstBitmap) \union Span(base, bitmaps')
                        \union Span(journalBase, JournalSize)
    BY <1>1 DEF Reserved, Span
  <2> HIDE DEF freed
  <2> QED
    BY <2>1, <2>2, <2>3, <2>4 DEF Reserved
<1>10. (Reserved \union owned)' = (Reserved \union owned) \ freed
  BY <1>8, <1>9 DEF AInv, Placed
<1>11. Placed'
  <2>1. bits = Reserved \union owned
    BY <1>1 DEF AInv, Placed
  <2>2. Span(0, n) \subseteq Span(0, bitmaps' * BlockBits)
    <3>1. n <= bitmaps' * BlockBits
      BY <1>1, <1>3, BlocksHold
    <3>2. bitmaps' * BlockBits \in Nat
      BY <1>1, <1>3, BlocksHold
    <3> QED
      BY <1>3, <3>1, <3>2 DEF Span
  <2>3. bits' = (Reserved \union owned)'
    BY <1>1, <1>5, <1>10, <2>1, <2>2
  <2>4. PastEnd(chunks)' = {} /\ Span(0, chunks)' = Span(0, n)
    BY <1>1 DEF PastEnd, Span
  <2>5. owned \intersect Reserved' = {}
    BY <1>9 DEF AInv, Placed
  <2> QED
    BY <1>5, <2>3, <2>4, <2>5 DEF Placed
<1>12. IsFiniteSet(freed) /\ Cardinality(freed) = bitmaps - bitmaps'
  <2>1. base \in Nat /\ bitmaps \in Nat /\ bitmaps' \in Nat
    BY <1>2, <1>3
  <2>2. base + bitmaps' \in Int /\ bitmaps - bitmaps' \in Nat
    BY <1>4, <2>1, SpanEnd
  <2> QED
    BY <2>2, SpanCard
<1>13. IsFiniteSet(Reserved \union owned) /\ Cardinality(Reserved \union owned) \in Nat
  BY UsedFinite DEF AInv
<1>14. (Reserved \union owned) \intersect freed = freed
  BY <1>8
<1>15. Cardinality((Reserved \union owned) \ freed)
          = Cardinality(Reserved \union owned) - (bitmaps - bitmaps')
  <2> DEFINE used == Reserved \union owned
  <2>1. IsFiniteSet(used) /\ used \intersect freed = freed
    BY <1>13, <1>14
  <2> HIDE DEF used, freed
  <2>2. Cardinality(used \ freed) = Cardinality(used) - Cardinality(used \intersect freed)
    BY <2>1, FS_Difference
  <2> QED
    BY <1>12, <2>1, <2>2 DEF used
<1>16. Cardinality((Reserved \union owned)')
          = Cardinality(Reserved \union owned) - (bitmaps - bitmaps')
  BY <1>10, <1>15
<1> HIDE DEF freed
<1> QED
  BY <1>2, <1>3, <1>7, <1>11, <1>13, <1>16

\* Growing within the blocks of the bitmap.
LEMMA GrowPlaces ==
    ASSUME AInv, NEW n \in Sizes, GrowInPlace(n), chunks' = n,
           UNCHANGED <<journalBase, last, owned>>
    PROVE  /\ Layout' /\ Placed'
           /\ Cardinality((Reserved \union owned)')
                = Cardinality(Reserved \union owned) + bitmaps' - bitmaps
<1>1. /\ n > chunks /\ BitmapBlocks(n) = bitmaps
      /\ bits' = (bits \ PastEnd(chunks)) \union PastEnd(n)
      /\ bitmaps' = bitmaps /\ base' = base
  BY DEF GrowInPlace
<1>2. /\ chunks \in Nat /\ bitmaps \in Nat /\ base \in Nat /\ journalBase \in Nat
      /\ last \in Nat /\ FirstBitmap \in Nat \ {0} /\ JournalSize \in Nat \ {0}
      /\ Reserved \subseteq Span(0, chunks)
  BY LayoutTypes DEF AInv
<1>3. n \in Nat
  BY SizeTypes
<1>4. Layout'
  BY <1>1, <1>2, <1>3 DEF AInv, Layout
<1>5. Reserved' = Reserved /\ PastEnd(chunks)' = PastEnd(n) /\ Span(0, chunks)' = Span(0, n)
  BY <1>1 DEF Reserved, Span
<1>6. Span(0, chunks) \subseteq Span(0, n) /\ PastEnd(chunks) \intersect Span(0, chunks) = {}
  <2>1. PastEnd(chunks) \intersect Span(0, chunks) = {}
    BY <1>2, PastEndBehind
  <2> QED
    BY <1>1, <1>2, <1>3, <2>1 DEF Span
<1>7. Placed'
  BY <1>1, <1>2, <1>5, <1>6 DEF AInv, Placed
<1>8. Cardinality(Reserved \union owned) \in Nat
  BY UsedFinite DEF AInv
<1> QED
  BY <1>1, <1>2, <1>4, <1>5, <1>7, <1>8

\* Growing with the bitmap moved behind the old end of the store.
LEMMA RelocatePlaces ==
    ASSUME AInv, ResizeCarefully, NEW n \in Sizes, NEW copied, Relocate(n, copied), chunks' = n,
           UNCHANGED <<journalBase, last, owned>>
    PROVE  /\ Layout' /\ Placed'
           /\ Cardinality((Reserved \union owned)')
                = Cardinality(Reserved \union owned) + bitmaps' - bitmaps
<1> DEFINE old == Span(base, bitmaps)
           new == Span(chunks, bitmaps')
<1>1. /\ n > chunks /\ n - chunks >= BitmapBlocks(n)
      /\ bitmaps' = BitmapBlocks(n) /\ base' = chunks
      /\ bits' = (((bits \ PastEnd(chunks)) \union PastEnd(n)) \ old) \union new
  BY DEF Relocate
<1>2. /\ chunks \in Nat /\ bitmaps \in Nat /\ base \in Nat /\ journalBase \in Nat
      /\ last \in Nat /\ FirstBitmap \in Nat \ {0} /\ JournalSize \in Nat \ {0}
      /\ Reserved \subseteq Span(0, chunks)
  BY LayoutTypes DEF AInv
<1>3. n \in Nat /\ bitmaps' \in Nat \ {0}
  BY <1>1, SizeTypes
<1>4. Layout'
  BY <1>1, <1>2, <1>3 DEF AInv, Layout
<1>5. old \subseteq Reserved /\ new \intersect Span(0, chunks) = {} /\ new \subseteq Span(0, n)
  BY <1>1, <1>2, <1>3 DEF Reserved, Span
<1>6. Reserved' = (Reserved \ old) \union new
  <2>1. old \intersect Span(0, FirstBitmap) = {} /\ old \intersect Span(journalBase, JournalSize) = {}
    BY <1>2 DEF Span, AInv, Layout
  <2>2. Reserved' = Span(0, FirstBitmap) \union new \union Span(journalBase, JournalSize)
    BY <1>1 DEF Reserved, Span
  <2> HIDE DEF new
  <2> QED
    BY <2>1, <2>2 DEF Reserved
<1>7. /\ PastEnd(chunks)' = PastEnd(n) /\ Span(0, chunks)' = Span(0, n)
      /\ Span(0, chunks) \subseteq Span(0, n)
      /\ PastEnd(chunks) \intersect Span(0, chunks) = {}
      /\ PastEnd(n) \intersect Span(0, n) = {}
  <2>1. PastEnd(chunks) \intersect Span(0, chunks) = {} /\ PastEnd(n) \intersect Span(0, n) = {}
    BY <1>2, <1>3, PastEndBehind
  <2>2. PastEnd(chunks)' = PastEnd(n) /\ Span(0, chunks)' = Span(0, n)
    BY DEF Span
  <2> QED
    BY <1>1, <1>2, <1>3, <2>1, <2>2 DEF Span
<1> HIDE DEF old, new
<1>8. (Reserved \union owned)' = ((Reserved \union owned) \ old) \union new
  BY <1>5, <1>6 DEF AInv, Placed
<1>9. Placed'
  BY <1>1, <1>2, <1>5, <1>6, <1>7 DEF AInv, Placed
<1>10. Cardinality(old) = bitmaps /\ Cardinality(new) = bitmaps' /\ IsFiniteSet(new)
  BY <1>2, <1>3, SpanCard DEF old, new
<1>11. IsFiniteSet(Reserved \union owned) /\ Cardinality(Reserved \union owned) \in Nat
  BY UsedFinite DEF AInv
<1>12. /\ IsFiniteSet((Reserved \union owned) \ old)
       /\ Cardinality((Reserved \union owned) \ old) = Cardinality(Reserved \union owned) - bitmaps
  <2>1. (Reserved \union owned) \intersect old = old
    BY <1>5
  <2> QED
    <3> DEFINE all == Reserved \union owned
    <3>1. IsFiniteSet(all) /\ all \intersect old = old /\ Cardinality(old) = bitmaps
      BY <1>10, <1>11, <2>1
    <3> HIDE DEF all
    <3>2. /\ IsFiniteSet(all \ old)
          /\ Cardinality(all \ old) = Cardinality(all) - Cardinality(all \intersect old)
      BY ONLY <3>1, FS_Difference
    <3>3. IsFiniteSet(all \ old) /\ Cardinality(all \ old) = Cardinality(all) - bitmaps
      BY ONLY <3>1, <3>2
    <3> QED
      BY ONLY <3>3 DEF all
<1>13. ((Reserved \union owned) \ old) \intersect new = {}
  BY <1>2, <1>5 DEF AInv, Placed
<1>14. Cardinality(((Reserved \union owned) \ old) \union new)
          = Cardinality((Reserved \union owned) \ old) + bitmaps'
  <2> DEFINE kept == (Reserved \union owned) \ old
  <2>1. IsFiniteSet(kept) /\ Cardinality(kept) \in Nat
    BY <1>12, FS_CardinalityType
  <2>2. Cardinality(kept \intersect new) = 0
    BY <1>13, FS_EmptySet
  <2> HIDE DEF kept
  <2>3. Cardinality(kept \union new)
           = Cardinality(kept) + Cardinality(new) - Cardinality(kept \intersect new)
    BY <1>10, <2>1, FS_Union
  <2>4. Cardinality(new) = bitmaps' /\ bitmaps' \in Nat
    BY <1>3, <1>10
  <2> QED
    BY <2>1, <2>2, <2>3, <2>4 DEF kept
<1>15. Cardinality((Reserved \union owned)')
          = Cardinality(Reserved \union owned) - bitmaps + bitmaps'
  BY <1>8, <1>12, <1>14
<1> QED
  BY <1>2, <1>3, <1>4, <1>9, <1>11, <1>15

\* Whatever adjust_bitmap does, everything has its place afterwards.
LEMMA ChangePlaces ==
    ASSUME AInv, ResizeCarefully, NEW n \in Sizes, NEW copied, ChangeDeviceSizes(n, copied),
           UNCHANGED <<journalBase, last, owned>>
    PROVE  /\ Layout' /\ Placed'
           /\ Cardinality((Reserved \union owned)')
                = Cardinality(Reserved \union owned) + bitmaps' - bitmaps
<1>1. CASE Refuse(n)
  <2>1. UNCHANGED <<chunks, bitmaps, base, journalBase, last, owned, bits>>
    BY <1>1 DEF Refuse, space
  <2>2. UNCHANGED Reserved /\ PastEnd(chunks)' = PastEnd(chunks) /\ Span(0, chunks)' = Span(0, chunks)
    BY <2>1 DEF Reserved
  <2>3. Layout' /\ Placed'
    BY <2>1, <2>2 DEF AInv, Layout, Placed
  <2>4. Cardinality(Reserved \union owned) \in Nat /\ bitmaps \in Nat
    BY UsedFinite, LayoutTypes DEF AInv
  <2>5. Cardinality((Reserved \union owned)') = Cardinality(Reserved \union owned)
    BY <2>1, <2>2
  <2>6. Cardinality(Reserved \union owned)
           = Cardinality(Reserved \union owned) + bitmaps' - bitmaps
    BY <2>1, <2>4
  <2> QED
    BY <2>3, <2>5, <2>6
<1>2. CASE Shrink(n) /\ chunks' = n
  BY <1>2, ShrinkPlaces
<1>3. CASE GrowInPlace(n) /\ chunks' = n
  BY <1>3, GrowPlaces
<1>4. CASE Relocate(n, copied) /\ chunks' = n
  BY <1>4, RelocatePlaces
<1> QED
  BY <1>1, <1>2, <1>3, <1>4 DEF ChangeDeviceSizes

\* RESIZE counts the clear bits.
LEMMA ResizeKeeps ==
    ASSUME AInv, ResizeCarefully, NEW n \in Sizes, Resize(n)
    PROVE  AInv'
<1>1. ChangeDeviceSizes(n, disk) /\ freechunks' = CountZeros(bits', chunks')
      /\ UNCHANGED <<journalBase, last, owned>>
  BY DEF Resize
<1>2. Layout' /\ Placed'
  BY <1>1, ChangePlaces
<1>3. chunks' \in Nat /\ Reserved' \subseteq Span(0, chunks')
  BY <1>2, LayoutTypesNext
<1>4. /\ owned' \subseteq Span(0, chunks')
      /\ bits' = (Reserved \union owned)' \union PastEnd(chunks')
  BY <1>2 DEF Placed
<1>5. bits' \intersect Span(0, chunks') = (Reserved \union owned)'
  BY <1>3, <1>4, PastEndBehind
<1>6. CountZeros(bits', chunks') = chunks' - Cardinality(bits' \intersect Span(0, chunks'))
  BY <1>3, <1>4, CountsRight
<1>7. Counted'
  BY <1>1, <1>5, <1>6 DEF Counted
<1> QED
  BY <1>2, <1>7 DEF AInv

\* A server that starts reckons from the sizes.
LEMMA StartKeeps ==
    ASSUME AInv, ResizeCarefully, NEW n \in Sizes, StartServer(n)
    PROVE  AInv'
<1>1. ChangeDeviceSizes(n, bits) /\ UNCHANGED <<journalBase, last, owned>>
      /\ freechunks' = freechunks + chunks' - chunks + bitmaps - bitmaps'
  BY DEF StartServer
<1>2. /\ Layout' /\ Placed'
      /\ Cardinality((Reserved \union owned)')
           = Cardinality(Reserved \union owned) + bitmaps' - bitmaps
  BY <1>1, ChangePlaces
<1>3. chunks \in Nat /\ bitmaps \in Nat /\ Cardinality(Reserved \union owned) \in Nat
  BY UsedFinite, LayoutTypes DEF AInv
<1>4. chunks' \in Nat /\ bitmaps' \in Nat
  BY <1>2, SizeTypes DEF Layout
<1>5. Counted'
  BY <1>1, <1>2, <1>3, <1>4 DEF AInv, Counted
<1> QED
  BY <1>2, <1>5 DEF AInv

\* A store that has just been initialized.
LEMMA InitAInv == Init => AInv
<1> SUFFICES ASSUME Init
             PROVE  AInv
  OBVIOUS
<1>1. /\ chunks \in Sizes /\ bitmaps = BitmapBlocks(chunks) /\ base = FirstBitmap
      /\ journalBase = base + bitmaps /\ last = 0
      /\ freechunks = chunks - ReservedAtFirst(chunks)
      /\ bits = Span(0, ReservedAtFirst(chunks)) \union PastEnd(chunks)
      /\ owned = {}
  BY DEF Init
<1>2. /\ FirstBitmap \in Nat \ {0} /\ JournalSize \in Nat \ {0}
      /\ chunks \in Nat /\ chunks > 0 /\ bitmaps \in Nat
      /\ FirstBitmap + bitmaps + JournalSize <= chunks
      /\ ReservedAtFirst(chunks) = FirstBitmap + bitmaps + JournalSize
  BY <1>1, SizeTypes, AllocatorAssumption DEF ReservedAtFirst
<1>3. Layout
  BY <1>1, <1>2 DEF Layout
<1>4. Reserved = Span(0, ReservedAtFirst(chunks))
  BY <1>1, <1>2 DEF Reserved, Span
<1>5. Placed
  BY <1>1, <1>4 DEF Placed
<1>6. Cardinality(Reserved \union owned) = ReservedAtFirst(chunks)
  <2>1. ReservedAtFirst(chunks) \in Nat /\ Reserved \union owned = Reserved
    BY <1>1, <1>2
  <2> QED
    BY <1>4, <2>1, SpanCard
<1>7. Counted
  BY <1>1, <1>6 DEF Counted
<1> QED
  BY <1>3, <1>5, <1>7 DEF AInv

\* Every step keeps the invariant.
LEMMA StepAInv ==
    ASSUME AInv, ResizeCarefully, [Next]_vars
    PROVE  AInv'
<1>1. CASE AllocChunk
  BY <1>1, AllocKeeps
<1>2. CASE AllocFails \/ UNCHANGED vars
  <2>1. UNCHANGED <<chunks, bitmaps, base, journalBase, last, owned, bits, freechunks>>
    BY <1>2 DEF AllocFails, vars, space, bitmap
  <2>2. UNCHANGED Reserved
    BY <2>1 DEF Reserved
  <2> QED
    BY <2>1, <2>2 DEF AInv, Layout, Placed, Counted
<1>3. ASSUME NEW c \in owned, FreeChunk(c)
      PROVE  AInv'
  BY <1>3, FreeKeeps
<1>4. ASSUME NEW n \in Sizes, Resize(n)
      PROVE  AInv'
  BY <1>4, ResizeKeeps
<1>5. ASSUME NEW n \in Sizes, StartServer(n)
      PROVE  AInv'
  BY <1>5, StartKeeps
<1> QED
  BY <1>1, <1>2, <1>3, <1>4, <1>5 DEF Next

\* Hence it always holds.
LEMMA AInvHolds ==
    ASSUME ResizeCarefully
    PROVE  Spec => []AInv
<1>1. AInv /\ [Next]_vars => AInv'
  BY StepAInv
<1> QED
  BY InitAInv, <1>1, PTL DEF Spec

-----------------------------------------------------------------------------
(* What follows. *)

\* Through every sequence of allocations, frees, restarts and careful resizes
\* the bitmap has exactly the chunks in use, the bits of the last byte that
\* are no chunks are set, and the free count is right, for bytes and blocks of
\* any number of bits and stores of any sizes.
THEOREM BitmapAlwaysAgrees ==
    ASSUME ResizeCarefully
    PROVE  Spec => []BitmapAgrees
<1>1. AInv => BitmapAgrees
  <2> SUFFICES ASSUME AInv
               PROVE  BitmapAgrees
    OBVIOUS
  <2>1. /\ chunks \in Nat /\ bitmaps \in Nat /\ Reserved \subseteq Span(0, chunks)
        /\ owned \subseteq Span(0, chunks) /\ bitmaps = BitmapBlocks(chunks)
        /\ bits = Reserved \union owned \union PastEnd(chunks)
    BY LayoutTypes DEF AInv, Layout, Placed
  <2>2. bits \intersect Span(0, chunks) = Reserved \union owned
    BY <2>1, PastEndBehind
  <2>3. bits \subseteq Span(0, bitmaps * BlockBits)
    <3>1. /\ bitmaps * BlockBits \in Nat /\ chunks <= bitmaps * BlockBits
          /\ Bytes(chunks) * ByteBits \in Nat
          /\ Bytes(chunks) * ByteBits <= bitmaps * BlockBits
      BY <2>1, BlocksHold, BytesHold
    <3>2. Span(0, chunks) \subseteq Span(0, bitmaps * BlockBits)
      BY <2>1, <3>1 DEF Span
    <3>3. PastEnd(chunks) \subseteq Span(0, bitmaps * BlockBits)
      <4>1. PastEnd(chunks) = chunks .. Bytes(chunks) * ByteBits - 1
        BY <2>1, PastEndIs
      <4> QED
        BY <2>1, <3>1, <4>1 DEF Span
    <3> QED
      BY <2>1, <3>2, <3>3
  <2> QED
    BY <2>1, <2>2, <2>3 DEF AInv, Counted, BitmapAgrees
<1> QED
  BY <1>1, AInvHolds, PTL

\* Each step of the allocator is one of the pool, or none.
LEMMA PoolStep ==
    ASSUME AInv, ResizeCarefully, [Next]_vars
    PROVE  [Pool!PoolNext]_Pool!poolVars
<1>1. CASE AllocChunk
  <2>1. /\ found' = Got /\ found' # NONE
        /\ owned' = owned \union {found'}
        /\ UNCHANGED <<chunks, bitmaps, base, journalBase>>
    BY <1>1 DEF AllocChunk, space, Got, Near
  <2>2. UNCHANGED Reserved
    BY <2>1 DEF Reserved
  <2>3. found' \in Span(0, chunks) \ (Reserved \union owned)
    BY <2>1, GotRight
  <2>4. Span(0, chunks) = Pool!Store
    <3>1. chunks \in Nat
      BY LayoutTypes DEF AInv
    <3> QED
      BY <3>1 DEF Span, Pool!Store
  <2>5. Pool!GiveOut
    BY <2>1, <2>2, <2>3, <2>4 DEF Pool!GiveOut
  <2> QED
    BY <2>5 DEF Pool!PoolNext
<1>2. CASE AllocFails
  <2>1. /\ Got = NONE /\ found' = NONE
        /\ UNCHANGED <<chunks, bitmaps, base, journalBase, owned>>
    BY <1>2 DEF AllocFails, space, Got, Near
  <2>2. UNCHANGED Reserved
    BY <2>1 DEF Reserved
  <2>3. Span(0, chunks) = Reserved \union owned
    BY <2>1, GotRight
  <2>4. Span(0, chunks) = Pool!Store
    <3>1. chunks \in Nat
      BY LayoutTypes DEF AInv
    <3> QED
      BY <3>1 DEF Span, Pool!Store
  <2>5. Pool!RunOut
    BY <2>1, <2>2, <2>3, <2>4 DEF Pool!RunOut, Pool!NONE, NONE
  <2> QED
    BY <2>5 DEF Pool!PoolNext
<1>3. ASSUME NEW c \in owned, FreeChunk(c)
      PROVE  Pool!PoolNext
  <2>1. owned' = owned \ {c} /\ UNCHANGED <<chunks, bitmaps, base, journalBase, found>>
    BY <1>3 DEF FreeChunk, space
  <2>2. UNCHANGED Reserved
    BY <2>1 DEF Reserved
  <2>3. Pool!TakeBack(c)
    BY <2>1, <2>2 DEF Pool!TakeBack
  <2> QED
    BY <1>3, <2>3 DEF Pool!PoolNext
<1>4. ASSUME NEW n \in Sizes, Resize(n) \/ StartServer(n)
      PROVE  Pool!PoolNext
  <2>1. UNCHANGED <<owned, found>>
    BY <1>4 DEF Resize, StartServer
  <2>2. Layout' /\ Placed'
    BY <1>4, ResizeKeeps, StartKeeps DEF AInv
  <2>3. chunks' \in Nat /\ Reserved' \subseteq Span(0, chunks')
    BY <2>2, LayoutTypesNext
  <2>4. owned' \subseteq Span(0, chunks') \ Reserved'
    BY <2>2 DEF Placed
  <2>5. Span(0, chunks') = Pool!Store'
    BY <2>3 DEF Span, Pool!Store
  <2>6. Pool!ChangeSize
    BY <2>1, <2>3, <2>4, <2>5 DEF Pool!ChangeSize
  <2> QED
    BY <2>6 DEF Pool!PoolNext
<1>5. CASE UNCHANGED vars
  BY <1>5 DEF vars, Pool!poolVars, Reserved
<1> QED
  BY <1>1, <1>2, <1>3, <1>4, <1>5 DEF Next

\* The allocator keeps what it promises the tree and the snapshots: it gives
\* out a chunk of the store that nobody has, it says there is none only when
\* every chunk is taken, wherever the last one was found and wherever the bytes
\* and blocks of the bitmap end, and a change of size takes no chunk from its
\* owner.
THEOREM AllocatorImplementsPool ==
    ASSUME ResizeCarefully
    PROVE  Spec => ImplementsPool
<1>1. Init => Pool!PoolInit
  <2> SUFFICES ASSUME Init
               PROVE  Pool!PoolInit
    OBVIOUS
  <2>1. chunks \in Nat /\ Reserved \subseteq Span(0, chunks)
    BY InitAInv, LayoutTypes DEF AInv
  <2>2. Span(0, chunks) = Pool!Store
    BY <2>1 DEF Span, Pool!Store
  <2> QED
    BY <2>1, <2>2 DEF Init, Pool!PoolInit, Pool!NONE, NONE
<1>2. AInv /\ [Next]_vars => [Pool!PoolNext]_Pool!poolVars
  BY PoolStep
<1> QED
  BY <1>1, <1>2, AInvHolds, PTL DEF Spec, ImplementsPool, Pool!PoolSpec
==============================================================================
