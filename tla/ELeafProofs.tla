----------------------------- MODULE ELeafProofs -----------------------------
(***************************************************************************)
(* Lemmas about the leaves of the exception tree, for any numbers of       *)
(* chunks, snapshots and exceptions.                                       *)
(*                                                                         *)
(* A leaf is described in two ways. By where each entry's exceptions       *)
(* begin: then an operation is what it does to the set of the chunks of    *)
(* the store, which is all that the accounting of ETreeProofs needs. And   *)
(* with an owner for each exception: then an operation is what it does to  *)
(* the exceptions of each chunk, and it keeps the directory in the order   *)
(* of the chunks, which ETreeOrderProofs builds on.                        *)
(***************************************************************************)
EXTENDS ETree, SequenceTheorems, FiniteSetTheorems, WellFoundedInduction, TLAPS

-----------------------------------------------------------------------------
(* Lists: what becomes of one when an entry is put in or removed. *)

\* Removing position i shifts the later entries down by one: the memmove of
\* delete_snap.
LEMMA RemoveAtProperties ==
    ASSUME NEW S, NEW s \in Seq(S), NEW i \in DOMAIN s
    PROVE  /\ RemoveAt(s, i) \in Seq(S)
           /\ Len(RemoveAt(s, i)) = Len(s) - 1
           /\ \A j \in 1 .. Len(s) - 1 :
                RemoveAt(s, i)[j] = IF j < i THEN s[j] ELSE s[j + 1]
<1> DEFINE front == SubSeq(s, 1, i - 1)
           back  == SubSeq(s, i + 1, Len(s))
<1>1. i \in 1 .. Len(s) /\ Len(s) \in Nat
  OBVIOUS
<1>2. /\ front \in Seq(S)
      /\ Len(front) = i - 1
      /\ \A j \in 1 .. i - 1 : front[j] = s[j]
  BY <1>1, SubSeqProperties
<1>3. /\ back \in Seq(S)
      /\ Len(back) = Len(s) - i
      /\ \A j \in 1 .. Len(s) - i : back[j] = s[i + j]
  BY <1>1, SubSeqProperties
<1>4. RemoveAt(s, i) = front \o back
  BY DEF RemoveAt
<1> HIDE DEF front, back
<1> DEFINE both == front \o back
<1>5. both \in Seq(S) /\ Len(both) = Len(s) - 1
  <2>1. Len(both) = Len(front) + Len(back)
    BY <1>2, <1>3, ConcatProperties
  <2>2. both \in Seq(S)
    BY <1>2, <1>3, ConcatProperties
  <2> HIDE DEF both
  <2> QED
    BY <1>1, <1>2, <1>3, <2>1, <2>2
<1>6. \A j \in 1 .. Len(front) + Len(back) :
        both[j] = IF j <= Len(front) THEN front[j] ELSE back[j - Len(front)]
  BY <1>2, <1>3, ConcatProperties
<1>7. ASSUME NEW j \in 1 .. Len(s) - 1
      PROVE  both[j] = IF j < i THEN s[j] ELSE s[j + 1]
  <2> HIDE DEF both
  <2>1. CASE j < i
    <3>1. j \in 1 .. i - 1 /\ j <= Len(front) /\ j \in 1 .. Len(front) + Len(back)
      BY <1>1, <1>2, <1>3, <2>1
    <3>2. both[j] = front[j]
      BY <1>6, <3>1
    <3> QED
      BY <1>2, <2>1, <3>1, <3>2
  <2>2. CASE ~(j < i)
    <3>1. j - (i - 1) \in 1 .. Len(s) - i
      BY <1>1, <2>2
    <3>2. back[j - (i - 1)] = s[i + (j - (i - 1))]
      BY <1>3, <3>1
    <3>3. i + (j - (i - 1)) = j + 1
      BY <1>1
    <3>4. j \in 1 .. Len(front) + Len(back) /\ ~(j <= Len(front))
      BY <1>1, <1>2, <1>3, <2>2
    <3>5. both[j] = back[j - Len(front)]
      BY <1>6, <3>4
    <3> QED
      BY <1>2, <2>2, <3>2, <3>3, <3>5
  <2> QED
    BY <2>1, <2>2
<1> QED
  BY <1>4, <1>5, <1>7

\* Putting an entry in at position i shifts the later entries up by one: the
\* insertion into a leaf's directory and into an index node.
LEMMA InsertAtProperties ==
    ASSUME NEW S, NEW s \in Seq(S), NEW i \in 1 .. Len(s) + 1, NEW e \in S
    PROVE  /\ InsertAt(s, i, e) \in Seq(S)
           /\ Len(InsertAt(s, i, e)) = Len(s) + 1
           /\ \A j \in 1 .. Len(s) + 1 :
                InsertAt(s, i, e)[j] = IF j < i THEN s[j] ELSE IF j = i THEN e ELSE s[j - 1]
<1> DEFINE front == SubSeq(s, 1, i - 1)
           mid   == front \o <<e>>
           back  == SubSeq(s, i, Len(s))
<1>1. i \in Nat /\ 1 <= i /\ i <= Len(s) + 1 /\ Len(s) \in Nat
  OBVIOUS
<1>2. /\ front \in Seq(S)
      /\ Len(front) = i - 1
      /\ \A j \in 1 .. i - 1 : front[j] = s[j]
  BY <1>1, SubSeqProperties
<1>3. /\ back \in Seq(S)
      /\ Len(back) = Len(s) + 1 - i
      /\ \A j \in 1 .. Len(s) + 1 - i : back[j] = s[i + j - 1]
  <2>1. CASE i <= Len(s)
    BY <1>1, <2>1, SubSeqProperties
  <2>2. CASE i = Len(s) + 1
    BY <1>1, <2>2, SubSeqProperties
  <2> QED
    BY <1>1, <2>1, <2>2
<1>4. InsertAt(s, i, e) = mid \o back
  BY DEF InsertAt
<1>5. <<e>> \in Seq(S) /\ Len(<<e>>) = 1 /\ <<e>>[1] = e
  OBVIOUS
<1> HIDE DEF front, back
<1>6. /\ mid \in Seq(S) /\ Len(mid) = i
      /\ \A j \in 1 .. i - 1 : mid[j] = s[j]
      /\ mid[i] = e
  <2>1. /\ mid \in Seq(S) /\ Len(mid) = Len(front) + 1
        /\ \A j \in 1 .. Len(front) + 1 :
             mid[j] = IF j <= Len(front) THEN front[j] ELSE <<e>>[j - Len(front)]
    BY <1>2, <1>5, ConcatProperties
  <2> HIDE DEF mid
  <2>2. \A j \in 1 .. i - 1 : mid[j] = s[j]
    BY <1>1, <1>2, <2>1
  <2>3. i \in 1 .. Len(front) + 1 /\ ~(i <= Len(front)) /\ i - Len(front) = 1
    BY <1>1, <1>2
  <2>4. mid[i] = <<e>>[1]
    BY <2>1, <2>3
  <2> QED
    BY <1>1, <1>2, <1>5, <2>1, <2>2, <2>4
<1> HIDE DEF mid
<1> DEFINE all == mid \o back
<1>7. /\ all \in Seq(S) /\ Len(all) = Len(mid) + Len(back)
      /\ \A j \in 1 .. Len(mid) + Len(back) :
           all[j] = IF j <= Len(mid) THEN mid[j] ELSE back[j - Len(mid)]
  BY <1>3, <1>6, ConcatProperties
<1> HIDE DEF all
<1>8. Len(all) = Len(s) + 1
  BY <1>1, <1>3, <1>6, <1>7
<1>9. ASSUME NEW j \in 1 .. Len(s) + 1
      PROVE  all[j] = IF j < i THEN s[j] ELSE IF j = i THEN e ELSE s[j - 1]
  <2>1. all[j] = IF j <= i THEN mid[j] ELSE back[j - i]
    BY <1>1, <1>3, <1>6, <1>7
  <2>2. CASE j <= i
    BY <1>1, <1>6, <2>1, <2>2
  <2>3. CASE ~(j <= i)
    <3>1. j - i \in 1 .. Len(s) + 1 - i /\ i + (j - i) - 1 = j - 1
      BY <1>1, <2>3
    <3>2. back[j - i] = s[i + (j - i) - 1]
      BY <1>3, <3>1
    <3> QED
      BY <1>1, <2>1, <2>3, <3>1, <3>2
  <2> QED
    BY <2>2, <2>3
<1> QED
  BY <1>4, <1>7, <1>8, <1>9 DEF all

\* List r is s with e at position i.
Inserted(s, i, e, r) ==
    /\ Len(r) = Len(s) + 1
    /\ \A j \in 1 .. Len(s) + 1 :
          r[j] = IF j < i THEN s[j] ELSE IF j = i THEN e ELSE s[j - 1]

\* Putting in gives such a list.
LEMMA InsertAtIs ==
    ASSUME NEW S, NEW s, s \in Seq(S), NEW i, i \in 1 .. Len(s) + 1, NEW e, e \in S
    PROVE  InsertAt(s, i, e) \in Seq(S) /\ Inserted(s, i, e, InsertAt(s, i, e))
  BY InsertAtProperties DEF Inserted

\* Putting in behind the last entry is appending.
LEMMA InsertAtEnd ==
    ASSUME NEW S, NEW s \in Seq(S), NEW e \in S
    PROVE  InsertAt(s, Len(s) + 1, e) = Append(s, e)
<1> DEFINE q == InsertAt(s, Len(s) + 1, e)
<1>1. Len(s) \in Nat /\ Len(s) + 1 \in 1 .. Len(s) + 1
  OBVIOUS
<1>2. /\ q \in Seq(S) /\ Len(q) = Len(s) + 1
      /\ \A j \in 1 .. Len(s) + 1 :
           q[j] = IF j < Len(s) + 1 THEN s[j] ELSE IF j = Len(s) + 1 THEN e ELSE s[j - 1]
  <2> DEFINE i == Len(s) + 1
  <2>1. i \in 1 .. Len(s) + 1
    BY <1>1
  <2> HIDE DEF i
  <2>2. /\ InsertAt(s, i, e) \in Seq(S) /\ Len(InsertAt(s, i, e)) = Len(s) + 1
        /\ \A j \in 1 .. Len(s) + 1 :
             InsertAt(s, i, e)[j] = IF j < i THEN s[j] ELSE IF j = i THEN e ELSE s[j - 1]
    BY ONLY <2>1, s \in Seq(S), e \in S, InsertAtProperties
  <2> QED
    BY ONLY <2>2 DEF i
<1> HIDE DEF q
<1>3. Append(s, e) \in Seq(S) /\ Len(Append(s, e)) = Len(s) + 1
  OBVIOUS
<1>4. \A j \in 1 .. Len(s) + 1 : q[j] = Append(s, e)[j]
  <2>1. \A j \in 1 .. Len(s) + 1 : Append(s, e)[j] = IF j < Len(s) + 1 THEN s[j] ELSE e
    <3> TAKE j \in 1 .. Len(s) + 1
    <3>1. CASE j < Len(s) + 1
      <4>1. j \in 1 .. Len(s) /\ j # Len(s) + 1
        BY ONLY <1>1, <3>1, j \in 1 .. Len(s) + 1
      <4> QED
        BY ONLY <4>1, <3>1, s \in Seq(S), e \in S
    <3>2. CASE ~(j < Len(s) + 1)
      <4>1. j = Len(s) + 1
        BY ONLY <1>1, <3>2, j \in 1 .. Len(s) + 1
      <4> QED
        BY ONLY <4>1, <3>2, s \in Seq(S), e \in S
    <3> QED
      BY ONLY <3>1, <3>2
  <2>2. \A j \in 1 .. Len(s) + 1 : ~(j < Len(s) + 1) => j = Len(s) + 1
    BY ONLY <1>1
  <2> QED
    BY ONLY <1>2, <2>1, <2>2
<1>5. q = Append(s, e)
  BY <1>2, <1>3, <1>4, SeqEqual
<1> QED
  BY <1>5 DEF q

\* A list of one entry with another behind it.
LEMMA AppendSecond ==
    ASSUME NEW S, NEW e \in S, NEW f \in S
    PROVE  Append(<<e>>, f) = <<e, f>>
<1> DEFINE q == Append(<<e>>, f)
           r == <<e, f>>
<1>1. <<e>> \in Seq(S) /\ Len(<<e>>) = 1 /\ <<e>>[1] = e
  OBVIOUS
<1>2. q \in Seq(S) /\ Len(q) = 2 /\ q[1] = e /\ q[2] = f
  BY <1>1, AppendProperties
<1>3. r \in Seq(S) /\ Len(r) = 2 /\ r[1] = e /\ r[2] = f
  OBVIOUS
<1> HIDE DEF q, r
<1>4. \A i \in 1 .. 2 : q[i] = r[i]
  BY <1>2, <1>3
<1>5. q = r
  BY <1>2, <1>3, <1>4, SeqEqual
<1> QED
  BY <1>5 DEF q, r

\* Two lists one behind the other.
LEMMA ConcatAt ==
    ASSUME NEW S, NEW s \in Seq(S), NEW t \in Seq(S), NEW c, c = s \o t,
           NEW m, m = Len(s), NEW n, n = Len(t)
    PROVE  /\ c \in Seq(S) /\ Len(c) = m + n
           /\ \A i \in 1 .. m + n : c[i] = IF i <= m THEN s[i] ELSE t[i - m]
  BY ConcatProperties

\* A set of naturals has a least element.
LEMMA LeastNat ==
    ASSUME NEW S \in SUBSET Nat, S # {}
    PROVE  \E m \in S : \A x \in S : m <= x
<1> DEFINE below == OpToRel(<, Nat)
<1>1. IsWellFoundedOn(below, Nat)
  BY NatLessThanWellFounded
<1>2. \A x, y \in Nat : y < x => <<y, x>> \in below
  BY DEF OpToRel
<1> HIDE DEF below
<1>3. PICK x \in S : \A y \in S : ~(<<y, x>> \in below)
  BY <1>1, WFMin
<1>4. \A y \in S : ~(y < x)
  BY <1>2, <1>3, Zenon
<1>5. \A y \in S : y \in Nat /\ x \in Nat
  OBVIOUS
<1> QED
  BY <1>4, <1>5

\* A bounded one has a greatest.
LEMMA GreatestNat ==
    ASSUME NEW n \in Nat, NEW S \in SUBSET (0 .. n), S # {}
    PROVE  \E m \in S : \A x \in S : x <= m
<1> DEFINE T == {n - x : x \in S}
<1>1. T \in SUBSET Nat /\ T # {}
  <2>1. \A x \in S : n - x \in Nat
    OBVIOUS
  <2>2. PICK x \in S : TRUE
    OBVIOUS
  <2>3. n - x \in T
    OBVIOUS
  <2> QED
    BY <2>1, <2>3
<1> HIDE DEF T
<1>2. PICK t \in T : \A y \in T : t <= y
  BY <1>1, LeastNat
<1>3. PICK m \in S : t = n - m
  BY DEF T
<1>4. \A x \in S : n - m <= n - x /\ x \in Nat /\ m \in Nat
  BY <1>2, <1>3 DEF T
<1> QED
  BY <1>4

\* Induction on the naturals, for a set of them.
LEMMA NatInduct ==
    ASSUME NEW Good, 0 \in Good, \A n \in Nat : n \in Good => n + 1 \in Good
    PROVE  \A n \in Nat : n \in Good
<1> DEFINE bad == Nat \ Good
<1> SUFFICES ASSUME bad # {}
             PROVE  FALSE
  OBVIOUS
<1>1. PICK m \in bad : \A x \in bad : m <= x
  <2>1. bad \in SUBSET Nat
    OBVIOUS
  <2> HIDE DEF bad
  <2> QED
    BY <2>1, LeastNat
<1>2. m \in Nat /\ m # 0 /\ m \notin Good
  OBVIOUS
<1>3. m - 1 \in Nat /\ (m - 1) + 1 = m /\ ~(m <= m - 1)
  BY <1>2
<1>4. m - 1 \in Good
  BY <1>1, <1>3
<1> QED
  BY <1>2, <1>3, <1>4

\* A function on 1 .. n is a list of length n.
LEMMA FunctionIsList ==
    ASSUME NEW S, NEW n \in Nat, NEW f, f \in [1 .. n -> S]
    PROVE  f \in Seq(S) /\ Len(f) = n
<1>1. f \in Seq(S)
  BY SeqDef
<1>2. Len(f) \in Nat /\ 1 .. Len(f) = 1 .. n
  BY <1>1, LenProperties
<1> QED
  BY <1>1, <1>2

\* The tail of a list given as a function.
LEMMA TailIs ==
    ASSUME NEW S, NEW n, NEW f, f \in [1 .. n -> S], NEW m, m \in Nat, n = m + 1
    PROVE  Tail(f) \in [1 .. m -> S] /\ \A k \in 1 .. m : Tail(f)[k] = f[k + 1]
<1> DEFINE g == Tail(f)
<1>1. f \in Seq(S) /\ Len(f) = n /\ f # <<>>
  <2>1. n \in Nat
    OBVIOUS
  <2> QED
    BY <2>1, FunctionIsList
<1>2. g \in Seq(S) /\ Len(g) = m /\ \A k \in 1 .. m : g[k] = f[k + 1]
  BY <1>1
<1>3. g \in [1 .. Len(g) -> S]
  BY <1>2, LenProperties
<1> QED
  BY <1>2, <1>3

-----------------------------------------------------------------------------
(* Leaves. *)

\* An entry of a leaf's directory.
MapEntry == [offset : Int, rchunk : Int]

\* The entries of a directory begin at the positions q of an area of n
\* exceptions: in order, the first at its start and the last at its end.
Placed(map, n, q) ==
    /\ n \in Nat
    /\ q \in [1 .. Len(map) -> 1 .. n + 1]
    /\ \A i \in 1 .. Len(map) : map[i].offset = LeafSize - EXC * ((n + 1) - q[i])
    /\ \A i, j \in 1 .. Len(map) : i <= j => q[i] <= q[j]
    /\ q[1] = 1 /\ q[Len(map)] = n + 1

\* A directory has at least the entry at its end.
Directory(map) == map \in Seq(MapEntry) /\ Len(map) \in Nat \ {0}

\* A leaf whose directory fits its exceptions.
Shaped(l) ==
    /\ l = [map |-> l.map, area |-> l.area]
    /\ Directory(l.map)
    /\ l.area \in Seq(Exception)
    /\ \E q : Placed(l.map, Len(l.area), q)

\* emap finds the positions.
LEMMA EMapIs ==
    ASSUME NEW l, Shaped(l), NEW q, Placed(l.map, Len(l.area), q)
    PROVE  /\ \A i \in 1 .. Len(l.map) : EMap(l, i) = q[i]
           /\ Count(l) = Len(l.map) - 1 /\ Count(l) \in Nat /\ Count(l) + 1 = Len(l.map)
<1>1. Count(l) = Len(l.map) - 1 /\ Count(l) \in Nat /\ Count(l) + 1 = Len(l.map)
  BY DEF Shaped, Directory, Count
<1>2. ASSUME NEW i \in 1 .. Len(l.map)
      PROVE  EMap(l, i) = q[i]
  <2> DEFINE n == Len(l.area)
             p == q[i]
  <2>1. n \in Nat /\ p \in 1 .. n + 1 /\ l.map[i].offset = LeafSize - EXC * ((n + 1) - p)
    BY DEF Placed
  <2>2. LeafSize \in Nat
    BY LeafAssumption
  <2>3. EMap(l, i) = n + 1 - (LeafSize - l.map[i].offset) \div EXC
    BY DEF EMap
  <2> HIDE DEF n, p
  <2>4. LeafSize - l.map[i].offset = 2 * ((n + 1) - p)
    BY <2>1, <2>2 DEF EXC
  <2>5. (2 * ((n + 1) - p)) \div 2 = (n + 1) - p
    BY <2>1
  <2>6. EMap(l, i) = n + 1 - ((n + 1) - p)
    BY <2>3, <2>4, <2>5 DEF EXC
  <2>7. EMap(l, i) = p
    BY <2>1, <2>6
  <2> QED
    BY <2>7 DEF p
<1> QED
  BY <1>1, <1>2

\* The offsets of the first entries are changed by a number.
LEMMA ShiftIs ==
    ASSUME NEW map, Directory(map), NEW n, NEW by \in Int,
           NEW map2, map2 = Shift(map, n, by)
    PROVE  /\ Directory(map2) /\ Len(map2) = Len(map)
           /\ \A j \in 1 .. Len(map) :
                 map2[j].offset = IF j <= n THEN map[j].offset + by ELSE map[j].offset
<1>1. map \in [1 .. Len(map) -> MapEntry] /\ DOMAIN map = 1 .. Len(map) /\ Len(map) \in Nat \ {0}
  BY LenProperties DEF Directory
<1>2. map2 = [j \in 1 .. Len(map) |-> IF j <= n THEN [map[j] EXCEPT !.offset = @ + by] ELSE map[j]]
  BY <1>1 DEF Shift
<1>3. ASSUME NEW j \in 1 .. Len(map)
      PROVE  /\ map2[j] \in MapEntry
             /\ map2[j].offset = IF j <= n THEN map[j].offset + by ELSE map[j].offset
  <2>1. map[j] \in [offset : Int, rchunk : Int]
    BY <1>1 DEF MapEntry
  <2> DEFINE e == map[j]
  <2>2. e \in [offset : Int, rchunk : Int]
    BY <2>1
  <2>3. map2[j] = IF j <= n THEN [e EXCEPT !.offset = @ + by] ELSE e
    BY <1>2
  <2> HIDE DEF e
  <2>4. /\ [e EXCEPT !.offset = @ + by] \in [offset : Int, rchunk : Int]
        /\ [e EXCEPT !.offset = @ + by].offset = e.offset + by
    BY <2>2
  <2>5. /\ map2[j] \in [offset : Int, rchunk : Int]
        /\ map2[j].offset = IF j <= n THEN e.offset + by ELSE e.offset
    BY <2>2, <2>3, <2>4
  <2> QED
    BY <2>5 DEF e, MapEntry
<1>4. map2 \in [1 .. Len(map) -> MapEntry]
  BY <1>2, <1>3
<1>5. map2 \in Seq(MapEntry) /\ Len(map2) = Len(map)
  BY <1>1, <1>4, FunctionIsList
<1> QED
  BY <1>1, <1>3, <1>5 DEF Directory

\* A new exception goes in at the position of entry i.
LEMMA RoomMade ==
    ASSUME NEW map, Directory(map), NEW n, NEW q, Placed(map, n, q),
           NEW i, i \in 1 .. Len(map) - 1,
           NEW map2, map2 = Shift(map, i, -EXC)
    PROVE  Directory(map2) /\ \E q2 : Placed(map2, n + 1, q2)
<1> DEFINE len == Len(map)
           q2 == [j \in 1 .. len |-> IF j <= i THEN q[j] ELSE q[j] + 1]
<1>1. /\ len \in Nat \ {0} /\ n \in Nat /\ q \in [1 .. len -> 1 .. n + 1]
      /\ \A j \in 1 .. len : map[j].offset = LeafSize - EXC * ((n + 1) - q[j])
      /\ \A j, k \in 1 .. len : j <= k => q[j] <= q[k]
      /\ q[1] = 1 /\ q[len] = n + 1
  BY DEF Placed, Directory
<1>2. /\ Directory(map2) /\ Len(map2) = len
      /\ \A j \in 1 .. len :
            map2[j].offset = IF j <= i THEN map[j].offset + (-EXC) ELSE map[j].offset
  <2>1. -EXC \in Int
    BY DEF EXC
  <2> QED
    BY <2>1, ShiftIs
<1>3. i \in Nat /\ 1 <= i /\ ~(len <= i) /\ 1 \in 1 .. len /\ len \in 1 .. len
  BY <1>1
<1> HIDE DEF len
<1>4. \A j \in 1 .. len : q[j] \in 1 .. n + 1 /\ q2[j] = IF j <= i THEN q[j] ELSE q[j] + 1
  BY <1>1
<1>5. q2 \in [1 .. len -> 1 .. (n + 1) + 1]
  <2>1. \A j \in 1 .. len : q[j] \in 1 .. (n + 1) + 1 /\ q[j] + 1 \in 1 .. (n + 1) + 1
    <3>1. \A r \in 1 .. n + 1 : r \in 1 .. (n + 1) + 1 /\ r + 1 \in 1 .. (n + 1) + 1
      BY <1>1
    <3> QED
      BY <1>1, <3>1
  <2> QED
    BY <2>1
<1> HIDE DEF q2
<1>6. ASSUME NEW j \in 1 .. len
      PROVE  map2[j].offset = LeafSize - EXC * (((n + 1) + 1) - q2[j])
  <2>1. q[j] \in 1 .. n + 1 /\ map[j].offset = LeafSize - 2 * ((n + 1) - q[j])
    BY <1>1 DEF EXC
  <2>2. map2[j].offset = IF j <= i THEN map[j].offset + (-2) ELSE map[j].offset
    BY <1>2 DEF EXC
  <2>3. q2[j] = IF j <= i THEN q[j] ELSE q[j] + 1
    BY <1>4
  <2>4. LeafSize \in Nat
    BY LeafAssumption
  <2>5. n \in Nat
    BY <1>1
  <2>6. CASE j <= i
    <3>1. map2[j].offset = map[j].offset + (-2) /\ q2[j] = q[j]
      BY <2>2, <2>3, <2>6
    <3> DEFINE p == q[j]
    <3>2. p \in 1 .. n + 1 /\ q2[j] = p /\ map2[j].offset = LeafSize - 2 * ((n + 1) - p) + (-2)
      BY <2>1, <3>1
    <3> HIDE DEF p
    <3>3. LeafSize - 2 * ((n + 1) - p) + (-2) = LeafSize - 2 * (((n + 1) + 1) - p)
      BY <2>4, <2>5, <3>2
    <3> QED
      BY <3>2, <3>3 DEF EXC
  <2>7. CASE ~(j <= i)
    <3>1. map2[j].offset = map[j].offset /\ q2[j] = q[j] + 1
      BY <2>2, <2>3, <2>7
    <3> DEFINE p == q[j]
    <3>2. p \in 1 .. n + 1 /\ q2[j] = p + 1 /\ map2[j].offset = LeafSize - 2 * ((n + 1) - p)
      BY <2>1, <3>1
    <3> HIDE DEF p
    <3>3. LeafSize - 2 * ((n + 1) - p) = LeafSize - 2 * (((n + 1) + 1) - (p + 1))
      BY <2>4, <2>5, <3>2
    <3> QED
      BY <3>2, <3>3 DEF EXC
  <2> QED
    BY <2>6, <2>7
<1>7. \A j, k \in 1 .. len : j <= k => q2[j] <= q2[k]
  <2> SUFFICES ASSUME NEW j \in 1 .. len, NEW k \in 1 .. len, j <= k
               PROVE  q2[j] <= q2[k]
    OBVIOUS
  <2>1. q[j] <= q[k]
    BY <1>1
  <2>2. q[j] \in Nat /\ q[k] \in Nat
    BY <1>1, <1>4
  <2>3. j \in Nat /\ k \in Nat /\ i \in Nat
    BY <1>1, <1>3
  <2>4. k <= i => j <= i
    BY <2>3
  <2> QED
    BY <1>4, <2>1, <2>2, <2>4
<1>8. q2[1] = 1 /\ q2[len] = (n + 1) + 1
  BY <1>1, <1>3, <1>4
<1> DEFINE n2 == n + 1
<1>9. Placed(map2, n2, q2)
  <2>1. n2 \in Nat
    BY <1>1
  <2> QED
    BY <1>2, <1>5, <1>6, <1>7, <1>8, <2>1 DEF Placed
<1> QED
  BY <1>2, <1>9

\* A new entry goes in front of entry i, at its position.
LEMMA EntryPutIn ==
    ASSUME NEW map, Directory(map), NEW n, NEW q, Placed(map, n, q),
           NEW i, i \in 1 .. Len(map), NEW e, e \in MapEntry, e.offset = map[i].offset,
           NEW map2, map2 = InsertAt(map, i, e)
    PROVE  /\ Directory(map2) /\ Len(map2) = Len(map) + 1
           /\ \E q2 : Placed(map2, n, q2)
<1> DEFINE len == Len(map)
           q2 == [j \in 1 .. len + 1 |-> IF j <= i THEN q[j] ELSE q[j - 1]]
<1>1. /\ len \in Nat \ {0} /\ n \in Nat /\ q \in [1 .. len -> 1 .. n + 1]
      /\ \A j \in 1 .. len : map[j].offset = LeafSize - EXC * ((n + 1) - q[j])
      /\ \A j, k \in 1 .. len : j <= k => q[j] <= q[k]
      /\ q[1] = 1 /\ q[len] = n + 1
      /\ map \in Seq(MapEntry) /\ i \in 1 .. len
  BY DEF Placed, Directory
<1>2. /\ map2 \in Seq(MapEntry) /\ Len(map2) = len + 1
      /\ \A j \in 1 .. len + 1 :
            map2[j] = IF j < i THEN map[j] ELSE IF j = i THEN e ELSE map[j - 1]
  <2>1. i \in 1 .. Len(map) + 1 /\ map \in Seq(MapEntry)
    BY <1>1
  <2>2. map2 \in Seq(MapEntry) /\ Inserted(map, i, e, map2)
    BY <2>1, InsertAtIs
  <2> QED
    BY <2>2 DEF Inserted
<1>3. Directory(map2)
  BY <1>1, <1>2 DEF Directory
<1> HIDE DEF len
<1>4. \A j \in 1 .. len + 1 : /\ j <= i => j \in 1 .. len
                              /\ ~(j <= i) => j - 1 \in 1 .. len
                              /\ j < i => j <= i
                              /\ j = i => j <= i
  BY <1>1
<1>5. \A j \in 1 .. len + 1 : q2[j] = IF j <= i THEN q[j] ELSE q[j - 1]
  OBVIOUS
<1>6. q2 \in [1 .. len + 1 -> 1 .. n + 1]
  BY <1>1, <1>4
<1> HIDE DEF q2
<1>7. ASSUME NEW j \in 1 .. len + 1
      PROVE  map2[j].offset = LeafSize - EXC * ((n + 1) - q2[j])
  <2>1. CASE j < i
    BY <1>1, <1>2, <1>4, <1>5, <2>1
  <2>2. CASE j = i
    BY <1>1, <1>2, <1>4, <1>5, <2>2
  <2>3. CASE ~(j <= i)
    <3>1. map2[j] = map[j - 1] /\ q2[j] = q[j - 1] /\ j - 1 \in 1 .. len
      BY <1>1, <1>2, <1>4, <1>5, <2>3
    <3> QED
      BY <1>1, <3>1
  <2> QED
    BY <1>1, <2>1, <2>2, <2>3
<1>8. \A j, k \in 1 .. len + 1 : j <= k => q2[j] <= q2[k]
  <2> SUFFICES ASSUME NEW j \in 1 .. len + 1, NEW k \in 1 .. len + 1, j <= k
               PROVE  q2[j] <= q2[k]
    OBVIOUS
  <2>1. CASE k <= i
    <3>1. j <= i /\ j \in 1 .. len /\ k \in 1 .. len
      BY <1>1, <1>4, <2>1
    <3> QED
      BY <1>1, <1>5, <2>1, <3>1
  <2>2. CASE j <= i /\ ~(k <= i)
    <3>1. j \in 1 .. len /\ k - 1 \in 1 .. len /\ j <= k - 1
      BY <1>1, <1>4, <2>2
    <3> QED
      BY <1>1, <1>5, <2>2, <3>1
  <2>3. CASE ~(j <= i)
    <3>1. j - 1 \in 1 .. len /\ k - 1 \in 1 .. len /\ j - 1 <= k - 1 /\ ~(k <= i)
      BY <1>1, <1>4, <2>3
    <3> QED
      BY <1>1, <1>5, <2>3, <3>1
  <2> QED
    BY <2>1, <2>2, <2>3
<1>9. q2[1] = 1 /\ q2[len + 1] = n + 1
  <2>1. 1 <= i /\ 1 \in 1 .. len + 1 /\ len + 1 \in 1 .. len + 1 /\ ~(len + 1 <= i) /\ (len + 1) - 1 = len
    BY <1>1
  <2> QED
    BY <1>1, <1>5, <2>1
<1>10. Placed(map2, n, q2)
  BY <1>1, <1>2, <1>6, <1>7, <1>8, <1>9 DEF Placed
<1> QED
  BY <1>2, <1>3, <1>10 DEF len

\* The chunks of the store that the exceptions of an area have.
ChunkSet(area) == {area[k].chunk : k \in 1 .. Len(area)}

\* No two exceptions have the same chunk of the store.
Distinct(area) == \A j, k \in 1 .. Len(area) : area[j].chunk = area[k].chunk => j = k

\* The exceptions have the same chunks.
SameChunks(area, area2) ==
    Len(area2) = Len(area) /\ \A k \in 1 .. Len(area) : area2[k].chunk = area[k].chunk

\* There is one exception more, with a chunk of its own if the others have none
\* of that.
OneMore(area, area2, new) ==
    /\ Len(area2) = Len(area) + 1
    /\ ChunkSet(area2) = ChunkSet(area) \union {new}
    /\ Distinct(area) /\ new \notin ChunkSet(area) => Distinct(area2)

\* One exception more in an area.
LEMMA ChunksPutIn ==
    ASSUME NEW area, area \in Seq(Exception), NEW area1, area1 \in Seq(Exception),
           SameChunks(area, area1),
           NEW p, p \in 1 .. Len(area) + 1, NEW e, e \in Exception,
           NEW area2, area2 = InsertAt(area1, p, e)
    PROVE  area2 \in Seq(Exception) /\ OneMore(area, area2, e.chunk)
<1> DEFINE n == Len(area)
<1>1. n \in Nat /\ p \in 1 .. n + 1
  OBVIOUS
<1>2. /\ area2 \in Seq(Exception) /\ Len(area2) = n + 1
      /\ \A j \in 1 .. n + 1 :
            area2[j] = IF j < p THEN area1[j] ELSE IF j = p THEN e ELSE area1[j - 1]
  <2>1. Len(area1) = n /\ p \in 1 .. Len(area1) + 1
    BY <1>1 DEF SameChunks
  <2>2. area2 \in Seq(Exception) /\ Inserted(area1, p, e, area2)
    BY <2>1, InsertAtIs
  <2> QED
    BY <2>1, <2>2 DEF Inserted
<1>3. \A k \in 1 .. n : area1[k].chunk = area[k].chunk
  BY DEF SameChunks
<1> HIDE DEF n
<1>4. ASSUME NEW j \in 1 .. n + 1
      PROVE  /\ j < p => j \in 1 .. n /\ area2[j].chunk = area[j].chunk
             /\ j = p => area2[j].chunk = e.chunk
             /\ j > p => j - 1 \in 1 .. n /\ area2[j].chunk = area[j - 1].chunk
  <2>1. j \in Nat /\ p \in Nat /\ (j < p => j \in 1 .. n) /\ (j > p => j - 1 \in 1 .. n)
    BY <1>1
  <2>2. CASE j < p
    BY <1>2, <1>3, <2>1, <2>2
  <2>3. CASE j = p
    BY <1>2, <2>1, <2>3
  <2>4. CASE j > p
    <3>1. ~(j < p) /\ j # p
      BY <2>1, <2>4
    <3> QED
      BY <1>2, <1>3, <2>1, <2>4, <3>1
  <2> QED
    BY <2>1, <2>2, <2>3, <2>4
<1>5. ChunkSet(area2) = ChunkSet(area) \union {e.chunk}
  <2>0. ChunkSet(area) = {area[k].chunk : k \in 1 .. n} /\ ChunkSet(area2) = {area2[k].chunk : k \in 1 .. n + 1}
    BY <1>2 DEF ChunkSet, n
  <2>1. ASSUME NEW j \in 1 .. n + 1
        PROVE  area2[j].chunk \in ChunkSet(area) \union {e.chunk}
    <3>1. j < p \/ j = p \/ j > p
      BY <1>1
    <3> QED
      BY <1>4, <2>0, <3>1
  <2>2. ASSUME NEW k \in 1 .. n
        PROVE  area[k].chunk \in ChunkSet(area2)
    <3>1. CASE k < p
      <4>1. k \in 1 .. n + 1
        BY <1>1
      <4> QED
        BY <1>4, <2>0, <3>1, <4>1
    <3>2. CASE ~(k < p)
      <4>1. k + 1 \in 1 .. n + 1 /\ k + 1 > p /\ (k + 1) - 1 = k
        BY <1>1, <3>2
      <4>2. area2[k + 1].chunk = area[k].chunk
        BY <1>4, <4>1
      <4> QED
        BY <2>0, <4>1, <4>2
    <3> QED
      BY <3>1, <3>2
  <2>3. e.chunk \in ChunkSet(area2)
    BY <1>1, <1>4, <2>0
  <2> QED
    BY <2>0, <2>1, <2>2, <2>3
<1>6. ASSUME Distinct(area), e.chunk \notin ChunkSet(area)
      PROVE  Distinct(area2)
  <2> SUFFICES ASSUME NEW j \in 1 .. n + 1, NEW k \in 1 .. n + 1, area2[j].chunk = area2[k].chunk,
                      j <= k
               PROVE  j = k
    <3>1. \A j, k \in 1 .. n + 1 : j <= k \/ k <= j
      BY <1>1
    <3> QED
      BY <1>2, <3>1 DEF Distinct
  <2>0. \A a, b \in 1 .. n : area[a].chunk = area[b].chunk => a = b
    BY <1>6 DEF Distinct, n
  <2>1. \A a \in 1 .. n : area[a].chunk # e.chunk
    BY <1>6 DEF ChunkSet, n
  <2>2. j \in Nat /\ k \in Nat /\ p \in Nat
    BY <1>1
  <2>3. CASE j < p /\ k < p
    BY <1>4, <2>0, <2>3
  <2>4. CASE j < p /\ k = p
    BY <1>4, <2>1, <2>4
  <2>5. CASE j < p /\ k > p
    <3>1. j # k - 1
      BY <2>2, <2>5
    <3> QED
      BY <1>4, <2>0, <2>5, <3>1
  <2>6. CASE j = p /\ k = p
    BY <2>6
  <2>7. CASE j = p /\ k > p
    BY <1>4, <2>1, <2>7
  <2>8. CASE j > p /\ k > p
    <3>1. j - 1 = k - 1
      BY <1>4, <2>0, <2>8
    <3> QED
      BY <2>2, <3>1
  <2> QED
    BY <2>2, <2>3, <2>4, <2>5, <2>6, <2>7, <2>8
<1> QED
  BY <1>2, <1>5, <1>6 DEF n, OneMore

\* The exceptions are on one of two areas.
CutIn(area, lower, upper) ==
    /\ ChunkSet(lower) \union ChunkSet(upper) = ChunkSet(area)
    /\ Distinct(area) => /\ Distinct(lower) /\ Distinct(upper)
                         /\ ChunkSet(lower) \intersect ChunkSet(upper) = {}

\* An area cut in two.
LEMMA ChunksCut ==
    ASSUME NEW area, area \in Seq(Exception), NEW p, p \in 1 .. Len(area) + 1,
           NEW lower, lower = SubSeq(area, 1, p - 1),
           NEW upper, upper = SubSeq(area, p, Len(area))
    PROVE  /\ lower \in Seq(Exception) /\ Len(lower) = p - 1
           /\ upper \in Seq(Exception) /\ Len(upper) = (Len(area) + 1) - p
           /\ CutIn(area, lower, upper)
<1> DEFINE n == Len(area)
           a == p - 1
           b == (n + 1) - p
<1>1. /\ n \in Nat /\ p \in Nat /\ p >= 1 /\ p <= n + 1
      /\ a \in Nat /\ b \in Nat /\ a + b = n /\ p = a + 1
  OBVIOUS
<1>2. /\ lower \in Seq(Exception) /\ Len(lower) = a
      /\ \A k \in 1 .. a : lower[k] = area[k]
  <2>1. SubSeq(area, 1, a) \in Seq(Exception) /\ Len(SubSeq(area, 1, a)) = a
    <3>1. a <= Len(area) /\ 1 <= a + 1
      BY <1>1
    <3> QED
      BY <1>1, <3>1
  <2>2. \A k \in 1 .. a : SubSeq(area, 1, a)[k] = area[k]
    BY <1>1
  <2> QED
    BY <2>1, <2>2
<1>3. /\ upper \in Seq(Exception) /\ Len(upper) = b
      /\ \A k \in 1 .. b : upper[k] = area[a + k]
  <2>1. SubSeq(area, p, n) \in Seq(Exception) /\ Len(SubSeq(area, p, n)) = b
    BY <1>1
  <2>2. \A k \in 1 .. b : SubSeq(area, p, n)[k] = area[p + k - 1]
    BY <1>1
  <2>3. \A k \in 1 .. b : p + k - 1 = a + k
    BY <1>1
  <2> QED
    BY <2>1, <2>2, <2>3
<1>0. p - 1 = a /\ (Len(area) + 1) - p = b
  OBVIOUS
<1> HIDE DEF a, b, n
<1>4. /\ \A k \in 1 .. a : k \in 1 .. n
      /\ \A k \in 1 .. b : a + k \in 1 .. n /\ ~(a + k <= a)
      /\ \A k \in 1 .. n : k \in 1 .. a \/ (k - a \in 1 .. b /\ a + (k - a) = k)
  BY <1>1
<1>5. /\ ChunkSet(area) = {area[k].chunk : k \in 1 .. n}
      /\ ChunkSet(lower) = {area[k].chunk : k \in 1 .. a}
      /\ ChunkSet(upper) = {area[a + k].chunk : k \in 1 .. b}
  <2>1. ChunkSet(area) = {area[k].chunk : k \in 1 .. n}
    BY DEF ChunkSet, n
  <2>2. ChunkSet(lower) = {area[k].chunk : k \in 1 .. a}
    BY <1>2 DEF ChunkSet
  <2>3. ChunkSet(upper) = {upper[k].chunk : k \in 1 .. b}
    BY <1>3 DEF ChunkSet
  <2>4. \A k \in 1 .. b : upper[k].chunk = area[a + k].chunk
    BY <1>3
  <2> QED
    BY <2>1, <2>2, <2>3, <2>4
<1>6. ChunkSet(lower) \union ChunkSet(upper) = ChunkSet(area)
  <2>1. \A k \in 1 .. n : area[k].chunk \in ChunkSet(lower) \union ChunkSet(upper)
    BY <1>4, <1>5
  <2> QED
    BY <1>4, <1>5, <2>1
<1>7. ASSUME Distinct(area)
      PROVE  /\ Distinct(lower) /\ Distinct(upper)
             /\ ChunkSet(lower) \intersect ChunkSet(upper) = {}
  <2>1. \A j, k \in 1 .. n : area[j].chunk = area[k].chunk => j = k
    BY <1>7 DEF Distinct, n
  <2>2. Distinct(lower)
    BY <1>2, <1>4, <2>1 DEF Distinct
  <2>3. Distinct(upper)
    <3> SUFFICES ASSUME NEW j \in 1 .. b, NEW k \in 1 .. b, upper[j].chunk = upper[k].chunk
                 PROVE  j = k
      BY <1>3 DEF Distinct
    <3>0. area[a + j].chunk = area[a + k].chunk /\ a + j \in 1 .. n /\ a + k \in 1 .. n
      BY <1>3, <1>4
    <3>1. a + j = a + k
      BY <2>1, <3>0
    <3> QED
      BY <1>1, <3>1
  <2>4. \A j \in 1 .. a, k \in 1 .. b : area[j].chunk # area[a + k].chunk
    <3> SUFFICES ASSUME NEW j \in 1 .. a, NEW k \in 1 .. b
                 PROVE  area[j].chunk # area[a + k].chunk
      OBVIOUS
    <3>1. j # a + k /\ j \in 1 .. n /\ a + k \in 1 .. n
      BY <1>1
    <3> QED
      BY <2>1, <3>1
  <2> QED
    BY <1>5, <2>2, <2>3, <2>4
<1> QED
  BY <1>0, <1>2, <1>3, <1>6, <1>7 DEF CutIn

\* The exceptions are those of two areas.
BothOf(area, area1, area2) ==
    /\ ChunkSet(area) = ChunkSet(area1) \union ChunkSet(area2)
    /\ Distinct(area1) /\ Distinct(area2) /\ ChunkSet(area1) \intersect ChunkSet(area2) = {}
          => Distinct(area)

\* An area behind another.
LEMMA ChunksJoined ==
    ASSUME NEW area1, area1 \in Seq(Exception), NEW area2, area2 \in Seq(Exception),
           NEW area, area = area1 \o area2
    PROVE  /\ area \in Seq(Exception) /\ Len(area) = Len(area1) + Len(area2)
           /\ BothOf(area, area1, area2)
<1> DEFINE a == Len(area1)
           b == Len(area2)
<1>1. /\ area \in Seq(Exception) /\ Len(area) = a + b
      /\ \A k \in 1 .. a + b : area[k] = IF k <= a THEN area1[k] ELSE area2[k - a]
  <2>1. a = Len(area1) /\ b = Len(area2)
    OBVIOUS
  <2> HIDE DEF a, b
  <2> QED
    BY <2>1, ConcatAt
<1>2. a \in Nat /\ b \in Nat
  OBVIOUS
<1>3. /\ ChunkSet(area1) = {area1[k].chunk : k \in 1 .. a}
      /\ ChunkSet(area2) = {area2[k].chunk : k \in 1 .. b}
      /\ ChunkSet(area) = {area[k].chunk : k \in 1 .. a + b}
  BY <1>1 DEF ChunkSet
<1>4. /\ Distinct(area1) <=> \A j, k \in 1 .. a : area1[j].chunk = area1[k].chunk => j = k
      /\ Distinct(area2) <=> \A j, k \in 1 .. b : area2[j].chunk = area2[k].chunk => j = k
      /\ Distinct(area) <=> \A j, k \in 1 .. a + b : area[j].chunk = area[k].chunk => j = k
  BY <1>1 DEF Distinct
<1> HIDE DEF a, b
<1>5. ASSUME NEW k \in 1 .. a + b
      PROVE  \/ k \in 1 .. a /\ area[k] = area1[k]
             \/ k - a \in 1 .. b /\ area[k] = area2[k - a] /\ k \notin 1 .. a
  <2>1. k <= a => k \in 1 .. a
    BY <1>2
  <2>2. ~(k <= a) => k - a \in 1 .. b /\ k \notin 1 .. a
    BY <1>2
  <2> QED
    BY <1>1, <2>1, <2>2
<1>6. \A k \in 1 .. a : k \in 1 .. a + b /\ area[k] = area1[k]
  <2>1. \A k \in 1 .. a : k \in 1 .. a + b /\ k <= a
    BY <1>2
  <2> QED
    BY <1>1, <2>1
<1>7. ASSUME NEW k \in 1 .. b
      PROVE  a + k \in 1 .. a + b /\ area[a + k] = area2[k]
  <2>1. a + k \in 1 .. a + b /\ ~(a + k <= a) /\ (a + k) - a = k
    BY <1>2
  <2> QED
    BY <1>1, <2>1
<1>8. ChunkSet(area) = ChunkSet(area1) \union ChunkSet(area2)
  <2>1. \A k \in 1 .. a + b : area[k].chunk \in ChunkSet(area1) \union ChunkSet(area2)
    BY <1>3, <1>5
  <2>2. \A k \in 1 .. a : area1[k].chunk \in ChunkSet(area)
    BY <1>3, <1>6
  <2>3. \A k \in 1 .. b : area2[k].chunk \in ChunkSet(area)
    BY <1>3, <1>7
  <2> DEFINE all == ChunkSet(area1) \union ChunkSet(area2)
  <2>4. ChunkSet(area) \subseteq all
    BY <1>3, <2>1
  <2>5. all \subseteq ChunkSet(area)
    BY <1>3, <2>2, <2>3
  <2> HIDE DEF all
  <2>6. ChunkSet(area) = all
    BY <2>4, <2>5
  <2> QED
    BY <2>6 DEF all
<1>9. ASSUME Distinct(area1), Distinct(area2), ChunkSet(area1) \intersect ChunkSet(area2) = {}
      PROVE  Distinct(area)
  <2> SUFFICES ASSUME NEW j \in 1 .. a + b, NEW k \in 1 .. a + b, area[j].chunk = area[k].chunk
               PROVE  j = k
    BY <1>4
  <2>1. \A x \in 1 .. a, y \in 1 .. b : area1[x].chunk # area2[y].chunk
    BY <1>3, <1>9
  <2>2. CASE j \in 1 .. a /\ k \in 1 .. a
    BY <1>4, <1>6, <1>9, <2>2
  <2>3. CASE j \in 1 .. a /\ k \notin 1 .. a
    BY <1>5, <1>6, <2>1, <2>3
  <2>4. CASE j \notin 1 .. a /\ k \in 1 .. a
    BY <1>5, <1>6, <2>1, <2>4
  <2>5. CASE j \notin 1 .. a /\ k \notin 1 .. a
    <3>1. /\ j - a \in 1 .. b /\ area[j] = area2[j - a]
          /\ k - a \in 1 .. b /\ area[k] = area2[k - a]
      BY <1>5, <2>5
    <3>2. area2[j - a].chunk = area2[k - a].chunk
      BY <3>1
    <3>3. j - a = k - a
      BY <1>4, <1>9, <3>1, <3>2
    <3> QED
      BY <1>2, <3>3
  <2> QED
    BY <2>2, <2>3, <2>4, <2>5
<1> QED
  BY <1>1, <1>8, <1>9 DEF a, b, BothOf

\* Place returns an entry, or the one past the last.
LEMMA PlaceIs ==
    ASSUME NEW l, Count(l) \in Nat, NEW c
    PROVE  /\ Place(l, c) \in 1 .. Count(l) + 1
           /\ c \in Rchunks(l) /\ c \in Nat => Place(l, c) \in 1 .. Count(l)
<1> DEFINE n == Count(l)
           S == {i \in 1 .. n : l.map[i].rchunk >= c}
           T == S \union {n + 1}
<1>1. n \in Nat /\ T \in SUBSET (1 .. n + 1) /\ T \in SUBSET Nat /\ T # {}
  OBVIOUS
<1>2. Place(l, c) = Min(T)
  BY DEF Place
<1>3. PICK m \in T : \A x \in T : m <= x
  <2> HIDE DEF T
  <2> QED
    BY <1>1, LeastNat
<1>4. Min(T) \in T /\ \A x \in T : Min(T) <= x
  <2> HIDE DEF T
  <2> QED
    BY <1>3 DEF Min
<1>5. ASSUME c \in Rchunks(l), c \in Nat
      PROVE  Place(l, c) \in 1 .. n
  <2>1. PICK i \in 1 .. n : l.map[i].rchunk = c
    BY <1>5 DEF Rchunks
  <2>2. i \in T
    BY <1>5, <2>1
  <2>3. Min(T) <= i /\ Min(T) \in 1 .. n + 1
    BY <1>1, <1>4, <2>2
  <2>4. Min(T) \in 1 .. n
    BY <1>1, <2>3
  <2> QED
    BY <1>2, <2>4
<1> QED
  BY <1>1, <1>2, <1>4, <1>5

\* An exception that loses a bit keeps its chunk.
LEMMA ShareTaken ==
    ASSUME NEW f, f \in Exception, NEW b
    PROVE  [f EXCEPT !.share = @ \ {b}] = [share |-> f.share \ {b}, chunk |-> f.chunk]
  BY DEF Exception

\* What add_exception_to_leaf does to the directory and to the area.
LEMMA LeafGrows ==
    ASSUME NEW l, Shaped(l), NEW c, c \in Nat, NEW new, new \in StoreChunks,
           NEW b, b \in Bit \union {ORIGIN}, NEW active, active \in SUBSET Bit,
           NEW x, x = AddExceptionToLeaf(l, c, new, b, active)
    PROVE  Shaped(x) /\ OneMore(l.area, x.area, new)
<1> DEFINE i == Place(l, c)
           old == Found(l, c)
           own == IF old = {} THEN {} ELSE EMap(l, i) .. EMap(l, i + 1) - 1
           e == [offset |-> l.map[i].offset, rchunk |-> c]
           map == IF c \in Rchunks(l) THEN l.map ELSE InsertAt(l.map, i, e)
           area == [k \in DOMAIN l.area |->
                      IF k \in own /\ b # ORIGIN
                      THEN [l.area[k] EXCEPT !.share = @ \ {b}] ELSE l.area[k]]
           share == IF b = ORIGIN THEN active \ SharedBy(old) ELSE {b}
           exc == [share |-> share, chunk |-> new]
           map2 == Shift(map, i, -EXC)
           p == EMap(l, i)
           area2 == InsertAt(area, p, exc)
           n == Len(l.area)
<1>1. x = [map |-> map2, area |-> area2]
  BY DEF AddExceptionToLeaf
<1>2. Directory(l.map) /\ l.area \in Seq(Exception) /\ \E q : Placed(l.map, n, q)
  BY DEF Shaped
<1>3. PICK q : Placed(l.map, n, q)
  BY <1>2
<1>4. /\ Count(l) \in Nat /\ Count(l) + 1 = Len(l.map)
      /\ \A j \in 1 .. Len(l.map) : EMap(l, j) = q[j]
  BY <1>3, EMapIs
<1>5. i \in 1 .. Len(l.map) /\ (c \in Rchunks(l) => i \in 1 .. Len(l.map) - 1)
  <2>1. Count(l) = Len(l.map) - 1
    BY DEF Count
  <2> QED
    BY <1>4, <2>1, PlaceIs
<1>6. p \in 1 .. n + 1
  BY <1>3, <1>4, <1>5 DEF Placed
<1>7. exc \in Exception /\ exc.chunk = new
  <2>1. share \in SUBSET Bit
    <3>1. b # ORIGIN => b \in Bit
      OBVIOUS
    <3> QED
      BY <3>1
  <2> HIDE DEF share
  <2> QED
    BY <2>1 DEF Exception
<1>8. area \in Seq(Exception) /\ SameChunks(l.area, area)
  <2>1. l.area \in [1 .. n -> Exception] /\ n \in Nat /\ DOMAIN l.area = 1 .. n
    BY <1>2, LenProperties
  <2>2. ASSUME NEW k \in 1 .. n
        PROVE  area[k] \in Exception /\ area[k].chunk = l.area[k].chunk
    <3>1. l.area[k] \in [share : SUBSET Bit, chunk : StoreChunks]
      BY <2>1 DEF Exception
    <3> DEFINE f == l.area[k]
    <3>5. f \in [share : SUBSET Bit, chunk : StoreChunks]
      BY <3>1
    <3> HIDE DEF f
    <3>6. [f EXCEPT !.share = @ \ {b}] = [share |-> f.share \ {b}, chunk |-> f.chunk]
      BY <3>5, ShareTaken DEF Exception
    <3>2. [l.area[k] EXCEPT !.share = @ \ {b}] = [share |-> l.area[k].share \ {b}, chunk |-> l.area[k].chunk]
      BY <3>6 DEF f
    <3>3. area[k] = l.area[k] \/ area[k] = [share |-> l.area[k].share \ {b}, chunk |-> l.area[k].chunk]
      BY <2>1, <3>2
    <3> HIDE DEF area
    <3> QED
      BY <3>1, <3>3 DEF Exception
  <2>3. area = [k \in 1 .. n |-> area[k]]
    BY <2>1
  <2> HIDE DEF area
  <2>4. area \in [1 .. n -> Exception]
    BY <2>2, <2>3
  <2>5. area \in Seq(Exception) /\ Len(area) = n
    BY <2>1, <2>4, FunctionIsList
  <2> QED
    BY <2>2, <2>5 DEF SameChunks
<1>9. area2 \in Seq(Exception) /\ OneMore(l.area, area2, new)
  <2>1. area2 = InsertAt(area, p, exc) /\ n = Len(l.area)
    OBVIOUS
  <2> DEFINE old1 == l.area
  <2>2. /\ old1 \in Seq(Exception) /\ area \in Seq(Exception) /\ SameChunks(old1, area)
        /\ p \in 1 .. Len(old1) + 1 /\ exc \in Exception
    BY <1>2, <1>6, <1>7, <1>8
  <2> HIDE DEF area, exc, p, area2, old1
  <2>3. area2 \in Seq(Exception) /\ OneMore(old1, area2, exc.chunk)
    BY <2>1, <2>2, ChunksPutIn
  <2> QED
    BY <1>7, <2>1, <2>3 DEF old1
<1>10. /\ Directory(map) /\ i \in 1 .. Len(map) - 1
       /\ \E q1 : Placed(map, n, q1)
  <2>1. CASE c \in Rchunks(l)
    <3>1. map = l.map
      BY <2>1
    <3> HIDE DEF map
    <3> QED
      BY <1>2, <1>5, <2>1, <3>1
  <2>2. CASE c \notin Rchunks(l)
    <3>1. l.map[i] \in MapEntry
      BY <1>2, <1>5 DEF Directory
    <3>2. e \in MapEntry /\ e.offset = l.map[i].offset
      BY <3>1 DEF MapEntry
    <3>3. map = InsertAt(l.map, i, e)
      BY <2>2
    <3> HIDE DEF map, e, i
    <3>4. Directory(map) /\ Len(map) = Len(l.map) + 1 /\ \E q1 : Placed(map, n, q1)
      BY <1>2, <1>3, <1>5, <3>2, <3>3, EntryPutIn
    <3>5. i \in 1 .. Len(map) - 1
      BY <1>4, <1>5, <3>4
    <3> QED
      BY <3>4, <3>5
  <2> QED
    BY <2>1, <2>2
<1>11. Directory(map2) /\ \E q2 : Placed(map2, n + 1, q2)
  <2>1. map2 = Shift(map, i, -EXC)
    OBVIOUS
  <2> HIDE DEF map, map2, i
  <2> QED
    BY <1>10, <2>1, RoomMade
<1> HIDE DEF map2, area2
<1>12. x.map = map2 /\ x.area = area2
  BY <1>1
<1>13. Shaped(x)
  <2>1. Len(area2) = n + 1
    BY <1>9 DEF OneMore
  <2> QED
    BY <1>1, <1>9, <1>11, <1>12, <2>1 DEF Shaped
<1> QED
  BY <1>9, <1>12, <1>13

-----------------------------------------------------------------------------
(* split_leaf and merge_leaves. *)

\* The lower half of a leaf.
LEMMA LowerDirectory ==
    ASSUME NEW map, Directory(map), NEW n, NEW q, Placed(map, n, q),
           NEW m, m \in 1 .. Len(map), NEW tail, tail = map[Len(map)].offset - map[m].offset,
           NEW map1, Directory(map1), Len(map1) = m,
           \A j \in 1 .. m : map1[j].offset = map[j].offset,
           NEW map2, map2 = Shift(map1, m, tail)
    PROVE  Directory(map2) /\ \E q2 : Placed(map2, q[m] - 1, q2)
<1> DEFINE len == Len(map)
           a == q[m] - 1
           q2 == [j \in 1 .. m |-> q[j]]
<1>1. /\ len \in Nat \ {0} /\ n \in Nat /\ q \in [1 .. len -> 1 .. n + 1]
      /\ \A j \in 1 .. len : map[j].offset = LeafSize - EXC * ((n + 1) - q[j])
      /\ \A j, k \in 1 .. len : j <= k => q[j] <= q[k]
      /\ q[1] = 1 /\ q[len] = n + 1
      /\ m \in 1 .. len /\ len \in 1 .. len
  BY DEF Placed, Directory
<1>2. q[m] \in 1 .. n + 1 /\ LeafSize \in Nat
  BY <1>1, LeafAssumption
<1>3. tail = EXC * ((n + 1) - q[m]) /\ tail \in Int
  <2>1. map[len].offset = LeafSize - EXC * ((n + 1) - q[len]) /\ map[m].offset = LeafSize - EXC * ((n + 1) - q[m])
    BY <1>1
  <2>2. map[len].offset = LeafSize
    BY <1>1, <1>2, <2>1 DEF EXC
  <2>3. tail = LeafSize - (LeafSize - EXC * ((n + 1) - q[m]))
    BY <2>1, <2>2
  <2> DEFINE r == q[m]
  <2>4. r \in 1 .. n + 1 /\ tail = LeafSize - (LeafSize - EXC * ((n + 1) - r))
    BY <1>2, <2>3
  <2> HIDE DEF r
  <2>6. n \in Nat /\ LeafSize \in Nat
    BY <1>1, <1>2
  <2> DEFINE d == EXC * ((n + 1) - r)
  <2>7. d \in Int
    BY <2>4, <2>6 DEF EXC
  <2>8. tail = LeafSize - (LeafSize - d)
    BY <2>4
  <2> HIDE DEF d
  <2>9. tail = d
    BY <2>6, <2>7, <2>8
  <2>5. tail = EXC * ((n + 1) - r) /\ tail \in Int
    BY <2>7, <2>9 DEF d
  <2> QED
    BY <2>5 DEF r
<1>4. /\ Directory(map2) /\ Len(map2) = m
      /\ \A j \in 1 .. m : map2[j].offset = map1[j].offset + tail
  <2>1. /\ Directory(map2) /\ Len(map2) = Len(map1)
        /\ \A j \in 1 .. Len(map1) :
              map2[j].offset = IF j <= m THEN map1[j].offset + tail ELSE map1[j].offset
    BY <1>3, ShiftIs
  <2>2. \A j \in 1 .. m : j <= m
    BY <1>1
  <2> QED
    BY <2>1, <2>2
<1>5. \A j \in 1 .. m : j \in 1 .. len /\ j <= m /\ q[j] \in 1 .. n + 1
  BY <1>1
<1>6. \A j \in 1 .. m : q[j] <= q[m]
  BY <1>1, <1>5
<1>7. q2 \in [1 .. m -> 1 .. a + 1]
  <2>1. \A j \in 1 .. m : q[j] \in 1 .. a + 1
    BY <1>2, <1>5, <1>6
  <2> QED
    BY <2>1
<1>8. ASSUME NEW j \in 1 .. m
      PROVE  map2[j].offset = LeafSize - EXC * ((a + 1) - q2[j])
  <2> DEFINE r == q[j]
             s == q[m]
  <2>1. map2[j].offset = (LeafSize - EXC * ((n + 1) - r)) + EXC * ((n + 1) - s)
    BY <1>1, <1>3, <1>4, <1>5
  <2>2. r \in 1 .. n + 1 /\ s \in 1 .. n + 1 /\ q2[j] = r /\ a + 1 = s
    BY <1>2, <1>5
  <2> HIDE DEF r, s, a, q2
  <2>3. map2[j].offset = LeafSize - EXC * (s - r)
    BY <1>1, <1>2, <2>1, <2>2 DEF EXC
  <2> QED
    BY <2>2, <2>3
<1>9. a \in Nat
  BY <1>2
<1>10. \A j, k \in 1 .. m : j <= k => q2[j] <= q2[k]
  BY <1>1, <1>5
<1>11. q2[1] = 1 /\ q2[m] = a + 1
  <2>1. 1 \in 1 .. m /\ m \in 1 .. m
    BY <1>1
  <2> QED
    BY <1>1, <1>2, <2>1
<1> HIDE DEF a, q2
<1>12. Placed(map2, a, q2)
  BY <1>4, <1>7, <1>8, <1>9, <1>10, <1>11 DEF Placed
<1> QED
  BY <1>4, <1>12 DEF a

\* The upper part of a directory.
LEMMA UpperDirectory ==
    ASSUME NEW map, Directory(map), NEW n, NEW q, Placed(map, n, q),
           NEW m, m \in 1 .. Len(map),
           NEW map2, map2 = SubSeq(map, m, Len(map))
    PROVE  Directory(map2) /\ \E q2 : Placed(map2, (n + 1) - q[m], q2)
<1> DEFINE len == Len(map)
           len2 == (len - m) + 1
           a == (n + 1) - q[m]
           q2 == [j \in 1 .. len2 |-> (q[(m - 1) + j] - q[m]) + 1]
<1>1. /\ len \in Nat \ {0} /\ n \in Nat /\ q \in [1 .. len -> 1 .. n + 1]
      /\ \A j \in 1 .. len : map[j].offset = LeafSize - EXC * ((n + 1) - q[j])
      /\ \A j, k \in 1 .. len : j <= k => q[j] <= q[k]
      /\ q[1] = 1 /\ q[len] = n + 1
      /\ m \in 1 .. len /\ map \in Seq(MapEntry)
  BY DEF Placed, Directory
<1>2. q[m] \in 1 .. n + 1 /\ LeafSize \in Nat /\ a \in Nat /\ len2 \in Nat \ {0} /\ len2 \in 1 .. len2
  <2>1. q[m] \in 1 .. n + 1
    BY <1>1
  <2>2. len \in Nat \ {0} /\ n \in Nat /\ m \in 1 .. len
    BY <1>1
  <2>3. a \in Nat
    BY <2>1, <2>2
  <2>4. len2 \in Nat \ {0} /\ len2 \in 1 .. len2
    BY <2>2
  <2> QED
    BY <2>1, <2>3, <2>4, LeafAssumption
<1>3. /\ map2 \in Seq(MapEntry) /\ Len(map2) = len2
      /\ \A j \in 1 .. len2 : map2[j] = map[(m - 1) + j]
  <2>1. map \in Seq(MapEntry) /\ len = Len(map) /\ m \in 1 .. len /\ len \in Nat
    BY <1>1
  <2>2. map2 \in Seq(MapEntry)
    BY <2>1
  <2>3. Len(map2) = len2
    BY <2>1
  <2>4. \A j \in 1 .. len2 : map2[j] = map[m + j - 1]
    BY <2>1
  <2>5. \A j \in 1 .. len2 : m + j - 1 = (m - 1) + j
    BY <2>1
  <2> QED
    BY <2>2, <2>3, <2>4, <2>5
<1>4. Directory(map2)
  BY <1>2, <1>3 DEF Directory
<1>5. ASSUME NEW j \in 1 .. len2
      PROVE  /\ (m - 1) + j \in 1 .. len /\ m <= (m - 1) + j
             /\ q[(m - 1) + j] \in 1 .. n + 1 /\ q[m] <= q[(m - 1) + j]
             /\ q2[j] = (q[(m - 1) + j] - q[m]) + 1
  <2>1. (m - 1) + j \in 1 .. len /\ m <= (m - 1) + j
    BY <1>1
  <2> QED
    BY <1>1, <2>1
<1>6. q2 \in [1 .. len2 -> 1 .. a + 1]
  <2>1. ASSUME NEW j \in 1 .. len2
        PROVE  (q[(m - 1) + j] - q[m]) + 1 \in 1 .. a + 1
    <3> DEFINE r == q[(m - 1) + j]
               s == q[m]
    <3>1. r \in 1 .. n + 1 /\ s \in 1 .. n + 1 /\ s <= r /\ n \in Nat /\ a = (n + 1) - s
      BY <1>1, <1>2, <1>5
    <3> HIDE DEF r, s, a
    <3>2. (r - s) + 1 \in 1 .. a + 1
      BY <3>1
    <3> QED
      BY <3>2 DEF r, s
  <2> QED
    BY <2>1
<1> HIDE DEF len, len2, a, q2
<1>7. ASSUME NEW j \in 1 .. len2
      PROVE  map2[j].offset = LeafSize - EXC * ((a + 1) - q2[j])
  <2> DEFINE r == q[(m - 1) + j]
             s == q[m]
  <2>1. r \in 1 .. n + 1 /\ s \in 1 .. n + 1 /\ n \in Nat
    BY <1>1, <1>2, <1>5
  <2>2. map2[j].offset = LeafSize - EXC * ((n + 1) - r)
    BY <1>1, <1>3, <1>5
  <2>3. q2[j] = (r - s) + 1 /\ a = (n + 1) - s
    BY <1>5 DEF a
  <2> HIDE DEF r, s
  <2>4. (a + 1) - q2[j] = (n + 1) - r
    BY <2>1, <2>3
  <2> QED
    BY <2>2, <2>4
<1>8. \A j, k \in 1 .. len2 : j <= k => q2[j] <= q2[k]
  <2> SUFFICES ASSUME NEW j \in 1 .. len2, NEW k \in 1 .. len2, j <= k
               PROVE  q2[j] <= q2[k]
    OBVIOUS
  <2> DEFINE r == q[(m - 1) + j]
             t == q[(m - 1) + k]
             s == q[m]
  <2>1. (m - 1) + j <= (m - 1) + k
    BY <1>1, <1>2
  <2>2. r <= t
    BY <1>1, <1>5, <2>1
  <2>4. q2[j] = (r - s) + 1 /\ q2[k] = (t - s) + 1
    BY <1>5
  <2>5. r \in 1 .. n + 1 /\ t \in 1 .. n + 1 /\ s \in 1 .. n + 1
    BY <1>2, <1>5
  <2>3. q2[j] = (r - s) + 1 /\ q2[k] = (t - s) + 1 /\ r \in Nat /\ t \in Nat /\ s \in Nat
    BY <2>4, <2>5
  <2> HIDE DEF r, t, s
  <2> QED
    BY <2>2, <2>3
<1>9. q2[1] = 1 /\ q2[len2] = a + 1
  <2>1. 1 \in 1 .. len2 /\ len2 \in 1 .. len2 /\ (m - 1) + 1 = m /\ (m - 1) + len2 = len
    BY <1>1, <1>2 DEF len2
  <2>2. q2[1] = (q[m] - q[m]) + 1 /\ q2[len2] = (q[len] - q[m]) + 1
    BY <1>5, <2>1
  <2> QED
    BY <1>1, <1>2, <2>2 DEF a
<1>10. Placed(map2, a, q2)
  BY <1>2, <1>3, <1>6, <1>7, <1>8, <1>9 DEF Placed
<1> QED
  BY <1>4, <1>10 DEF a

\* A directory in front of another.
LEMMA DirectoriesJoined ==
    ASSUME NEW map1, Directory(map1), NEW n1, NEW q1, Placed(map1, n1, q1),
           NEW map2, Directory(map2), NEW n2, NEW q2, Placed(map2, n2, q2),
           NEW tail, tail = map2[Len(map2)].offset - map2[1].offset,
           NEW front, front = SubSeq(Shift(map1, Len(map1), -tail), 1, Len(map1) - 1),
           NEW map, map = front \o map2
    PROVE  Directory(map) /\ \E q : Placed(map, n1 + n2, q)
<1> DEFINE len1 == Len(map1)
           len2 == Len(map2)
           len == (len1 - 1) + len2
           n == n1 + n2
           q == [j \in 1 .. len |-> IF j <= len1 - 1 THEN q1[j] ELSE n1 + q2[j - (len1 - 1)]]
           c == len1 - 1
           shifted == Shift(map1, Len(map1), -tail)
<1>1. /\ len1 \in Nat \ {0} /\ n1 \in Nat /\ q1 \in [1 .. len1 -> 1 .. n1 + 1]
      /\ \A j \in 1 .. len1 : map1[j].offset = LeafSize - EXC * ((n1 + 1) - q1[j])
      /\ \A j, k \in 1 .. len1 : j <= k => q1[j] <= q1[k]
      /\ q1[1] = 1 /\ q1[len1] = n1 + 1
  BY DEF Placed, Directory
<1>2. /\ len2 \in Nat \ {0} /\ n2 \in Nat /\ q2 \in [1 .. len2 -> 1 .. n2 + 1]
      /\ \A j \in 1 .. len2 : map2[j].offset = LeafSize - EXC * ((n2 + 1) - q2[j])
      /\ \A j, k \in 1 .. len2 : j <= k => q2[j] <= q2[k]
      /\ q2[1] = 1 /\ q2[len2] = n2 + 1 /\ map2 \in Seq(MapEntry)
  BY DEF Placed, Directory
<1>3. /\ c \in Nat /\ len1 = c + 1 /\ len = c + len2 /\ len \in Nat \ {0} /\ n \in Nat
      /\ LeafSize \in Nat
  <2>1. len1 \in Nat \ {0} /\ len2 \in Nat \ {0} /\ n1 \in Nat /\ n2 \in Nat
    BY <1>1, <1>2
  <2>2. c \in Nat /\ len1 = c + 1 /\ len = c + len2
    BY <2>1
  <2>3. len \in Nat \ {0} /\ n \in Nat
    BY <2>1, <2>2
  <2> QED
    BY <2>2, <2>3, LeafAssumption
<1>4. tail = EXC * n2 /\ -tail \in Int
  <2>1. 1 \in 1 .. len2 /\ len2 \in 1 .. len2
    BY <1>2
  <2>2. map2[len2].offset = LeafSize - EXC * ((n2 + 1) - (n2 + 1))
    BY <1>2, <2>1
  <2>3. map2[1].offset = LeafSize - EXC * ((n2 + 1) - 1)
    BY <1>2, <2>1
  <2>4. EXC * ((n2 + 1) - (n2 + 1)) = 0 /\ EXC * ((n2 + 1) - 1) = EXC * n2
    BY <1>2 DEF EXC
  <2>5. tail = (LeafSize - 0) - (LeafSize - EXC * n2)
    BY <2>2, <2>3, <2>4
  <2> DEFINE d == EXC * n2
  <2>6. d \in Int
    BY <1>2 DEF EXC
  <2>7. tail = (LeafSize - 0) - (LeafSize - d)
    BY <2>5
  <2> HIDE DEF d
  <2>8. tail = d /\ -tail \in Int
    BY <1>3, <2>6, <2>7
  <2> QED
    BY <2>8 DEF d
<1>5. /\ front \in Seq(MapEntry) /\ Len(front) = c
      /\ \A j \in 1 .. c : front[j].offset = map1[j].offset - tail
  <2>1. /\ shifted \in Seq(MapEntry) /\ Len(shifted) = len1
        /\ \A j \in 1 .. len1 : shifted[j].offset = IF j <= len1 THEN map1[j].offset + (-tail) ELSE map1[j].offset
    <3>1. shifted = Shift(map1, Len(map1), -tail)
      OBVIOUS
    <3> HIDE DEF shifted
    <3> QED
      BY <1>4, <3>1, ShiftIs DEF Directory
  <2>2. front = SubSeq(shifted, 1, c)
    OBVIOUS
  <2> HIDE DEF shifted, c, len1
  <2>3. front \in Seq(MapEntry) /\ Len(front) = c /\ \A j \in 1 .. c : front[j] = shifted[j]
    BY <1>3, <2>1, <2>2
  <2>4. \A j \in 1 .. c : j \in 1 .. len1 /\ j <= len1 /\ map1[j].offset \in Int
    <3>1. \A j \in 1 .. c : j \in 1 .. len1 /\ j <= len1
      BY <1>3
    <3>2. map1 \in [1 .. len1 -> MapEntry]
      BY LenProperties DEF Directory, len1
    <3> QED
      BY <3>1, <3>2 DEF MapEntry
  <2>5. \A x \in Int : x + (-tail) = x - tail
    BY <1>2, <1>4 DEF EXC
  <2> QED
    BY <2>1, <2>3, <2>4, <2>5
<1>6. /\ map \in Seq(MapEntry) /\ Len(map) = len
      /\ \A j \in 1 .. len : map[j] = IF j <= c THEN front[j] ELSE map2[j - c]
  <2>1. c = Len(front) /\ len2 = Len(map2) /\ map2 \in Seq(MapEntry) /\ front \in Seq(MapEntry)
    BY <1>2, <1>5
  <2> HIDE DEF c, len2
  <2>2. /\ map \in Seq(MapEntry) /\ Len(map) = c + len2
        /\ \A j \in 1 .. c + len2 : map[j] = IF j <= c THEN front[j] ELSE map2[j - c]
    BY <2>1, ConcatAt
  <2> QED
    BY <1>3, <2>2
<1>7. Directory(map)
  BY <1>3, <1>6 DEF Directory
<1>8. \A j \in 1 .. len : q[j] = IF j <= c THEN q1[j] ELSE n1 + q2[j - c]
  OBVIOUS
<1>9. q = [j \in 1 .. len |-> q[j]]
  OBVIOUS
<1> HIDE DEF len1, len2, len, n, q, c
<1>10. ASSUME NEW j \in 1 .. len
       PROVE  /\ j <= c => j \in 1 .. c /\ j \in 1 .. len1 /\ q1[j] \in 1 .. n1 + 1 /\ q[j] = q1[j]
              /\ ~(j <= c) => /\ j - c \in 1 .. len2 /\ q2[j - c] \in 1 .. n2 + 1
                              /\ q[j] = n1 + q2[j - c]
  <2>1. /\ j <= c => j \in 1 .. c /\ j \in 1 .. len1
        /\ ~(j <= c) => j - c \in 1 .. len2
    <3>1. c \in Nat /\ len1 = c + 1 /\ len = c + len2 /\ len2 \in Nat
      BY <1>2, <1>3
    <3> QED
      BY <3>1
  <2> QED
    BY <1>1, <1>2, <1>8, <2>1
<1>11. q \in [1 .. len -> 1 .. n + 1]
  <2>1. ASSUME NEW j \in 1 .. len
        PROVE  q[j] \in 1 .. n + 1
    <3>1. CASE j <= c
      <4> DEFINE r == q[j]
      <4>1. r \in 1 .. n1 + 1 /\ n1 \in Nat /\ n2 \in Nat
        BY <1>1, <1>2, <1>10, <3>1
      <4> HIDE DEF r
      <4>2. r \in 1 .. n1 + n2 + 1
        BY <4>1
      <4> QED
        BY <4>2 DEF n, r
    <3>2. CASE ~(j <= c)
      <4> DEFINE r == q2[j - c]
      <4>1. r \in 1 .. n2 + 1 /\ q[j] = n1 + r /\ n1 \in Nat /\ n2 \in Nat
        BY <1>1, <1>2, <1>10, <3>2
      <4> HIDE DEF r
      <4>2. n1 + r \in 1 .. n1 + n2 + 1
        BY <4>1
      <4> QED
        BY <4>1, <4>2 DEF n
    <3> QED
      BY <3>1, <3>2
  <2> QED
    BY <1>9, <2>1
<1>12. ASSUME NEW j \in 1 .. len
       PROVE  map[j].offset = LeafSize - EXC * ((n + 1) - q[j])
  <2>1. CASE j <= c
    <3> DEFINE r == q1[j]
    <3>1. r \in 1 .. n1 + 1 /\ q[j] = r
      BY <1>10, <2>1
    <3>2. map[j] = front[j] /\ front[j].offset = map1[j].offset - tail
      BY <1>5, <1>6, <1>10, <2>1
    <3>3. map[j].offset = (LeafSize - EXC * ((n1 + 1) - r)) - EXC * n2
      BY <1>1, <1>4, <1>10, <2>1, <3>2
    <3> HIDE DEF r
    <3>4. (LeafSize - EXC * ((n1 + 1) - r)) - EXC * n2 = LeafSize - EXC * ((n + 1) - r)
      <4>1. n1 \in Nat /\ n2 \in Nat /\ LeafSize \in Nat
        BY <1>1, <1>2, <1>3
      <4> QED
        BY <3>1, <4>1 DEF EXC, n
    <3> QED
      BY <3>1, <3>3, <3>4
  <2>2. CASE ~(j <= c)
    <3> DEFINE r == q2[j - c]
    <3>1. r \in 1 .. n2 + 1 /\ q[j] = n1 + r
      BY <1>10, <2>2
    <3>2. map[j] = map2[j - c] /\ j - c \in 1 .. len2
      BY <1>6, <1>10, <2>2
    <3>3. map[j].offset = LeafSize - EXC * ((n2 + 1) - r)
      BY <1>2, <3>2
    <3> HIDE DEF r
    <3>4. (n2 + 1) - r = (n + 1) - (n1 + r)
      BY <1>1, <1>2, <3>1 DEF n
    <3> QED
      BY <3>1, <3>3, <3>4
  <2> QED
    BY <2>1, <2>2
<1>13. \A j, k \in 1 .. len : j <= k => q[j] <= q[k]
  <2> SUFFICES ASSUME NEW j \in 1 .. len, NEW k \in 1 .. len, j <= k
               PROVE  q[j] <= q[k]
    OBVIOUS
  <2>0. j \in Nat /\ k \in Nat
    BY <1>3
  <2>1. CASE j <= c /\ k <= c
    <3>1. q1[j] <= q1[k]
      BY <1>1, <1>10, <2>1
    <3> QED
      BY <1>10, <2>1, <3>1
  <2>2. CASE j <= c /\ ~(k <= c)
    <3> DEFINE r == q1[j]
               s == q2[k - c]
    <3>1. r \in 1 .. n1 + 1 /\ q[j] = r /\ s \in 1 .. n2 + 1 /\ q[k] = n1 + s
      BY <1>10, <2>2
    <3> HIDE DEF r, s
    <3> QED
      BY <1>1, <1>2, <3>1
  <2>3. CASE ~(j <= c) /\ ~(k <= c)
    <3> DEFINE r == q2[j - c]
               s == q2[k - c]
    <3>1. r \in 1 .. n2 + 1 /\ q[j] = n1 + r /\ s \in 1 .. n2 + 1 /\ q[k] = n1 + s
      BY <1>10, <2>3
    <3>2. j - c <= k - c /\ j - c \in 1 .. len2 /\ k - c \in 1 .. len2
      BY <1>3, <1>10, <2>0, <2>3
    <3>3. r <= s
      BY <1>2, <3>2
    <3> HIDE DEF r, s
    <3> QED
      BY <1>1, <1>2, <3>1, <3>3
  <2>4. ~(~(j <= c) /\ k <= c)
    BY <1>3, <2>0
  <2> QED
    BY <2>1, <2>2, <2>3, <2>4
<1>14. q[1] = 1 /\ q[len] = n + 1
  <2>1. 1 \in 1 .. len /\ len \in 1 .. len /\ ~(len <= c) /\ len - c = len2
    BY <1>2, <1>3
  <2>2. q[len] = n1 + (n2 + 1)
    BY <1>2, <1>8, <2>1
  <2>3. n1 + (n2 + 1) = n + 1
    BY <1>1, <1>2 DEF n
  <2>4. CASE 1 <= c
    BY <1>1, <1>8, <2>1, <2>2, <2>3, <2>4
  <2>5. CASE ~(1 <= c)
    <3>1. c = 0 /\ len1 = 1
      BY <1>3, <2>5
    <3>2. n1 = 0
      BY <1>1, <3>1
    <3>3. q[1] = n1 + q2[1 - c] /\ 1 - c = 1
      BY <1>8, <2>1, <2>5, <3>1
    <3> QED
      BY <1>2, <2>2, <2>3, <3>2, <3>3
  <2> QED
    BY <2>4, <2>5
<1>15. Placed(map, n, q)
  BY <1>3, <1>6, <1>11, <1>12, <1>13, <1>14 DEF Placed
<1> QED
  BY <1>7, <1>15 DEF n

\* The number of entries in the lower half.
LEMMA NheadIs ==
    ASSUME NEW l, Shaped(l)
    PROVE  /\ Nhead(l) \in Nat /\ Nhead(l) <= Count(l) /\ Nhead(l) + 1 \in 1 .. Len(l.map)
           /\ Count(l) + 1 = Len(l.map) /\ Count(l) \in Nat
<1> DEFINE n == Count(l)
<1>1. n = Len(l.map) - 1 /\ Len(l.map) \in Nat \ {0}
  BY DEF Shaped, Directory, Count
<1>2. n \in Nat /\ n + 1 = Len(l.map)
  BY <1>1
<1> HIDE DEF n
<1>3. (n + 1) \div 2 \in Nat /\ (n + 1) \div 2 <= n
  BY <1>2
<1>4. Nhead(l) = (n + 1) \div 2
  BY DEF Nhead, n
<1>5. Nhead(l) + 1 \in 1 .. Len(l.map)
  BY <1>2, <1>3, <1>4
<1> QED
  BY <1>2, <1>3, <1>4, <1>5 DEF n

\* The key of a split is a number.
LEMMA SplitPointIs ==
    ASSUME NEW l, Shaped(l)
    PROVE  SplitPoint(l) \in Int
<1>1. l.map[Nhead(l) + 1] \in MapEntry
  BY NheadIs DEF Shaped, Directory
<1> QED
  BY <1>1 DEF SplitPoint, MapEntry

\* The entry at the end has no chunk.
LEMMA EntryCleared ==
    ASSUME NEW e, e \in MapEntry
    PROVE  [e EXCEPT !.rchunk = 0] \in MapEntry /\ [e EXCEPT !.rchunk = 0].offset = e.offset
  BY DEF MapEntry

\* What split_leaf makes of a leaf.
LEMMA LeafHalves ==
    ASSUME NEW l, Shaped(l), NEW x, x = Head1(l), NEW y, y = Tail1(l)
    PROVE  Shaped(x) /\ Shaped(y) /\ CutIn(l.area, x.area, y.area)
<1> DEFINE n == Nhead(l)
           m == n + 1
           map == l.map
           area == l.area
           tail == map[Len(map)].offset - map[m].offset
           e == [map[m] EXCEPT !.rchunk = 0]
           front == SubSeq(map, 1, n)
           map1 == Append(front, e)
           map2 == Shift(map1, m, tail)
           p == EMap(l, m)
           lower == SubSeq(area, 1, p - 1)
           upper == SubSeq(area, p, Len(area))
           map3 == SubSeq(map, m, Len(map))
<1>1. n \in Nat /\ m \in 1 .. Len(map) /\ Count(l) + 1 = Len(map)
  BY NheadIs
<1>2. Directory(map) /\ area \in Seq(Exception) /\ map \in Seq(MapEntry) /\ Len(map) \in Nat
  BY DEF Shaped, Directory
<1>3. x = [map |-> map2, area |-> lower] /\ y = [map |-> map3, area |-> upper]
  BY <1>1 DEF Head1, Tail1
<1>4. PICK q : Placed(map, Len(area), q)
  BY DEF Shaped
<1>5. p = q[m]
  BY <1>1, <1>4, EMapIs
<1>6. p \in 1 .. Len(area) + 1 /\ Len(area) \in Nat
  BY <1>1, <1>4, <1>5 DEF Placed
<1>7. e \in MapEntry /\ e.offset = map[m].offset
  BY <1>1, <1>2, EntryCleared
<1> HIDE DEF e, p
<1>8. /\ Directory(map1) /\ Len(map1) = m
      /\ \A j \in 1 .. m : map1[j].offset = map[j].offset
  <2>1. n <= Len(map)
    BY <1>1, <1>2
  <2>2. front \in Seq(MapEntry) /\ Len(front) = n /\ \A j \in 1 .. n : front[j] = map[j]
    BY <1>1, <1>2, <2>1
  <2> HIDE DEF front
  <2>3. map1 \in Seq(MapEntry) /\ Len(map1) = n + 1
    BY <1>7, <2>2, AppendProperties
  <2>4. \A j \in 1 .. n : map1[j] = front[j]
    BY <1>7, <2>2, AppendProperties
  <2>5. map1[n + 1] = e
    BY <1>7, <2>2, AppendProperties
  <2>6. \A j \in 1 .. m : j \in 1 .. n \/ j = m
    BY <1>1
  <2>7. m \in Nat \ {0}
    BY <1>1
  <2> QED
    BY <1>7, <2>2, <2>3, <2>4, <2>5, <2>6, <2>7 DEF Directory
<1> DEFINE a == Len(area)
<1>9. Directory(map2) /\ \E q2 : Placed(map2, p - 1, q2)
  <2>1. map2 = Shift(map1, m, tail) /\ tail = map[Len(map)].offset - map[m].offset
        /\ Placed(map, a, q) /\ m \in 1 .. Len(map) /\ Directory(map)
    BY <1>1, <1>2, <1>4
  <2> HIDE DEF map2, map1, m, tail, map, a
  <2>2. Directory(map2) /\ \E q2 : Placed(map2, q[m] - 1, q2)
    BY <1>8, <2>1, LowerDirectory
  <2> QED
    BY <1>5, <2>2
<1>10. Directory(map3) /\ \E q2 : Placed(map3, (Len(area) + 1) - p, q2)
  <2>1. map3 = SubSeq(map, m, Len(map)) /\ Placed(map, a, q) /\ m \in 1 .. Len(map) /\ Directory(map)
    BY <1>1, <1>2, <1>4
  <2>3. Len(area) = a
    OBVIOUS
  <2> HIDE DEF map3, map, m, a
  <2>2. Directory(map3) /\ \E q2 : Placed(map3, (a + 1) - q[m], q2)
    BY <2>1, UpperDirectory
  <2> QED
    BY <1>5, <2>2, <2>3
<1>11. /\ lower \in Seq(Exception) /\ Len(lower) = p - 1
       /\ upper \in Seq(Exception) /\ Len(upper) = (Len(area) + 1) - p
       /\ CutIn(area, lower, upper)
  <2>1. lower = SubSeq(area, 1, p - 1) /\ upper = SubSeq(area, p, Len(area))
    OBVIOUS
  <2> HIDE DEF lower, upper, area
  <2> QED
    BY <1>2, <1>6, <2>1, ChunksCut
<1> HIDE DEF map2, map3, lower, upper
<1>12. x.map = map2 /\ x.area = lower /\ y.map = map3 /\ y.area = upper
  BY <1>3
<1>13. Shaped(x)
  BY <1>3, <1>9, <1>11, <1>12 DEF Shaped
<1>14. Shaped(y)
  BY <1>3, <1>10, <1>11, <1>12 DEF Shaped
<1> QED
  BY <1>11, <1>12, <1>13, <1>14

\* A directory for n exceptions.
Fits(map, n) == Directory(map) /\ \E q : Placed(map, n, q)

\* The directory of two leaves, the exceptions of the second behind the first's.
MapsJoined(map1, map2) ==
    SubSeq(Shift(map1, Len(map1), -(map2[Len(map2)].offset - map2[1].offset)), 1, Len(map1) - 1)
      \o map2

\* The directory of two leaves fits the exceptions of both.
LEMMA MapsJoinedFit ==
    ASSUME NEW map1, NEW n1, Fits(map1, n1), NEW map2, NEW n2, Fits(map2, n2),
           NEW map, map = MapsJoined(map1, map2), NEW n, n = n1 + n2
    PROVE  Fits(map, n)
<1>1. PICK q1 : Placed(map1, n1, q1)
  BY DEF Fits
<1>2. PICK q2 : Placed(map2, n2, q2)
  BY DEF Fits
<1>3. Directory(map1) /\ Directory(map2)
  BY DEF Fits
<1> DEFINE tail == map2[Len(map2)].offset - map2[1].offset
           front == SubSeq(Shift(map1, Len(map1), -tail), 1, Len(map1) - 1)
<1>4. map = front \o map2
  BY DEF MapsJoined
<1>5. tail = map2[Len(map2)].offset - map2[1].offset
      /\ front = SubSeq(Shift(map1, Len(map1), -tail), 1, Len(map1) - 1)
  OBVIOUS
<1> HIDE DEF front, tail
<1>6. Directory(map) /\ \E q : Placed(map, n1 + n2, q)
  BY <1>1, <1>2, <1>3, <1>4, <1>5, DirectoriesJoined
<1> QED
  BY <1>6 DEF Fits

\* What merge_leaves makes of two.
LEMMA LeavesJoined ==
    ASSUME NEW l, Shaped(l), NEW l2, Shaped(l2), NEW x, x = MergeLeaves(l, l2)
    PROVE  Shaped(x) /\ BothOf(x.area, l.area, l2.area)
<1> DEFINE map1 == l.map
           map2 == l2.map
           map == MapsJoined(map1, map2)
           area1 == l.area
           area2 == l2.area
           area == area1 \o area2
           n1 == Len(area1)
           n2 == Len(area2)
           n == Len(area)
<1>1. Fits(map1, n1) /\ Fits(map2, n2) /\ area1 \in Seq(Exception) /\ area2 \in Seq(Exception)
  BY DEF Shaped, Fits
<1>2. /\ Count(l) + 1 = Len(map1) /\ Count(l2) + 1 = Len(map2) /\ Count(l) = Len(map1) - 1
  BY NheadIs DEF Count
<1>3. x = [map |-> map, area |-> area]
  BY <1>2 DEF MergeLeaves, MapsJoined
<1>6. area \in Seq(Exception) /\ n = n1 + n2 /\ BothOf(area, area1, area2)
  <2>1. area = area1 \o area2
    OBVIOUS
  <2> HIDE DEF area, area1, area2
  <2> QED
    BY <1>1, <2>1, ChunksJoined
<1>7. Fits(map, n)
  <2>1. map = MapsJoined(map1, map2)
    OBVIOUS
  <2> HIDE DEF map, map1, map2, n1, n2, n, area1, area2, area
  <2> QED
    BY <1>1, <1>6, <2>1, MapsJoinedFit
<1> HIDE DEF map, area
<1>8. x.map = map /\ x.area = area
  BY <1>3
<1>9. Shaped(x)
  BY <1>3, <1>6, <1>7, <1>8 DEF Shaped, Fits
<1> QED
  BY <1>6, <1>8, <1>9

-----------------------------------------------------------------------------
(* delete_snapshots_from_leaf. *)

\* The function by which InOrder is defined.
Gathers(up, S, n) ==
    up = [k \in 0 .. n |->
             IF k = 0 THEN <<>> ELSE IF k \in S THEN Append(up[k - 1], k) ELSE up[k - 1]]

\* The members of S among 1 .. n, in order.
Sorted(r, S, n) ==
    /\ r \in Seq(Nat)
    /\ \A j \in 1 .. Len(r) : r[j] \in S /\ r[j] \in 1 .. n
    /\ \A j, k \in 1 .. Len(r) : j < k => r[j] < r[k]
    /\ \A x \in S : x \in 1 .. n => \E j \in 1 .. Len(r) : r[j] = x

\* There is such a function ...
LEMMA GatherExists ==
    ASSUME NEW S
    PROVE  \A n \in Nat : \E up : Gathers(up, S, n)
<1> DEFINE Good == {n \in Nat : \E up : Gathers(up, S, n)}
<1>1. 0 \in Good
  <2>1. Gathers([k \in 0 .. 0 |-> <<>>], S, 0)
    BY DEF Gathers
  <2> QED
    BY <2>1
<1>2. ASSUME NEW n \in Nat, n \in Good
      PROVE  n + 1 \in Good
  <2>1. PICK up : Gathers(up, S, n)
    BY <1>2
  <2> DEFINE last == IF n + 1 \in S THEN Append(up[n], n + 1) ELSE up[n]
             more == [k \in 0 .. n + 1 |-> IF k = n + 1 THEN last ELSE up[k]]
  <2>2. \A k \in 0 .. n :
           up[k] = IF k = 0 THEN <<>> ELSE IF k \in S THEN Append(up[k - 1], k) ELSE up[k - 1]
    BY <2>1 DEF Gathers
  <2>3. ASSUME NEW k \in 0 .. n + 1
        PROVE  more[k] = IF k = 0 THEN <<>>
                         ELSE IF k \in S THEN Append(more[k - 1], k) ELSE more[k - 1]
    <3>1. CASE k = n + 1
      <4>1. k - 1 \in 0 .. n + 1 /\ k - 1 = n /\ k # 0 /\ k - 1 # n + 1
        BY <3>1
      <4>2. more[k - 1] = up[n] /\ more[k] = last
        BY <3>1, <4>1
      <4> QED
        BY <3>1, <4>1, <4>2
    <3>2. CASE k # n + 1 /\ k # 0
      <4>1. k \in 0 .. n /\ k - 1 \in 0 .. n + 1 /\ k - 1 # n + 1
        BY <3>2
      <4>2. more[k - 1] = up[k - 1] /\ more[k] = up[k]
        BY <3>2, <4>1
      <4> QED
        BY <2>2, <3>2, <4>1, <4>2
    <3>3. CASE k = 0
      <4>1. more[0] = up[0] /\ up[0] = <<>>
        BY <2>2
      <4> QED
        BY <3>3, <4>1
    <3> QED
      BY <3>1, <3>2, <3>3
  <2> HIDE DEF last
  <2>4. Gathers(more, S, n + 1)
    BY <2>3 DEF Gathers
  <2> QED
    BY <2>4
<1>3. \A n \in Nat : n \in Good
  <2> HIDE DEF Good
  <2> QED
    BY <1>1, <1>2, NatInduct
<1> QED
  BY <1>3

\* One number more is gathered.
LEMMA OneSorted ==
    ASSUME NEW S, NEW k \in Nat, NEW r, Sorted(r, S, k), NEW m, m = k + 1, NEW t,
           t = IF m \in S THEN Append(r, m) ELSE r
    PROVE  Sorted(t, S, m)
<1>1. /\ r \in Seq(Nat) /\ Len(r) \in Nat
      /\ \A j \in 1 .. Len(r) : r[j] \in S /\ r[j] \in 1 .. k
      /\ \A i, j \in 1 .. Len(r) : i < j => r[i] < r[j]
      /\ \A x \in S : x \in 1 .. k => \E j \in 1 .. Len(r) : r[j] = x
  BY DEF Sorted
<1>2. CASE m \notin S
  <2>1. t = r
    BY <1>2
  <2>2. \A x \in 1 .. k : x \in 1 .. m
    OBVIOUS
  <2>3. \A x \in 1 .. m : x # m => x \in 1 .. k
    OBVIOUS
  <2> QED
    BY <1>1, <1>2, <2>1, <2>2, <2>3 DEF Sorted
<1>3. CASE m \in S
  <2>1. t = Append(r, m) /\ m \in Nat
    BY <1>3
  <2> DEFINE n == Len(r)
  <2>2. n \in Nat
    BY <1>1
  <2>3. /\ t \in Seq(Nat) /\ Len(t) = n + 1
        /\ \A j \in 1 .. n : t[j] = r[j]
        /\ t[n + 1] = m
    BY <1>1, <2>1, AppendProperties
  <2>4. \A j \in 1 .. n + 1 : j \in 1 .. n \/ j = n + 1
    BY <2>2
  <2>5. \A j \in 1 .. n + 1 : t[j] \in S /\ t[j] \in 1 .. m
    <3>1. \A x \in 1 .. k : x \in 1 .. m
      OBVIOUS
    <3>2. m \in 1 .. m
      OBVIOUS
    <3> QED
      BY <1>1, <1>3, <2>3, <2>4, <3>1, <3>2
  <2>6. ASSUME NEW i \in 1 .. n + 1, NEW j \in 1 .. n + 1, i < j
        PROVE  t[i] < t[j]
    <3>1. i \in 1 .. n
      BY <2>2, <2>6
    <3>2. CASE j \in 1 .. n
      BY <1>1, <2>3, <2>6, <3>1, <3>2
    <3>3. CASE j = n + 1
      <4>1. t[i] \in 1 .. k /\ t[j] = m
        BY <1>1, <2>3, <3>1, <3>3
      <4> QED
        BY <4>1
    <3> QED
      BY <2>4, <3>2, <3>3
  <2>7. ASSUME NEW x \in S, x \in 1 .. m
        PROVE  \E j \in 1 .. n + 1 : t[j] = x
    <3>1. CASE x = m
      <4>1. n + 1 \in 1 .. n + 1
        BY <2>2
      <4> QED
        BY <2>3, <3>1, <4>1
    <3>2. CASE x # m
      <4>1. x \in 1 .. k
        BY <2>7, <3>2
      <4>2. PICK j \in 1 .. n : r[j] = x
        BY <1>1, <4>1
      <4>3. j \in 1 .. n + 1
        BY <2>2
      <4> QED
        BY <2>3, <4>2, <4>3
    <3> QED
      BY <3>1, <3>2
  <2> QED
    BY <2>3, <2>5, <2>6, <2>7 DEF Sorted
<1> QED
  BY <1>2, <1>3

\* ... and it collects the members in order.
LEMMA GatherSorted ==
    ASSUME NEW S, NEW n \in Nat, NEW up, Gathers(up, S, n)
    PROVE  Sorted(up[n], S, n)
<1> DEFINE Good == {k \in Nat : k <= n => Sorted(up[k], S, k)}
<1>1. \A k \in 0 .. n :
         up[k] = IF k = 0 THEN <<>> ELSE IF k \in S THEN Append(up[k - 1], k) ELSE up[k - 1]
  BY DEF Gathers
<1>2. 0 \in Good
  <2>1. up[0] = <<>>
    BY <1>1
  <2>2. <<>> \in Seq(Nat) /\ Len(<<>>) = 0
    OBVIOUS
  <2>3. Sorted(<<>>, S, 0)
    BY <2>2 DEF Sorted
  <2> QED
    BY <2>1, <2>3
<1>3. ASSUME NEW k \in Nat, k \in Good
      PROVE  k + 1 \in Good
  <2> SUFFICES ASSUME k + 1 <= n
               PROVE  Sorted(up[k + 1], S, k + 1)
    OBVIOUS
  <2>1. k <= n /\ k + 1 \in 0 .. n /\ k + 1 # 0 /\ (k + 1) - 1 = k
    OBVIOUS
  <2>2. Sorted(up[k], S, k)
    BY <1>3, <2>1
  <2>3. up[k + 1] = IF k + 1 \in S THEN Append(up[k], k + 1) ELSE up[k]
    BY <1>1, <2>1
  <2> DEFINE m == k + 1
             r == up[k]
             t == up[m]
  <2>4. m = k + 1 /\ Sorted(r, S, k) /\ t = IF m \in S THEN Append(r, m) ELSE r
    BY <2>2, <2>3
  <2> HIDE DEF m, r, t
  <2>5. Sorted(t, S, m)
    BY <2>4, OneSorted
  <2> QED
    BY <2>5 DEF t, m
<1>4. \A k \in Nat : k \in Good
  <2> HIDE DEF Good
  <2> QED
    BY <1>2, <1>3, NatInduct
<1> QED
  BY <1>4

\* InOrder finds the members in order, and as many as there are.
LEMMA InOrderIs ==
    ASSUME NEW n, n \in Nat, NEW S, S \in SUBSET (1 .. n), NEW r, r = InOrder(S, n)
    PROVE  Sorted(r, S, n) /\ IsFiniteSet(S) /\ Cardinality(S) = Len(r)
<1>1. r = (CHOOSE up : Gathers(up, S, n))[n]
  BY DEF InOrder, Gathers
<1>2. Gathers(CHOOSE up : Gathers(up, S, n), S, n)
  BY GatherExists
<1>3. Sorted(r, S, n)
  BY <1>1, <1>2, GatherSorted
<1>4. /\ r \in [1 .. Len(r) -> S] /\ Len(r) \in Nat
      /\ \A i, j \in 1 .. Len(r) : i < j => r[i] < r[j]
      /\ \A x \in S : \E j \in 1 .. Len(r) : r[j] = x
      /\ \A j \in 1 .. Len(r) : r[j] \in Nat
  <2>1. r \in [1 .. Len(r) -> Nat] /\ Len(r) \in Nat
    BY <1>3, LenProperties DEF Sorted
  <2> QED
    BY <1>3, <2>1 DEF Sorted
<1> DEFINE m == Len(r)
<1>5. \A i, j \in 1 .. m : r[i] = r[j] => i = j
  <2>1. \A i, j \in 1 .. m : i # j => i < j \/ j < i
    BY <1>4
  <2>2. \A i, j \in 1 .. m : i < j => r[i] # r[j]
    BY <1>4
  <2> QED
    BY <2>1, <2>2
<1> HIDE DEF m
<1>6. r \in Bijection(1 .. m, S)
  BY <1>4, <1>5 DEF Bijection, Injection, Surjection, m, IsInjective
<1>7. ExistsBijection(1 .. m, S)
  BY <1>6 DEF ExistsBijection
<1>8. IsFiniteSet(1 .. m) /\ Cardinality(1 .. m) = m
  <2>1. 1 \in Int /\ m \in Int /\ m >= 0
    BY <1>4 DEF m
  <2>2. IsFiniteSet(1 .. m) /\ Cardinality(1 .. m) = IF 1 > m THEN 0 ELSE (m - 1) + 1
    BY <2>1, FS_Interval
  <2> QED
    BY <2>1, <2>2
<1>9. IsFiniteSet(S) /\ Cardinality(S) = m
  BY <1>7, <1>8, FS_Bijection
<1> QED
  BY <1>3, <1>9 DEF m

\* The chunks that go when the bits are taken out of an area.
Leaving(area, bits) == {area[k].chunk : k \in (1 .. Len(area)) \ Staying(area, bits)}

\* The exceptions with the bits taken out: those that stay keep their chunks.
LEMMA AreaCleared ==
    ASSUME NEW area, area \in Seq(Exception), NEW bits, NEW x, x = Survivors(area, bits)
    PROVE  /\ Staying(area, bits) \in SUBSET (1 .. Len(area))
           /\ IsFiniteSet(Staying(area, bits))
           /\ x \in Seq(Exception) /\ Len(x) = Cardinality(Staying(area, bits))
           /\ Distinct(area) => /\ Distinct(x)
                                /\ ChunkSet(x) = ChunkSet(area) \ Leaving(area, bits)
<1> DEFINE n == Len(area)
           S == Staying(area, bits)
           r == InOrder(S, n)
           m == Len(r)
<1>1. n \in Nat /\ DOMAIN area = 1 .. n /\ area \in [1 .. n -> Exception]
  BY LenProperties
<1>2. S \in SUBSET (1 .. n)
  BY <1>1 DEF Staying
<1>3. x = [j \in DOMAIN r |-> [area[r[j]] EXCEPT !.share = @ \ bits]]
  BY DEF Survivors
<1> HIDE DEF S, r
<1>4. Sorted(r, S, n) /\ IsFiniteSet(S) /\ Cardinality(S) = m
  <2>1. r = InOrder(S, n)
    BY DEF r
  <2> HIDE DEF m, n
  <2> QED
    BY <1>1, <1>2, <2>1, InOrderIs DEF m
<1>5. /\ m \in Nat /\ DOMAIN r = 1 .. m
      /\ \A j \in 1 .. m : r[j] \in S /\ r[j] \in 1 .. n
      /\ \A i, j \in 1 .. m : i < j => r[i] < r[j]
      /\ \A k \in S : \E j \in 1 .. m : r[j] = k
  <2>1. r \in Seq(Nat)
    BY <1>4 DEF Sorted
  <2>2. m \in Nat /\ DOMAIN r = 1 .. m
    BY <2>1, LenProperties
  <2> QED
    BY <1>2, <1>4, <2>2 DEF Sorted
<1> HIDE DEF m, n
<1>6. ASSUME NEW j \in 1 .. m
      PROVE  x[j] \in Exception /\ x[j].chunk = area[r[j]].chunk
  <2> DEFINE f == area[r[j]]
  <2>1. f \in Exception
    BY <1>1, <1>5
  <2>2. x[j] = [f EXCEPT !.share = @ \ bits]
    BY <1>3, <1>5
  <2> HIDE DEF f
  <2>3. f \in [share : SUBSET Bit, chunk : StoreChunks]
    BY <2>1 DEF Exception
  <2>4. x[j] = [share |-> f.share \ bits, chunk |-> f.chunk]
    BY <2>2, <2>3
  <2>5. x[j] \in Exception /\ x[j].chunk = f.chunk
    BY <2>3, <2>4 DEF Exception
  <2> QED
    BY <2>5 DEF f
<1>7. x \in Seq(Exception) /\ Len(x) = m
  <2>1. x = [j \in 1 .. m |-> x[j]]
    BY <1>3, <1>5
  <2>2. x \in [1 .. m -> Exception]
    BY <1>6, <2>1
  <2> QED
    BY <1>5, <2>2, FunctionIsList
<1>8. ASSUME Distinct(area)
      PROVE  Distinct(x) /\ ChunkSet(x) = ChunkSet(area) \ Leaving(area, bits)
  <2>1. \A j, k \in 1 .. n : area[j].chunk = area[k].chunk => j = k
    BY <1>8 DEF Distinct, n
  <2>2. \A i, j \in 1 .. m : r[i] = r[j] => i = j
    <3>1. \A i, j \in 1 .. m : i # j => i < j \/ j < i
      BY <1>5
    <3>2. \A i, j \in 1 .. m : i < j => r[i] # r[j]
      <4>1. \A j \in 1 .. m : r[j] \in Int
        BY <1>5
      <4> QED
        BY <1>5, <4>1
    <3> QED
      BY <3>1, <3>2
  <2>3. Distinct(x)
    BY <1>5, <1>6, <1>7, <2>1, <2>2 DEF Distinct
  <2>4. ChunkSet(x) = {x[j].chunk : j \in 1 .. m} /\ ChunkSet(area) = {area[k].chunk : k \in 1 .. n}
        /\ Leaving(area, bits) = {area[k].chunk : k \in (1 .. n) \ S}
    BY <1>7 DEF ChunkSet, Leaving, n, S
  <2>5. ASSUME NEW c \in ChunkSet(x)
        PROVE  c \in ChunkSet(area) \ Leaving(area, bits)
    <3>1. PICK j \in 1 .. m : c = x[j].chunk
      BY <2>4
    <3>2. r[j] \in S /\ r[j] \in 1 .. n /\ c = area[r[j]].chunk
      BY <1>5, <1>6, <3>1
    <3>3. c \in ChunkSet(area)
      BY <2>4, <3>2
    <3>4. \A k \in (1 .. n) \ S : area[k].chunk # c
      BY <2>1, <3>2
    <3> QED
      BY <2>4, <3>3, <3>4
  <2>6. ASSUME NEW c \in ChunkSet(area) \ Leaving(area, bits)
        PROVE  c \in ChunkSet(x)
    <3>1. PICK k \in 1 .. n : area[k].chunk = c
      BY <2>4
    <3>2. k \in S
      BY <2>4, <2>6, <3>1
    <3>3. PICK j \in 1 .. m : r[j] = k
      BY <1>5, <3>2
    <3> QED
      BY <1>6, <2>4, <3>1, <3>3
  <2> QED
    BY <2>3, <2>5, <2>6
<1> QED
  BY <1>1, <1>2, <1>4, <1>7, <1>8 DEF n, S

\* What Dropped frees.
LEMMA DroppedIs ==
    ASSUME NEW l, Shaped(l), NEW bits
    PROVE  Dropped(l, bits) = Leaving(l.area, bits)
<1> DEFINE area == l.area
<1>1. DOMAIN area = 1 .. Len(area) /\ area \in Seq(Exception)
  BY LenProperties DEF Shaped
<1>2. ToSet(area) = {area[k] : k \in 1 .. Len(area)}
  BY <1>1 DEF ToSet
<1>3. Staying(area, bits) = {k \in 1 .. Len(area) : ~(area[k].share \subseteq bits)}
  BY <1>1 DEF Staying
<1>4. Dropped(l, bits) = {e.chunk : e \in {x \in ToSet(area) : x.share \subseteq bits}}
  BY DEF Dropped
<1>5. Leaving(l.area, bits) = {area[k].chunk : k \in (1 .. Len(area)) \ Staying(area, bits)}
  BY DEF Leaving
<1> HIDE DEF area
<1>6. \A k \in 1 .. Len(area) : k \in (1 .. Len(area)) \ Staying(area, bits) <=> area[k].share \subseteq bits
  BY <1>3
<1>7. ASSUME NEW c \in Dropped(l, bits)
      PROVE  c \in Leaving(l.area, bits)
  <2>1. PICK e \in ToSet(area) : e.share \subseteq bits /\ c = e.chunk
    BY <1>4
  <2>2. PICK k \in 1 .. Len(area) : e = area[k]
    BY <1>2, <2>1
  <2> QED
    BY <1>5, <1>6, <2>1, <2>2
<1>8. ASSUME NEW c \in Leaving(l.area, bits)
      PROVE  c \in Dropped(l, bits)
  <2>1. PICK k \in (1 .. Len(area)) \ Staying(area, bits) : c = area[k].chunk
    BY <1>5
  <2>2. area[k] \in ToSet(area) /\ area[k].share \subseteq bits
    BY <1>2, <1>6, <2>1
  <2> QED
    BY <1>4, <2>1, <2>2
<1> QED
  BY <1>7, <1>8

\* The entries of a directory with exceptions: the next begins at another offset.
Filled(map) == {i \in 1 .. Len(map) - 1 : map[i].offset # map[i + 1].offset}

\* The positions of equal offsets are the same.
LEMMA SameOffset ==
    ASSUME NEW map, NEW n, NEW q, Placed(map, n, q), NEW i, i \in 1 .. Len(map),
           NEW j, j \in 1 .. Len(map)
    PROVE  map[i].offset = map[j].offset <=> q[i] = q[j]
<1> DEFINE a == q[i]
           b == q[j]
<1>1. /\ n \in Nat /\ a \in 1 .. n + 1 /\ b \in 1 .. n + 1 /\ LeafSize \in Nat
      /\ map[i].offset = LeafSize - EXC * ((n + 1) - a)
      /\ map[j].offset = LeafSize - EXC * ((n + 1) - b)
  BY LeafAssumption DEF Placed
<1> HIDE DEF a, b
<1>2. map[i].offset = map[j].offset <=> a = b
  BY <1>1 DEF EXC
<1> QED
  BY <1>2 DEF a, b

\* Before the first entry with exceptions all positions are the first.
LEMMA FirstPlace ==
    ASSUME NEW map, NEW n, NEW q, Placed(map, n, q), NEW len, len = Len(map), len \in Nat \ {0}
    PROVE  \A i \in 1 .. len : (\A j \in 1 .. i - 1 : j \notin Filled(map)) => q[i] = 1
<1> DEFINE Fine(i) == i + 1 \in 1 .. len =>
                        ((\A j \in 1 .. i : j \notin Filled(map)) => q[i + 1] = 1)
           All == {i \in Nat : Fine(i)}
<1>1. q[1] = 1
  BY DEF Placed
<1>2. 0 \in All
  BY <1>1
<1>3. ASSUME NEW i \in Nat, i \in All
      PROVE  i + 1 \in All
  <2> SUFFICES ASSUME (i + 1) + 1 \in 1 .. len, \A j \in 1 .. i + 1 : j \notin Filled(map)
               PROVE  q[(i + 1) + 1] = 1
    OBVIOUS
  <2>1. i + 1 \in 1 .. len /\ \A j \in 1 .. i : j \in 1 .. i + 1
    OBVIOUS
  <2>2. q[i + 1] = 1
    BY <1>3, <2>1
  <2>3. i + 1 \notin Filled(map) /\ i + 1 \in 1 .. len - 1
    OBVIOUS
  <2>4. map[i + 1].offset = map[(i + 1) + 1].offset
    BY <2>3 DEF Filled
  <2> DEFINE a == i + 1
             b == a + 1
  <2>5. a \in 1 .. len /\ b \in 1 .. len /\ map[a].offset = map[b].offset
    BY <2>1, <2>4
  <2> HIDE DEF a, b
  <2>6. q[a] = q[b]
    BY <2>5, SameOffset
  <2> QED
    BY <2>2, <2>6 DEF a, b
<1>4. \A i \in Nat : i \in All
  <2> HIDE DEF All
  <2> QED
    BY <1>2, <1>3, NatInduct
<1>5. ASSUME NEW i \in 1 .. len, \A j \in 1 .. i - 1 : j \notin Filled(map)
      PROVE  q[i] = 1
  <2>1. i - 1 \in Nat /\ (i - 1) + 1 = i
    OBVIOUS
  <2>2. Fine(i - 1)
    BY <1>4, <2>1
  <2> QED
    BY <1>5, <2>1, <2>2
<1> QED
  BY <1>5

\* A directory without the entries that have no exceptions.
Squeezed(map, e) ==
    LET kept == InOrder(Filled(map), Len(map) - 1)
    IN  Append([k \in DOMAIN kept |-> map[kept[k]]], e)

\* A directory without the entries that lost all exceptions fits the same
\* area.
LEMMA SqueezedFits ==
    ASSUME NEW map, NEW n, Fits(map, n), NEW e, e \in MapEntry, e.offset = map[Len(map)].offset,
           NEW x, x = Squeezed(map, e)
    PROVE  Fits(x, n)
<1> DEFINE len == Len(map)
           S == Filled(map)
           kept == InOrder(S, len - 1)
           m == Len(kept)
           front == [k \in DOMAIN kept |-> map[kept[k]]]
<1>1. PICK q : Placed(map, n, q)
  BY DEF Fits
<1>2. /\ len \in Nat \ {0} /\ map \in Seq(MapEntry) /\ n \in Nat
      /\ q \in [1 .. len -> 1 .. n + 1]
      /\ \A i \in 1 .. len : map[i].offset = LeafSize - EXC * ((n + 1) - q[i])
      /\ \A i, j \in 1 .. len : i <= j => q[i] <= q[j]
      /\ q[1] = 1 /\ q[len] = n + 1
  BY <1>1 DEF Fits, Placed, Directory
<1>3. S \in SUBSET (1 .. len - 1) /\ len - 1 \in Nat
  BY <1>2 DEF Filled
<1>4. x = Append(front, e)
  BY DEF Squeezed
<1> DEFINE d == len - 1
<1>5. Sorted(kept, S, d)
  <2>1. d \in Nat /\ S \in SUBSET (1 .. d) /\ kept = InOrder(S, d)
    BY <1>3
  <2> HIDE DEF d, S, kept
  <2> QED
    BY <2>1, InOrderIs
<1> HIDE DEF S, kept
<1>6. /\ m \in Nat /\ DOMAIN kept = 1 .. m
      /\ \A j \in 1 .. m : kept[j] \in S /\ kept[j] \in 1 .. d
      /\ \A i, j \in 1 .. m : i < j => kept[i] < kept[j]
      /\ \A k \in S : \E j \in 1 .. m : kept[j] = k
  <2>1. kept \in Seq(Nat)
    BY <1>5 DEF Sorted
  <2>2. m \in Nat /\ DOMAIN kept = 1 .. m
    BY <2>1, LenProperties
  <2> QED
    BY <1>3, <1>5, <2>2 DEF Sorted
<1>7. \A j \in 1 .. d : j \in 1 .. len
  BY <1>2
<1>8. /\ x \in Seq(MapEntry) /\ Len(x) = m + 1
      /\ \A j \in 1 .. m : x[j] = map[kept[j]]
      /\ x[m + 1] = e
  <2>1. map \in [1 .. len -> MapEntry]
    BY <1>2, LenProperties
  <2>2. front = [k \in 1 .. m |-> map[kept[k]]]
    BY <1>6
  <2>3. front \in [1 .. m -> MapEntry]
    BY <1>6, <1>7, <2>1, <2>2
  <2>4. \A k \in 1 .. m : front[k] = map[kept[k]]
    BY <2>2
  <2> HIDE DEF front, m
  <2>5. front \in Seq(MapEntry) /\ Len(front) = m
    BY <1>6, <2>3, FunctionIsList
  <2>6. /\ x \in Seq(MapEntry) /\ Len(x) = m + 1
        /\ \A j \in 1 .. m : x[j] = front[j]
        /\ x[m + 1] = e
    BY <1>4, <2>5, AppendProperties
  <2> QED
    BY <2>4, <2>6
<1>9. Directory(x)
  BY <1>6, <1>8 DEF Directory
<1> DEFINE q2 == [j \in 1 .. m + 1 |-> IF j <= m THEN q[kept[j]] ELSE n + 1]
<1>10. ASSUME NEW j \in 1 .. m + 1
       PROVE  /\ j <= m => /\ j \in 1 .. m /\ q2[j] = q[kept[j]] /\ kept[j] \in 1 .. len
                           /\ q[kept[j]] \in 1 .. n + 1
              /\ ~(j <= m) => j = m + 1 /\ q2[j] = n + 1
  <2>1. /\ j <= m => j \in 1 .. m
        /\ ~(j <= m) => j = m + 1
    BY <1>6
  <2>2. q2[j] = IF j <= m THEN q[kept[j]] ELSE n + 1
    OBVIOUS
  <2> HIDE DEF q2, m
  <2> QED
    BY <1>2, <1>6, <1>7, <2>1, <2>2
<1>11. q2 \in [1 .. m + 1 -> 1 .. n + 1]
  <2>1. q2 = [j \in 1 .. m + 1 |-> q2[j]]
    OBVIOUS
  <2> HIDE DEF q2, m
  <2>2. \A j \in 1 .. m + 1 : q2[j] \in 1 .. n + 1
    BY <1>2, <1>10
  <2> QED
    BY <2>1, <2>2
<1> HIDE DEF q2, m, len, d
<1>12. ASSUME NEW j \in 1 .. m + 1
       PROVE  x[j].offset = LeafSize - EXC * ((n + 1) - q2[j])
  <2>1. CASE j <= m
    BY <1>2, <1>8, <1>10, <2>1
  <2>2. CASE ~(j <= m)
    <3>1. x[j] = e /\ q2[j] = n + 1
      BY <1>8, <1>10, <2>2
    <3>2. len \in 1 .. len
      BY <1>2
    <3>3. e.offset = LeafSize - EXC * ((n + 1) - (n + 1))
      BY <1>2, <3>2 DEF len
    <3> QED
      BY <3>1, <3>3
  <2> QED
    BY <2>1, <2>2
<1>13. ASSUME NEW j \in 1 .. m + 1, NEW k \in 1 .. m + 1, j <= k
       PROVE  q2[j] <= q2[k]
  <2>1. CASE k <= m
    <3>1. j <= m /\ (j < k \/ j = k)
      BY <1>6, <1>13, <2>1
    <3>2. kept[j] <= kept[k]
      <4>1. kept[j] \in Int /\ kept[k] \in Int
        BY <1>2, <1>10, <2>1, <3>1
      <4> QED
        BY <1>6, <1>10, <2>1, <3>1, <4>1
    <3> QED
      BY <1>2, <1>10, <2>1, <3>1, <3>2
  <2>2. CASE ~(k <= m)
    <3>1. q2[k] = n + 1 /\ q2[j] \in 1 .. n + 1
      BY <1>10, <1>11, <2>2
    <3> QED
      BY <1>2, <3>1
  <2> QED
    BY <2>1, <2>2
<1>14. q2[m + 1] = n + 1
  BY <1>6, <1>10
<1>15. q2[1] = 1
  <2>0. len = Len(map) /\ len \in Nat \ {0}
    BY <1>2 DEF len
  <2>1. \A i \in 1 .. len : (\A j \in 1 .. i - 1 : j \notin Filled(map)) => q[i] = 1
    BY <1>1, <2>0, FirstPlace
  <2>2. CASE m = 0
    <3>1. \A k : k \notin S
      BY <1>6, <2>2
    <3>2. len \in 1 .. len
      BY <1>2
    <3>3. q[len] = 1
      BY <2>1, <3>1, <3>2 DEF S
    <3> QED
      BY <1>2, <1>14, <2>2, <3>3
  <2>3. CASE m # 0
    <3> DEFINE i == kept[1]
    <3>1. 1 \in 1 .. m /\ 1 \in 1 .. m + 1 /\ 1 <= m
      BY <1>6, <2>3
    <3>2. i \in 1 .. len /\ q2[1] = q[i]
      BY <1>10, <3>1
    <3>3. ASSUME NEW k \in 1 .. i - 1
          PROVE  k \notin S
      <4>1. SUFFICES ASSUME k \in S
                     PROVE  FALSE
        OBVIOUS
      <4>2. PICK j \in 1 .. m : kept[j] = k
        BY <1>6, <4>1
      <4>3. j = 1 \/ 1 < j
        BY <1>6
      <4>4. i <= k
        <5>1. CASE j = 1
          <6>1. i = k
            BY <4>2, <5>1
          <6> QED
            BY <3>2, <6>1
        <5>2. CASE 1 < j
          <6>1. kept[1] < kept[j]
            BY <1>6, <3>1, <5>2
          <6> QED
            BY <3>2, <4>2, <6>1
        <5> QED
          BY <4>3, <5>1, <5>2
      <4> HIDE DEF i
      <4> QED
        BY <3>2, <4>4
    <3>4. q[i] = 1
      BY <2>1, <3>2, <3>3 DEF S
    <3> QED
      BY <3>2, <3>4
  <2> QED
    BY <2>2, <2>3
<1>16. Placed(x, n, q2)
  <2>1. Len(x) = m + 1
    BY <1>8
  <2> QED
    BY <1>2, <1>11, <1>12, <1>13, <1>14, <1>15, <2>1 DEF Placed
<1> QED
  BY <1>9, <1>16 DEF Fits

\* The members of S from p on.
From(S, p) == {k \in S : k >= p}

\* A directory whose entries are moved to what stays of their exceptions.
Moved(map, q, S) ==
    [i \in 1 .. Len(map) |->
        [offset |-> LeafSize - EXC * Cardinality(From(S, q[i])), rchunk |-> map[i].rchunk]]

\* A directory for c exceptions, with len entries, the last at the end of the block.
Ended(x, c, len) == Fits(x, c) /\ Len(x) = len /\ x[len].offset = LeafSize

\* A directory fits what stays when each entry is moved to it.
LEMMA MovedFits ==
    ASSUME NEW map, Directory(map), NEW n, NEW q, Placed(map, n, q),
           NEW S, S \in SUBSET (1 .. n), IsFiniteSet(S), NEW c, c = Cardinality(S),
           NEW len, len = Len(map), NEW x, x = Moved(map, q, S)
    PROVE  Ended(x, c, len)
<1> DEFINE q2 == [i \in 1 .. len |-> (c + 1) - Cardinality(From(S, q[i]))]
<1>1. /\ len \in Nat \ {0} /\ map \in Seq(MapEntry) /\ n \in Nat
      /\ q \in [1 .. len -> 1 .. n + 1]
      /\ \A i, j \in 1 .. len : i <= j => q[i] <= q[j]
      /\ q[1] = 1 /\ q[len] = n + 1
      /\ 1 \in 1 .. len /\ len \in 1 .. len
  BY DEF Placed, Directory
<1>2. map \in [1 .. len -> MapEntry] /\ LeafSize \in Nat
  BY <1>1, LenProperties, LeafAssumption
<1>3. c \in Nat
  BY FS_CardinalityType
<1>4. ASSUME NEW i \in 1 .. len
      PROVE  /\ From(S, q[i]) \in SUBSET S /\ IsFiniteSet(From(S, q[i]))
             /\ Cardinality(From(S, q[i])) \in 0 .. c
  <2> DEFINE T == From(S, q[i])
  <2>1. T \in SUBSET S
    BY DEF From
  <2> HIDE DEF T
  <2>2. IsFiniteSet(T) /\ Cardinality(T) <= Cardinality(S)
    BY <2>1, FS_Subset
  <2>3. Cardinality(T) \in Nat
    BY <2>2, FS_CardinalityType
  <2> QED
    BY <1>3, <2>1, <2>2, <2>3 DEF T
<1>5. ASSUME NEW i \in 1 .. len
      PROVE  /\ x[i] \in MapEntry
             /\ x[i].offset = LeafSize - EXC * ((c + 1) - q2[i])
             /\ q2[i] \in 1 .. c + 1
  <2> DEFINE d == Cardinality(From(S, q[i]))
             p == q2[i]
  <2>1. d \in 0 .. c /\ p = (c + 1) - d
    BY <1>4
  <2>2. x[i] = [offset |-> LeafSize - EXC * d, rchunk |-> map[i].rchunk]
    BY DEF Moved
  <2>3. map[i].rchunk \in Int
    BY <1>2 DEF MapEntry
  <2> HIDE DEF d, p
  <2>4. LeafSize - EXC * d \in Int /\ d = (c + 1) - p /\ p \in 1 .. c + 1
    BY <1>2, <1>3, <2>1 DEF EXC
  <2>5. x[i] \in MapEntry /\ x[i].offset = LeafSize - EXC * ((c + 1) - p)
    BY <2>2, <2>3, <2>4 DEF MapEntry
  <2> QED
    BY <2>4, <2>5 DEF p
<1>6. x \in Seq(MapEntry) /\ Len(x) = len
  <2>1. x = [i \in 1 .. len |-> x[i]]
    BY DEF Moved
  <2>2. x \in [1 .. len -> MapEntry]
    BY <1>5, <2>1
  <2> QED
    BY <1>1, <2>2, FunctionIsList
<1>7. q2 \in [1 .. len -> 1 .. c + 1]
  <2>1. q2 = [i \in 1 .. len |-> q2[i]]
    OBVIOUS
  <2> HIDE DEF q2
  <2> QED
    BY <1>5, <2>1
<1>8. ASSUME NEW i \in 1 .. len, NEW j \in 1 .. len, i <= j
      PROVE  q2[i] <= q2[j]
  <2> DEFINE T == From(S, q[i])
             U == From(S, q[j])
  <2>1. U \in SUBSET T
    <3>1. q[i] <= q[j] /\ q[i] \in Int /\ q[j] \in Int
      BY <1>1, <1>8
    <3>2. \A k \in U : k \in S /\ k \in Int /\ k >= q[j]
      BY <1>1 DEF From
    <3>3. \A k \in U : k \in S /\ k >= q[i]
      <4> DEFINE a == q[i]
                 b == q[j]
      <4>1. a <= b /\ a \in Int /\ b \in Int /\ \A k \in U : k \in S /\ k \in Int /\ k >= b
        BY <3>1, <3>2
      <4> HIDE DEF a, b, U
      <4>2. \A k \in U : k \in S /\ k >= a
        BY <4>1
      <4> QED
        BY <4>2 DEF a
    <3> HIDE DEF U
    <3> QED
      BY <3>3 DEF From
  <2>2. IsFiniteSet(T) /\ Cardinality(T) \in 0 .. c /\ Cardinality(U) \in 0 .. c
        /\ q2[i] = (c + 1) - Cardinality(T) /\ q2[j] = (c + 1) - Cardinality(U)
    BY <1>4
  <2> HIDE DEF T, U
  <2>3. Cardinality(U) <= Cardinality(T)
    BY <2>1, <2>2, FS_Subset
  <2> QED
    BY <1>3, <2>2, <2>3
<1>9. q2[1] = 1 /\ q2[len] = c + 1 /\ x[len].offset = LeafSize
  <2>0. \A k \in S : k >= 1 /\ ~(k >= n + 1)
    BY <1>1
  <2>1. From(S, q[1]) = S
    BY <1>1, <2>0 DEF From
  <2>2. From(S, q[len]) = {}
    BY <1>1, <2>0 DEF From
  <2>3. Cardinality(From(S, q[len])) = 0
    BY <2>2, FS_EmptySet
  <2>4. q2[1] = (c + 1) - c /\ q2[len] = (c + 1) - 0
    BY <1>1, <2>1, <2>3
  <2>5. q2[1] = 1 /\ q2[len] = c + 1
    BY <1>3, <2>4
  <2>6. x[len].offset = LeafSize - EXC * ((c + 1) - (c + 1))
    BY <1>1, <1>5, <2>5
  <2>7. EXC * ((c + 1) - (c + 1)) = 0
    BY <1>3 DEF EXC
  <2> QED
    BY <1>2, <2>5, <2>6, <2>7
<1> HIDE DEF q2
<1>10. Placed(x, c, q2)
  BY <1>1, <1>3, <1>5, <1>6, <1>7, <1>8, <1>9 DEF Placed
<1>11. Directory(x)
  BY <1>1, <1>6 DEF Directory
<1>12. Fits(x, c)
  BY <1>10, <1>11 DEF Fits
<1> QED
  BY <1>6, <1>9, <1>12 DEF Ended

\* What delete_snapshots_from_leaf makes of a leaf.
LEMMA LeafCleared ==
    ASSUME NEW l, Shaped(l), NEW bits, NEW x, x = DeleteFromLeaf(l, bits)
    PROVE  /\ Shaped(x)
           /\ Distinct(l.area) => /\ Distinct(x.area)
                                  /\ ChunkSet(x.area) = ChunkSet(l.area) \ Dropped(l, bits)
<1> DEFINE map == l.map
           area == l.area
           n == Len(area)
           len == Len(map)
           S == Staying(area, bits)
           c == Cardinality(S)
           area2 == Survivors(area, bits)
           end == map[len]
           e == [end EXCEPT !.rchunk = 0]
<1>1. Directory(map) /\ area \in Seq(Exception) /\ map \in Seq(MapEntry) /\ len \in Nat \ {0}
  BY DEF Shaped, Directory
<1>2. PICK q : Placed(map, n, q)
  BY DEF Shaped
<1>3. Count(l) + 1 = len /\ Count(l) = len - 1 /\ \A i \in 1 .. len : EMap(l, i) = q[i]
  BY <1>2, EMapIs
<1>4. /\ S \in SUBSET (1 .. n) /\ IsFiniteSet(S)
      /\ area2 \in Seq(Exception) /\ Len(area2) = c
      /\ Distinct(area) => /\ Distinct(area2)
                           /\ ChunkSet(area2) = ChunkSet(area) \ Dropped(l, bits)
  <2>1. area2 = Survivors(area, bits)
    OBVIOUS
  <2>2. Dropped(l, bits) = Leaving(area, bits)
    BY DroppedIs
  <2> HIDE DEF area2, area
  <2>3. /\ Staying(area, bits) \in SUBSET (1 .. Len(area))
        /\ IsFiniteSet(Staying(area, bits))
        /\ area2 \in Seq(Exception) /\ Len(area2) = Cardinality(Staying(area, bits))
        /\ Distinct(area) => /\ Distinct(area2)
                             /\ ChunkSet(area2) = ChunkSet(area) \ Leaving(area, bits)
    BY <1>1, <2>1, AreaCleared
  <2> QED
    BY <2>2, <2>3
<1> DEFINE moved == Moved(map, q, S)
<1>5. Fits(moved, c) /\ Len(moved) = len /\ moved[len].offset = LeafSize
  <2>1. c = Cardinality(S) /\ moved = Moved(map, q, S)
    OBVIOUS
  <2>2. Directory(map) /\ Placed(map, n, q) /\ S \in SUBSET (1 .. n) /\ IsFiniteSet(S) /\ len = Len(map)
    BY <1>1, <1>2, <1>4
  <2> HIDE DEF c, moved, S, map, n, len, area
  <2>3. Ended(moved, c, len)
    BY <2>1, <2>2, MovedFits
  <2> QED
    BY <2>3 DEF Ended
<1>6. end \in MapEntry /\ end.offset = LeafSize
  <2>1. len \in 1 .. len
    BY <1>1
  <2>2. end \in MapEntry
    BY <1>1, <2>1
  <2>3. q[len] = n + 1 /\ n \in Nat /\ end.offset = LeafSize - EXC * ((n + 1) - q[len])
    BY <1>2, <2>1 DEF Placed
  <2>4. LeafSize - EXC * ((n + 1) - (n + 1)) = LeafSize
    BY <2>3, LeafAssumption DEF EXC
  <2> QED
    BY <2>2, <2>3, <2>4
<1>7. e \in MapEntry /\ e.offset = LeafSize
  <2> HIDE DEF end
  <2> QED
    BY <1>6, EntryCleared
<1>8. [i \in DOMAIN map |-> [map[i] EXCEPT !.offset =
                end.offset - EXC * Cardinality({k \in Staying(area, bits) : k >= EMap(l, i)})]]
        = moved
  <2>1. DOMAIN map = 1 .. len /\ map \in [1 .. len -> MapEntry]
    BY <1>1, LenProperties
  <2>2. ASSUME NEW i \in 1 .. len
        PROVE  [map[i] EXCEPT !.offset =
                    end.offset - EXC * Cardinality({k \in Staying(area, bits) : k >= EMap(l, i)})]
                = [offset |-> LeafSize - EXC * Cardinality(From(S, q[i])), rchunk |-> map[i].rchunk]
    <3>1. {k \in Staying(area, bits) : k >= EMap(l, i)} = From(S, q[i])
      BY <1>3 DEF From
    <3> DEFINE f == map[i]
               o == LeafSize - EXC * Cardinality(From(S, q[i]))
    <3>2. f \in [offset : Int, rchunk : Int]
      BY <2>1 DEF MapEntry
    <3>3. end.offset - EXC * Cardinality({k \in Staying(area, bits) : k >= EMap(l, i)}) = o
      BY <1>6, <3>1
    <3> HIDE DEF f, o, end, area, S
    <3>4. [f EXCEPT !.offset = o] = [offset |-> o, rchunk |-> f.rchunk]
      BY <3>2
    <3> QED
      BY <3>3, <3>4 DEF f, o
  <2>3. moved = [i \in 1 .. len |->
          [offset |-> LeafSize - EXC * Cardinality(From(S, q[i])), rchunk |-> map[i].rchunk]]
    BY DEF Moved
  <2> QED
    BY <2>1, <2>2, <2>3
<1> DEFINE map2 == Squeezed(moved, e)
<1>9. x = [map |-> map2, area |-> area2]
  <2> DEFINE m1 == [i \in DOMAIN map |-> [map[i] EXCEPT !.offset =
                end.offset - EXC * Cardinality({k \in Staying(area, bits) : k >= EMap(l, i)})]]
             kept(m) == InOrder({i \in 1 .. Count(l) : m[i].offset # m[i + 1].offset}, Count(l))
  <2> DEFINE last == map[Count(l) + 1]
             m0 == [i \in DOMAIN map |-> [map[i] EXCEPT !.offset =
                last.offset - EXC * Cardinality({k \in Staying(area, bits) : k >= EMap(l, i)})]]
             e0 == [last EXCEPT !.rchunk = 0]
  <2>5. x = [map |-> Append([k \in DOMAIN kept(m0) |-> m0[kept(m0)[k]]], e0), area |-> area2]
    BY DEF DeleteFromLeaf
  <2>6. last = end
    BY <1>3
  <2>7. m0 = m1 /\ e0 = e
    BY <2>6
  <2>2. m1 = moved
    BY <1>8
  <2>8. m0 = moved /\ e0 = e
    BY <2>7, <2>2
  <2>9. Count(l) = Len(moved) - 1
    BY <1>3, <1>5
  <2>4. kept(moved) = InOrder(Filled(moved), Len(moved) - 1)
    <3> HIDE DEF moved
    <3> QED
      BY <2>9 DEF Filled
  <2> HIDE DEF m0, m1, moved, e0, e, area2, last, end, kept
  <2>1. x = [map |-> Append([k \in DOMAIN kept(moved) |-> moved[kept(moved)[k]]], e), area |-> area2]
    BY <2>5, <2>8
  <2> QED
    BY <2>1, <2>4 DEF Squeezed
<1>10. Fits(map2, c)
  <2>1. map2 = Squeezed(moved, e) /\ e.offset = moved[Len(moved)].offset
    BY <1>5, <1>7
  <2> HIDE DEF map2, moved, e, c
  <2> QED
    BY <1>5, <1>7, <2>1, SqueezedFits
<1> HIDE DEF map2, area2
<1>11. x.map = map2 /\ x.area = area2
  BY <1>9
<1>12. Shaped(x)
  BY <1>4, <1>9, <1>10, <1>11 DEF Shaped, Fits
<1> QED
  BY <1>4, <1>11, <1>12

\* An empty leaf fits.
LEMMA FirstLeaf ==
    Shaped(EmptyLeaf) /\ Distinct(EmptyLeaf.area) /\ ChunkSet(EmptyLeaf.area) = {}
<1> DEFINE e == [offset |-> LeafSize, rchunk |-> 0]
           map == <<e>>
           area == <<>>
<1>1. EmptyLeaf = [map |-> map, area |-> area] /\ EmptyLeaf.map = map /\ EmptyLeaf.area = area
  BY DEF EmptyLeaf
<1>2. LeafSize \in Nat
  BY LeafAssumption
<1>3. e \in MapEntry
  BY <1>2 DEF MapEntry
<1>4. map \in Seq(MapEntry) /\ Len(map) = 1 /\ map[1].offset = LeafSize
  BY <1>3
<1>5. area \in Seq(Exception) /\ Len(area) = 0
  OBVIOUS
<1> HIDE DEF map, area
<1>6. Placed(map, 0, [i \in 1 .. 1 |-> 1])
  <2> DEFINE q == [i \in 1 .. 1 |-> 1]
  <2>1. q \in [1 .. Len(map) -> 1 .. 0 + 1] /\ q[1] = 1
    BY <1>4
  <2>2. \A i \in 1 .. Len(map) : i = 1
    BY <1>4
  <2>3. LeafSize = LeafSize - EXC * ((0 + 1) - 1)
    BY <1>2 DEF EXC
  <2> HIDE DEF q
  <2>4. Placed(map, 0, q)
    BY <1>4, <2>1, <2>2, <2>3 DEF Placed
  <2> QED
    BY <2>4 DEF q
<1>7. Shaped(EmptyLeaf)
  <2>1. Directory(map)
    BY <1>4 DEF Directory
  <2>2. \E q : Placed(map, Len(area), q)
    BY <1>5, <1>6
  <2>3. EmptyLeaf = [map |-> EmptyLeaf.map, area |-> EmptyLeaf.area]
    BY <1>1
  <2> QED
    BY <1>1, <1>5, <2>1, <2>2, <2>3 DEF Shaped
<1> QED
  BY <1>1, <1>5, <1>7 DEF Distinct, ChunkSet

-----------------------------------------------------------------------------
(* A leaf as a list of exceptions, each of a chunk. *)

\* The entries of a directory, which begin at the positions q, are in order, and
\* every one of them has exceptions.
Lined(map, q) ==
    /\ \A i \in 1 .. Len(map) - 1 : map[i].rchunk \in Chunks /\ q[i] < q[i + 1]
    /\ \A i, j \in 1 .. Len(map) - 1 : i < j => map[i].rchunk < map[j].rchunk
    /\ map[Len(map)].rchunk = 0

\* Exception k of the n is one of chunk own[k].
Owned(map, n, q, own) ==
    /\ own \in [1 .. n -> Chunks]
    /\ \A i \in 1 .. Len(map) - 1 : \A k \in 1 .. n :
          q[i] <= k /\ k < q[i + 1] => own[k] = map[i].rchunk

\* The directory lists the exceptions, by the chunks they are of.
Lists(map, n, q, own) == Placed(map, n, q) /\ Lined(map, q) /\ Owned(map, n, q, own)

\* A leaf with a directory in order that does not meet the exceptions.
Neat(l) ==
    /\ Shaped(l)
    /\ \E q, own : Lists(l.map, Len(l.area), q, own)
    /\ Freespace(l) >= 0

\* The exceptions of chunk c.
Mine(area, own, c) == {area[k] : k \in {j \in 1 .. Len(area) : own[j] = c}}

\* Every exception is in the range of an entry.
LEMMA EntryOver ==
    ASSUME NEW map, Directory(map), NEW n, NEW q, Placed(map, n, q), NEW k \in 1 .. n
    PROVE  \E i \in 1 .. Len(map) - 1 : q[i] <= k /\ k < q[i + 1]
<1> DEFINE len == Len(map)
           T == {i \in 0 .. len - 1 : i >= 1 /\ q[i] <= k}
<1>1. /\ len \in Nat \ {0} /\ n \in Nat /\ q \in [1 .. len -> 1 .. n + 1]
      /\ q[1] = 1 /\ q[len] = n + 1
  BY DEF Placed, Directory
<1>2. 1 < len
  BY <1>1
<1>3. 1 \in T /\ T \in SUBSET (0 .. len - 1) /\ len - 1 \in Nat
  BY <1>1, <1>2
<1> HIDE DEF T
<1>4. PICK i \in T : \A x \in T : x <= i
  BY <1>3, GreatestNat
<1>5. i \in 1 .. len - 1 /\ q[i] <= k
  BY <1>3, <1>4 DEF T
<1>6. k < q[i + 1]
  <2>1. CASE i + 1 = len
    BY <1>1, <2>1
  <2>2. CASE i + 1 # len
    <3>1. i + 1 \in 1 .. len - 1 /\ ~(i + 1 <= i)
      BY <1>1, <1>5, <2>2
    <3>2. i + 1 \notin T
      BY <1>4, <3>1
    <3>3. ~(q[i + 1] <= k)
      BY <1>1, <3>1, <3>2 DEF T
    <3> QED
      BY <1>1, <3>1, <3>3
  <2> QED
    BY <2>1, <2>2
<1> QED
  BY <1>5, <1>6

\* What Found and Rchunks see of such a leaf.
LEMMA ListsFound ==
    ASSUME NEW l, Shaped(l), NEW q, NEW own, Lists(l.map, Len(l.area), q, own)
    PROVE  /\ Rchunks(l) = {own[k] : k \in 1 .. Len(l.area)}
           /\ \A c : Found(l, c) = Mine(l.area, own, c)
<1> DEFINE map == l.map
           area == l.area
           n == Len(area)
           len == Len(map)
<1>1. /\ Directory(map) /\ len \in Nat \ {0} /\ area \in Seq(Exception) /\ n \in Nat
      /\ Placed(map, n, q) /\ Lined(map, q) /\ Owned(map, n, q, own)
  BY DEF Shaped, Directory, Lists
<1>2. Count(l) = len - 1 /\ \A i \in 1 .. len : EMap(l, i) = q[i]
  BY <1>1, EMapIs
<1>3. q \in [1 .. len -> 1 .. n + 1] /\ own \in [1 .. n -> Chunks]
  BY <1>1 DEF Placed, Owned
<1>4. Rchunks(l) = {map[i].rchunk : i \in 1 .. len - 1}
  BY <1>2 DEF Rchunks
<1> HIDE DEF n, len, map, area
<1>5. \A i \in 1 .. len - 1 : q[i] \in 1 .. n /\ own[q[i]] = map[i].rchunk /\ q[i] < q[i + 1]
  <2> TAKE i \in 1 .. len - 1
  <2>1. i \in 1 .. len /\ i + 1 \in 1 .. len
    BY <1>1
  <2>3. q[i] < q[i + 1]
    BY <1>1 DEF Lined, len
  <2>2. q[i] < q[i + 1] /\ q[i] \in 1 .. n
    BY <1>1, <1>3, <2>1, <2>3
  <2> QED
    BY <1>1, <2>2 DEF Owned, len
<1>6. \A k \in 1 .. n : \E i \in 1 .. len - 1 : q[i] <= k /\ k < q[i + 1] /\ own[k] = map[i].rchunk
  <2> TAKE k \in 1 .. n
  <2>1. PICK i \in 1 .. len - 1 : q[i] <= k /\ k < q[i + 1]
    BY <1>1, EntryOver DEF len
  <2>2. own[k] = map[i].rchunk
    BY <1>1, <2>1 DEF Owned, len
  <2> QED
    BY <2>1, <2>2
<1>7. Rchunks(l) = {own[k] : k \in 1 .. n}
  <2>1. \A i \in 1 .. len - 1 : map[i].rchunk \in {own[k] : k \in 1 .. n}
    BY <1>5
  <2>2. \A k \in 1 .. n : own[k] \in {map[i].rchunk : i \in 1 .. len - 1}
    BY <1>6
  <2> QED
    BY <1>4, <2>1, <2>2
<1>8. ASSUME NEW c
      PROVE  Found(l, c) = Mine(area, own, c)
  <2>1. CASE c \notin Rchunks(l)
    <3>1. Mine(area, own, c) = {}
      BY <1>7, <2>1 DEF Mine, n
    <3> QED
      BY <2>1, <3>1 DEF Found
  <2>2. CASE c \in Rchunks(l)
    <3> DEFINE i == EntryOf(l, c)
    <3>1. i \in 1 .. len - 1 /\ map[i].rchunk = c
      BY <1>2, <1>4, <2>2 DEF EntryOf, map
    <3> DEFINE from == q[i]
               to == q[i + 1] - 1
               part == SubSeq(area, from, to)
    <3>2. Found(l, c) = ToSet(part)
      BY <1>1, <1>2, <2>2, <3>1 DEF Found, ExceptionsOf, area
    <3>3. from \in 1 .. n /\ to \in 1 .. n /\ from <= to
      BY <1>1, <1>3, <1>5, <3>1
    <3> HIDE DEF i
    <3>4. /\ part \in Seq(Exception) /\ Len(part) = (to - from) + 1
          /\ \A j \in 1 .. (to - from) + 1 : part[j] = area[from + j - 1]
      <4> HIDE DEF from, to
      <4>1. from \in 1 .. Len(area) + 1 /\ to \in from - 1 .. Len(area)
        BY <1>1, <3>3 DEF n
      <4> QED
        BY <1>1, <4>1, SubSeqProperties
    <3>5. ToSet(part) = {part[j] : j \in 1 .. (to - from) + 1}
      <4> HIDE DEF part, from, to
      <4> QED
        BY <3>4 DEF ToSet
    <3> HIDE DEF part
    <3>6. \A k \in 1 .. n : own[k] = c <=> from <= k /\ k <= to
      <4> TAKE k \in 1 .. n
      <4>1. from <= k /\ k <= to => own[k] = c
        <5>1. q[i] <= k /\ k < q[i + 1] => own[k] = map[i].rchunk
          BY <1>1, <3>1 DEF Owned, len
        <5>2. q[i] \in Int /\ q[i + 1] \in Int
          <6>1. i \in 1 .. len /\ i + 1 \in 1 .. len
            BY ONLY <1>1, <3>1
          <6>2. q[i] \in 1 .. n + 1 /\ q[i + 1] \in 1 .. n + 1
            BY ONLY <1>3, <6>1
          <6> QED
            BY ONLY <1>1, <6>2
        <5>3. from = q[i] /\ to = q[i + 1] - 1
          OBVIOUS
        <5> HIDE DEF from, to
        <5> QED
          BY ONLY <3>1, <5>1, <5>2, <5>3, k \in 1 .. n
      <4>2. ASSUME own[k] = c
            PROVE  from <= k /\ k <= to
        <5>1. PICK j \in 1 .. len - 1 : q[j] <= k /\ k < q[j + 1] /\ own[k] = map[j].rchunk
          BY <1>6
        <5>2. map[j].rchunk = map[i].rchunk
          BY <3>1, <4>2, <5>1
        <5>3. j = i
          <6>1. /\ map[i].rchunk \in Nat
                /\ i < j => map[i].rchunk < map[j].rchunk
                /\ j < i => map[j].rchunk < map[i].rchunk
            BY <1>1, <3>1, <5>1, LeafAssumption DEF Lined, len
          <6> QED
            BY <3>1, <5>1, <5>2, <6>1
        <5>4. i + 1 \in 1 .. len
          BY <1>1, <3>1
        <5> QED
          BY <1>1, <1>3, <5>1, <5>3, <5>4
      <4> QED
        BY <4>1, <4>2
    <3> HIDE DEF from, to
    <3>7. \A j \in 1 .. (to - from) + 1 : part[j] \in Mine(area, own, c)
      <4> TAKE j \in 1 .. (to - from) + 1
      <4>1. from + j - 1 \in 1 .. n /\ from <= from + j - 1 /\ from + j - 1 <= to
        BY <1>1, <3>3
      <4> QED
        BY <3>4, <3>6, <4>1 DEF Mine, n
    <3>8. \A k \in 1 .. n : own[k] = c => area[k] \in {part[j] : j \in 1 .. (to - from) + 1}
      <4> SUFFICES ASSUME NEW k \in 1 .. n, own[k] = c
                   PROVE  \E j \in 1 .. (to - from) + 1 : area[k] = part[j]
        OBVIOUS
      <4>1. (k - from) + 1 \in 1 .. (to - from) + 1 /\ from + ((k - from) + 1) - 1 = k
        BY <3>3, <3>6
      <4> QED
        BY <3>4, <4>1
    <3> QED
      BY <3>2, <3>5, <3>7, <3>8 DEF Mine, n
  <2> QED
    BY <2>1, <2>2
<1> QED
  BY <1>7, <1>8 DEF area, n

-----------------------------------------------------------------------------
(* add_exception_to_leaf, in order. *)

\* A change of offsets leaves the chunks.
LEMMA ShiftKeys ==
    ASSUME NEW map, Directory(map), NEW n, NEW by \in Int,
           NEW map2, map2 = Shift(map, n, by)
    PROVE  \A j \in 1 .. Len(map) : map2[j].rchunk = map[j].rchunk
<1>1. map \in [1 .. Len(map) -> MapEntry] /\ DOMAIN map = 1 .. Len(map) /\ Len(map) \in Nat \ {0}
  BY LenProperties DEF Directory
<1>2. map2 = [j \in 1 .. Len(map) |-> IF j <= n THEN [map[j] EXCEPT !.offset = @ + by] ELSE map[j]]
  BY <1>1 DEF Shift
<1>3. ASSUME NEW j \in 1 .. Len(map)
      PROVE  map2[j].rchunk = map[j].rchunk
  <2> DEFINE e == map[j]
  <2>1. e \in [offset : Int, rchunk : Int]
    BY <1>1 DEF MapEntry
  <2>2. map2[j] = IF j <= n THEN [e EXCEPT !.offset = @ + by] ELSE e
    BY <1>2
  <2> HIDE DEF e
  <2>3. [e EXCEPT !.offset = @ + by].rchunk = e.rchunk
    BY <2>1
  <2>4. map2[j].rchunk = e.rchunk
    BY <2>2, <2>3
  <2> QED
    BY <2>4 DEF e
<1> QED
  BY <1>3

\* The owners when exception p of chunk c is put in.
OwnersPutIn(own, n, p, c) ==
    [k \in 1 .. n + 1 |-> IF k < p THEN own[k] ELSE IF k = p THEN c ELSE own[k - 1]]

\* The chunk's entry is there: the entries behind it begin one later.
LEMMA ListsOneMore ==
    ASSUME NEW map, Directory(map), NEW n, NEW q, NEW own, Lists(map, n, q, own),
           NEW i, i \in 1 .. Len(map) - 1,
           NEW map2, map2 = Shift(map, i, -EXC), NEW m, m = n + 1,
           NEW q2, Placed(map2, m, q2)
    PROVE  Lists(map2, m, q2, OwnersPutIn(own, n, q[i], map[i].rchunk))
<1> DEFINE own2 == OwnersPutIn(own, n, q[i], map[i].rchunk)
           len == Len(map)
<1>1. /\ len \in Nat \ {0} /\ n \in Nat /\ q \in [1 .. len -> 1 .. n + 1] /\ LeafSize \in Int
      /\ own \in [1 .. n -> Chunks] /\ i \in 1 .. len - 1 /\ m = n + 1
  BY LeafAssumption DEF Directory, Lists, Placed, Owned
<1>10. \A j \in 1 .. len : map[j].offset = LeafSize - 2 * ((n + 1) - q[j])
  BY DEF Lists, Placed, EXC
<1>2. /\ \A j \in 1 .. len - 1 : map[j].rchunk \in Chunks /\ q[j] < q[j + 1]
      /\ \A j, k \in 1 .. len - 1 : j < k => map[j].rchunk < map[k].rchunk
      /\ map[len].rchunk = 0
      /\ \A j \in 1 .. len - 1 : \A k \in 1 .. n :
            q[j] <= k /\ k < q[j + 1] => own[k] = map[j].rchunk
      /\ \A j, k \in 1 .. len : j <= k => q[j] <= q[k]
  BY DEF Lists, Placed, Lined, Owned
<1>3. /\ Len(map2) = len
      /\ \A j \in 1 .. len : map2[j].rchunk = map[j].rchunk
  BY ShiftIs, ShiftKeys DEF EXC
<1>11. \A j \in 1 .. len : map2[j].offset = IF j <= i THEN map[j].offset - 2 ELSE map[j].offset
  <2>1. \A j \in 1 .. len : map2[j].offset = IF j <= i THEN map[j].offset + (-2) ELSE map[j].offset
    BY ShiftIs DEF EXC
  <2>2. map \in [1 .. len -> [offset : Int, rchunk : Int]]
    BY LenProperties DEF Directory, MapEntry
  <2> TAKE j \in 1 .. len
  <2>3. map[j].offset \in Int
    BY <2>2
  <2> QED
    BY <2>1, <2>3
<1>4. q2 \in [1 .. len -> 1 .. m + 1]
  BY <1>3 DEF Placed
<1>12. \A j \in 1 .. len : map2[j].offset = LeafSize - 2 * ((m + 1) - q2[j])
  BY <1>3 DEF Placed, EXC
<1> HIDE DEF len
<1>5. \A j \in 1 .. len : q2[j] = IF j <= i THEN q[j] ELSE q[j] + 1
  <2> TAKE j \in 1 .. len
  <2>1. q[j] \in Int /\ q2[j] \in Int /\ LeafSize \in Int /\ n \in Int /\ m = n + 1
    BY <1>1, <1>4
  <2>2. CASE j <= i
    <3>1. LeafSize - 2 * ((m + 1) - q2[j]) = (LeafSize - 2 * ((n + 1) - q[j])) - 2
      BY <1>10, <1>11, <1>12, <2>2
    <3>2. q2[j] = q[j]
      BY ONLY <2>1, <3>1
    <3> QED
      BY <2>2, <3>2
  <2>3. CASE ~(j <= i)
    <3>1. LeafSize - 2 * ((m + 1) - q2[j]) = LeafSize - 2 * ((n + 1) - q[j])
      BY <1>10, <1>11, <1>12, <2>3
    <3>2. q2[j] = q[j] + 1
      BY ONLY <2>1, <3>1
    <3> QED
      BY <2>3, <3>2
  <2> QED
    BY <2>2, <2>3
<1>13. ASSUME NEW j \in 1 .. len - 1
       PROVE  /\ j \in Int /\ q[j] \in Int /\ q[j + 1] \in Int /\ q[j] < q[j + 1]
              /\ q2[j] = IF j <= i THEN q[j] ELSE q[j] + 1
              /\ q2[j + 1] = IF j + 1 <= i THEN q[j + 1] ELSE q[j + 1] + 1
  <2>1. j \in 1 .. len /\ j + 1 \in 1 .. len
    BY <1>1
  <2>2. q[j] < q[j + 1]
    BY <1>2 DEF len
  <2>3. /\ q2[j] = IF j <= i THEN q[j] ELSE q[j] + 1
        /\ q2[j + 1] = IF j + 1 <= i THEN q[j + 1] ELSE q[j + 1] + 1
    BY <1>5, <2>1
  <2> QED
    BY <1>1, <2>1, <2>2, <2>3
<1>14. i \in Int
  BY <1>1
<1>6. Lined(map2, q2)
  <2>1. \A j \in 1 .. len - 1 : j \in 1 .. len /\ j + 1 \in 1 .. len
    BY <1>1
  <2>2. \A j \in 1 .. len - 1 : q2[j] < q2[j + 1]
    <3> TAKE j \in 1 .. len - 1
    <3> QED
      BY ONLY <1>13, <1>14
  <2>3. len \in 1 .. len
    BY <1>1
  <2> QED
    <3>1. \A j \in 1 .. len - 1 : map2[j].rchunk = map[j].rchunk
      BY <1>3, <2>1
    <3>2. map2[len].rchunk = 0
      BY <1>2, <1>3, <2>3
    <3>3. \A j \in 1 .. len - 1 : map2[j].rchunk \in Chunks /\ q2[j] < q2[j + 1]
      BY <1>2, <2>2, <3>1
    <3>4. \A j, k \in 1 .. len - 1 : j < k => map2[j].rchunk < map2[k].rchunk
      BY <1>2, <3>1
    <3>5. Len(map2) = len
      BY <1>3
    <3> QED
      BY ONLY <3>2, <3>3, <3>4, <3>5 DEF Lined
<1>7. own2 \in [1 .. m -> Chunks]
  <2>1. \A k \in 1 .. m : ~(k < q[i]) /\ k # q[i] => k - 1 \in 1 .. n
    <3>1. i \in 1 .. len
      BY ONLY <1>1
    <3>2. q[i] \in 1 .. n + 1
      BY ONLY <1>1, <3>1
    <3> DEFINE p == q[i]
    <3>3. p \in 1 .. n + 1
      BY ONLY <3>2
    <3> HIDE DEF p
    <3>4. \A k \in 1 .. m : ~(k < p) /\ k # p => k - 1 \in 1 .. n
      BY ONLY <1>1, <3>3
    <3> QED
      BY ONLY <3>4 DEF p
  <2>2. \A k \in 1 .. m : k < q[i] => k \in 1 .. n
    <3>1. i \in 1 .. len
      BY ONLY <1>1
    <3>2. q[i] \in 1 .. n + 1
      BY ONLY <1>1, <3>1
    <3> DEFINE p == q[i]
    <3>3. p \in 1 .. n + 1
      BY ONLY <3>2
    <3> HIDE DEF p
    <3>4. \A k \in 1 .. m : k < p => k \in 1 .. n
      BY ONLY <1>1, <3>3
    <3> QED
      BY ONLY <3>4 DEF p
  <2>3. map[i].rchunk \in Chunks
    BY <1>2 DEF len
  <2> QED
    BY <1>1, <2>1, <2>2, <2>3 DEF OwnersPutIn
<1>8. ASSUME NEW j \in 1 .. len - 1, NEW k \in 1 .. m, q2[j] <= k, k < q2[j + 1]
      PROVE  own2[k] = map2[j].rchunk
  <2>0. own2[k] = IF k < q[i] THEN own[k] ELSE IF k = q[i] THEN map[i].rchunk ELSE own[k - 1]
    BY DEF OwnersPutIn
  <2>1. j \in 1 .. len /\ j + 1 \in 1 .. len /\ i \in 1 .. len /\ i + 1 \in 1 .. len
    BY <1>1
  <2>7. /\ q[j] \in Int /\ q[j + 1] \in Int /\ q[i] \in Int /\ map2[j].rchunk = map[j].rchunk
        /\ k \in Int
    BY <1>1, <1>3, <2>1
  <2>8. /\ q[j] < q[j + 1]
        /\ q2[j] = IF j <= i THEN q[j] ELSE q[j] + 1
        /\ q2[j + 1] = IF j + 1 <= i THEN q[j + 1] ELSE q[j + 1] + 1
    BY <1>13
  <2>2. CASE j < i
    <3>0. j <= i /\ j + 1 <= i
      BY <1>1, <2>2
    <3>1. k < q[j + 1] /\ q[j] <= k
      BY <1>8, <2>8, <3>0
    <3>3. q[j + 1] <= q[i]
      BY <1>2, <2>1, <3>0 DEF len
    <3>4. q[i] <= n + 1
      BY <1>1, <2>1
    <3>2. k < q[i] /\ k \in 1 .. n
      BY <1>1, <2>7, <3>1, <3>3, <3>4
    <3> QED
      BY <1>2, <2>0, <2>7, <3>1, <3>2 DEF len
  <2>3. CASE j = i
    <3>1. q[i] <= k /\ k <= q[i + 1]
      <4>1. j <= i /\ ~(j + 1 <= i)
        BY <1>1, <2>3
      <4>2. q2[j] = q[i] /\ q2[j + 1] = q[i + 1] + 1
        BY <2>3, <2>8, <4>1
      <4>3. q[i + 1] \in Int
        BY <2>3, <2>7
      <4> QED
        BY <1>8, <2>7, <4>2, <4>3
    <3>2. CASE k = q[i]
      BY <2>0, <2>7, <2>3, <3>2
    <3>3. CASE k # q[i]
      <4>1. q[i] <= k - 1 /\ k - 1 < q[i + 1] /\ k - 1 \in 1 .. n /\ ~(k < q[i])
        BY <1>1, <2>1, <2>7, <3>1, <3>3
      <4> QED
        BY <1>2, <2>0, <2>3, <2>7, <3>3, <4>1 DEF len
    <3> QED
      BY <3>2, <3>3
  <2>4. CASE j > i
    <3>1. q[j] <= k - 1 /\ k - 1 < q[j + 1] /\ q[i] < q[j]
      <4>1. i + 1 <= j /\ ~(j + 1 <= i) /\ ~(j <= i)
        BY <2>1, <2>4
      <4>2. q[i] < q[i + 1] /\ q[i + 1] <= q[j]
        BY <1>2, <2>1, <2>4, <4>1 DEF len
      <4>3. q[i + 1] \in Int
        BY <1>1, <2>1
      <4> QED
        BY <1>8, <2>7, <2>8, <4>1, <4>2, <4>3
    <3>2. k - 1 \in 1 .. n /\ ~(k < q[i]) /\ k # q[i]
      BY <1>1, <2>1, <2>7, <3>1
    <3> QED
      BY <1>2, <2>0, <2>7, <3>1, <3>2 DEF len
  <2> QED
    BY <2>1, <2>2, <2>3, <2>4
<1>9. Owned(map2, m, q2, own2)
  BY <1>3, <1>7, <1>8 DEF Owned
<1> QED
  BY <1>6, <1>9 DEF Lists

\* The chunk gets an entry, at the position of the one behind it.
LEMMA ListsOneEntryMore ==
    ASSUME NEW map, Directory(map), NEW n, NEW q, NEW own, Lists(map, n, q, own),
           NEW i, i \in 1 .. Len(map), NEW c, c \in Chunks,
           \A j \in 1 .. Len(map) - 1 : IF j < i THEN map[j].rchunk < c ELSE c < map[j].rchunk,
           NEW map1, map1 = InsertAt(map, i, [offset |-> map[i].offset, rchunk |-> c]),
           NEW map2, map2 = Shift(map1, i, -EXC), NEW m, m = n + 1,
           NEW q2, Placed(map2, m, q2)
    PROVE  Lists(map2, m, q2, OwnersPutIn(own, n, q[i], c))
<1> DEFINE own2 == OwnersPutIn(own, n, q[i], c)
           len == Len(map)
           e == [offset |-> map[i].offset, rchunk |-> c]
<1>1. /\ len \in Nat \ {0} /\ n \in Nat /\ q \in [1 .. len -> 1 .. n + 1] /\ LeafSize \in Int
      /\ own \in [1 .. n -> Chunks] /\ i \in 1 .. len /\ m = n + 1 /\ c \in Nat
      /\ map \in [1 .. len -> [offset : Int, rchunk : Int]]
  <2>1. len \in Nat \ {0} /\ map \in [1 .. len -> [offset : Int, rchunk : Int]]
    BY LenProperties DEF Directory, MapEntry
  <2>2. n \in Nat /\ q \in [1 .. len -> 1 .. n + 1] /\ own \in [1 .. n -> Chunks]
    BY DEF Lists, Placed, Owned
  <2> QED
    BY <2>1, <2>2, LeafAssumption
<1>10. \A j \in 1 .. len : map[j].offset = LeafSize - 2 * ((n + 1) - q[j])
  BY DEF Lists, Placed, EXC
<1>2. /\ \A j \in 1 .. len - 1 : map[j].rchunk \in Chunks /\ q[j] < q[j + 1]
      /\ \A j, k \in 1 .. len - 1 : j < k => map[j].rchunk < map[k].rchunk
      /\ map[len].rchunk = 0
      /\ \A j \in 1 .. len - 1 : \A k \in 1 .. n :
            q[j] <= k /\ k < q[j + 1] => own[k] = map[j].rchunk
      /\ \A j, k \in 1 .. len : j <= k => q[j] <= q[k]
      /\ \A j \in 1 .. len - 1 : IF j < i THEN map[j].rchunk < c ELSE c < map[j].rchunk
  BY DEF Lists, Placed, Lined, Owned
<1>3. /\ map1 \in Seq(MapEntry) /\ Len(map1) = len + 1
      /\ \A j \in 1 .. len + 1 : map1[j] = IF j < i THEN map[j] ELSE IF j = i THEN e ELSE map[j - 1]
  <2>1. e \in MapEntry
    BY <1>1 DEF MapEntry
  <2>2. map \in Seq(MapEntry) /\ i \in 1 .. Len(map) + 1 /\ map1 = InsertAt(map, i, e)
    BY <1>1 DEF Directory
  <2> HIDE DEF e
  <2> QED
    <3>1. map1 \in Seq(MapEntry) /\ Inserted(map, i, e, map1)
      BY ONLY <2>1, <2>2, InsertAtIs
    <3> QED
      BY ONLY <3>1 DEF Inserted, len
<1>4. /\ Len(map2) = len + 1
      /\ \A j \in 1 .. len + 1 : map2[j].rchunk = map1[j].rchunk
      /\ \A j \in 1 .. len + 1 : map2[j].offset = IF j <= i THEN map1[j].offset + (-2) ELSE map1[j].offset
  <2>1. Directory(map1)
    BY <1>1, <1>3 DEF Directory
  <2> QED
    <3>1. /\ Len(map2) = Len(map1)
          /\ \A j \in 1 .. Len(map1) : map2[j].rchunk = map1[j].rchunk
          /\ \A j \in 1 .. Len(map1) : map2[j].offset = IF j <= i THEN map1[j].offset + (-2) ELSE map1[j].offset
      BY ONLY <2>1, map2 = Shift(map1, i, -EXC), ShiftIs, ShiftKeys DEF EXC
    <3> QED
      BY ONLY <1>3, <3>1
<1>5. q2 \in [1 .. len + 1 -> 1 .. m + 1]
  BY <1>4 DEF Placed
<1>12. \A j \in 1 .. len + 1 : map2[j].offset = LeafSize - 2 * ((m + 1) - q2[j])
  BY <1>4 DEF Placed, EXC
<1> HIDE DEF len, e
<1>6. ASSUME NEW j \in 1 .. len + 1
      PROVE  /\ j <= i => q2[j] = q[j] /\ j \in 1 .. len
             /\ j > i => q2[j] = q[j - 1] + 1 /\ j - 1 \in 1 .. len
             /\ map2[j].rchunk = IF j < i THEN map[j].rchunk
                                 ELSE IF j = i THEN c ELSE map[j - 1].rchunk
  <2>1. q2[j] \in Int /\ LeafSize \in Int /\ n \in Int /\ m = n + 1 /\ j \in Int /\ i \in Int
    BY <1>1, <1>5
  <2>2. /\ map1[j].offset = IF j <= i THEN map[j].offset ELSE map[j - 1].offset
        /\ map1[j].rchunk = IF j < i THEN map[j].rchunk ELSE IF j = i THEN c ELSE map[j - 1].rchunk
    <3>1. e.offset = map[i].offset /\ e.rchunk = c
      BY DEF e
    <3> QED
      BY <1>3, <2>1, <3>1
  <2>3. CASE j <= i
    <3>1. j \in 1 .. len /\ q[j] \in Int
      BY <1>1, <2>1, <2>3
    <3>2. LeafSize - 2 * ((m + 1) - q2[j]) = (LeafSize - 2 * ((n + 1) - q[j])) + (-2)
      <4>1. map2[j].offset = LeafSize - 2 * ((m + 1) - q2[j])
        BY ONLY <1>12
      <4>2. map[j].offset = LeafSize - 2 * ((n + 1) - q[j])
        BY ONLY <1>10, <3>1
      <4>3. map2[j].offset = map1[j].offset + (-2)
        BY ONLY <1>4, <2>3, j \in 1 .. len + 1
      <4>4. map1[j].offset = map[j].offset
        BY ONLY <2>2, <2>3
      <4> QED
        BY ONLY <4>1, <4>2, <4>3, <4>4
    <3>3. q2[j] = q[j]
      BY ONLY <2>1, <3>1, <3>2
    <3> QED
      BY <1>4, <2>1, <2>2, <2>3, <3>1, <3>3
  <2>4. CASE ~(j <= i)
    <3>1. j - 1 \in 1 .. len /\ q[j - 1] \in Int
      BY <1>1, <2>1, <2>4
    <3>2. LeafSize - 2 * ((m + 1) - q2[j]) = LeafSize - 2 * ((n + 1) - q[j - 1])
      <4>1. map2[j].offset = LeafSize - 2 * ((m + 1) - q2[j])
        BY ONLY <1>12
      <4>2. map[j - 1].offset = LeafSize - 2 * ((n + 1) - q[j - 1])
        BY ONLY <1>10, <3>1
      <4>3. map2[j].offset = map1[j].offset
        BY ONLY <1>4, <2>4, j \in 1 .. len + 1
      <4>4. map1[j].offset = map[j - 1].offset
        BY ONLY <2>2, <2>4
      <4> QED
        BY ONLY <4>1, <4>2, <4>3, <4>4
    <3>3. q2[j] = q[j - 1] + 1
      BY ONLY <2>1, <3>1, <3>2
    <3> QED
      BY <1>4, <2>1, <2>2, <2>4, <3>1, <3>3
  <2> QED
    BY <2>3, <2>4
<1>7. ASSUME NEW j \in 1 .. len
      PROVE  q2[j] < q2[j + 1] /\ map2[j].rchunk \in Chunks
  <2>1. j \in 1 .. len + 1 /\ j + 1 \in 1 .. len + 1 /\ j \in Int /\ i \in Int
    BY <1>1
  <2>2. CASE j < i
    <3>1. j + 1 <= i /\ j <= i /\ j \in 1 .. len - 1
      BY <1>1, <2>1, <2>2
    <3>2. q2[j] = q[j] /\ q2[j + 1] = q[j + 1] /\ map2[j].rchunk = map[j].rchunk
      BY <1>6, <2>1, <2>2, <3>1
    <3> QED
      BY <1>2, <3>1, <3>2
  <2>3. CASE j = i
    <3>1. j <= i /\ j + 1 > i /\ (j + 1) - 1 = j
      BY <1>1, <2>1, <2>3
    <3>2. q2[j] = q[j] /\ q2[j + 1] = q[j] + 1 /\ map2[j].rchunk = c
      BY <1>6, <2>1, <2>3, <3>1
    <3>3. q[j] \in Int
      BY <1>1
    <3> QED
      BY <3>2, <3>3
  <2>4. CASE j > i
    <3>1. j - 1 \in 1 .. len - 1 /\ j + 1 > i /\ (j + 1) - 1 = j /\ (j - 1) + 1 = j /\ ~(j < i) /\ j # i
      BY <1>1, <2>1, <2>4
    <3>2. q2[j] = q[j - 1] + 1 /\ q2[j + 1] = q[j] + 1 /\ map2[j].rchunk = map[j - 1].rchunk
      BY <1>6, <2>1, <2>4, <3>1
    <3>3. q[j - 1] < q[j] /\ map[j - 1].rchunk \in Chunks
      BY <1>2, <3>1
    <3>4. q[j] \in Int /\ q[j - 1] \in Int
      BY <1>1, <3>1
    <3> QED
      BY <3>2, <3>3, <3>4
  <2> QED
    BY <2>1, <2>2, <2>3, <2>4
<1>8. ASSUME NEW j \in 1 .. len, NEW k \in 1 .. len, j < k
      PROVE  map2[j].rchunk < map2[k].rchunk
  <2>1. /\ j \in 1 .. len + 1 /\ k \in 1 .. len + 1 /\ j \in Int /\ i \in Int /\ k \in Int
        /\ c \in Int
    BY <1>1
  <2>2. /\ map2[j].rchunk = IF j < i THEN map[j].rchunk ELSE IF j = i THEN c ELSE map[j - 1].rchunk
        /\ map2[k].rchunk = IF k < i THEN map[k].rchunk ELSE IF k = i THEN c ELSE map[k - 1].rchunk
    BY <1>6, <2>1
  <2>3. CASE k < i
    <3>1. j \in 1 .. len - 1 /\ k \in 1 .. len - 1 /\ j < i
      BY <1>1, <1>8, <2>1, <2>3
    <3> QED
      BY <1>2, <1>8, <2>2, <2>3, <3>1
  <2>4. CASE k = i
    <3>1. j \in 1 .. len - 1 /\ j < i /\ ~(k < i)
      BY <1>1, <1>8, <2>1, <2>4
    <3> QED
      BY <1>2, <2>2, <2>4, <3>1
  <2>5. CASE k > i
    <3>1. k - 1 \in 1 .. len - 1 /\ ~(k < i) /\ k # i /\ ~(k - 1 < i)
      BY <1>1, <2>1, <2>5
    <3>2. map2[k].rchunk = map[k - 1].rchunk /\ c < map[k - 1].rchunk /\ map[k - 1].rchunk \in Int
      <4>1. map[k - 1].rchunk \in Chunks
        BY <1>2, <3>1
      <4>2. map2[k].rchunk = map[k - 1].rchunk
        BY ONLY <2>2, <3>1
      <4>3. c < map[k - 1].rchunk
        BY <1>2, <3>1
      <4>4. map[k - 1].rchunk \in Int
        <5>1. \A d \in Chunks : d \in Int
          BY LeafAssumption
        <5> QED
          BY ONLY <4>1, <5>1
      <4> QED
        BY <4>2, <4>3, <4>4
    <3>3. CASE j < i
      <4>1. j \in 1 .. len - 1
        BY <1>1, <2>1, <3>3
      <4>2. map[j].rchunk < c /\ map2[j].rchunk = map[j].rchunk /\ map[j].rchunk \in Chunks
        BY <1>2, <2>2, <3>3, <4>1
      <4> QED
        <5> DEFINE x == map[j].rchunk
                   y == map[k - 1].rchunk
        <5>1. x \in Int
          <6>1. \A d \in Chunks : d \in Int
            BY LeafAssumption
          <6> QED
            BY ONLY <4>2, <6>1
        <5>2. x < c /\ c < y /\ y \in Int /\ c \in Int
          BY ONLY <2>1, <3>2, <4>2
        <5>3. map2[j].rchunk = x /\ map2[k].rchunk = y
          BY ONLY <3>2, <4>2
        <5> HIDE DEF x, y
        <5>4. x < y
          BY ONLY <5>1, <5>2
        <5> QED
          BY ONLY <5>3, <5>4
    <3>4. CASE j = i
      BY <2>1, <2>2, <3>2, <3>4
    <3>5. CASE j > i
      <4>1. j - 1 \in 1 .. len - 1 /\ j - 1 < k - 1 /\ ~(j < i) /\ j # i
        BY <1>1, <1>8, <2>1, <3>5
      <4> QED
        BY <1>2, <2>2, <3>1, <3>2, <4>1
    <3> QED
      BY <2>1, <3>3, <3>4, <3>5
  <2> QED
    BY <2>1, <2>3, <2>4, <2>5
<1>9. map2[len + 1].rchunk = 0
  <2>1. len + 1 \in 1 .. len + 1 /\ ~(len + 1 < i) /\ len + 1 # i /\ (len + 1) - 1 = len
    BY <1>1
  <2> QED
    BY <1>2, <1>6, <2>1
<1>13. Lined(map2, q2)
  <2>1. Len(map2) = len + 1 /\ (len + 1) - 1 = len
    BY <1>1, <1>4
  <2> QED
    BY ONLY <1>7, <1>8, <1>9, <2>1 DEF Lined
<1>14. own2 \in [1 .. m -> Chunks]
  <2>0. i \in 1 .. len /\ q[i] \in 1 .. n + 1
    BY <1>1
  <2>1. \A k \in 1 .. m : ~(k < q[i]) /\ k # q[i] => k - 1 \in 1 .. n
    BY <1>1, <2>0
  <2>2. \A k \in 1 .. m : k < q[i] => k \in 1 .. n
    BY <1>1, <2>0
  <2> QED
    BY <1>1, <2>1, <2>2 DEF OwnersPutIn
<1>15. ASSUME NEW j \in 1 .. len, NEW k \in 1 .. m, q2[j] <= k, k < q2[j + 1]
       PROVE  own2[k] = map2[j].rchunk
  <2>0. own2[k] = IF k < q[i] THEN own[k] ELSE IF k = q[i] THEN c ELSE own[k - 1]
    BY DEF OwnersPutIn
  <2>1. j \in 1 .. len + 1 /\ j + 1 \in 1 .. len + 1 /\ j \in Int /\ i \in Int /\ k \in Int
    BY <1>1
  <2>5. q[i] \in Int /\ q[i] <= n + 1 /\ i \in 1 .. len
    BY <1>1
  <2>2. CASE j < i
    <3>1. j + 1 <= i /\ j <= i /\ j \in 1 .. len - 1 /\ j + 1 \in 1 .. len
      BY <1>1, <2>1, <2>2
    <3>2. q2[j] = q[j] /\ q2[j + 1] = q[j + 1] /\ map2[j].rchunk = map[j].rchunk
      BY <1>6, <2>1, <2>2, <3>1
    <3>3. q[j + 1] <= q[i] /\ q[j + 1] \in Int
      <4>1. q[j + 1] <= q[i]
        <5>1. \A u, v \in 1 .. len : u <= v => q[u] <= q[v]
          BY <1>2
        <5> QED
          BY ONLY <2>5, <3>1, <5>1
      <4>2. q[j + 1] \in 1 .. n + 1
        BY ONLY <1>1, <3>1
      <4> QED
        BY ONLY <1>1, <4>1, <4>2
    <3>4. k < q[i] /\ k \in 1 .. n
      <4>1. k < q[j + 1] /\ 1 <= k
        BY <1>1, <1>15, <3>2
      <4>2. q[j + 1] <= q[i] /\ q[j + 1] \in Int /\ q[i] \in Int /\ q[i] <= n + 1 /\ k \in Int
        BY ONLY <2>1, <2>5, <3>3
      <4>3. n \in Nat
        BY ONLY <1>1
      <4> DEFINE u == q[j + 1]
                 v == q[i]
      <4>4. k < u /\ u <= v /\ v <= n + 1 /\ u \in Int /\ v \in Int
        BY ONLY <4>1, <4>2
      <4> HIDE DEF u, v
      <4>5. k < v /\ k \in 1 .. n
        BY ONLY <4>1, <4>2, <4>3, <4>4
      <4> QED
        BY ONLY <4>5 DEF v
    <3> QED
      BY <1>2, <1>15, <2>0, <3>1, <3>2, <3>4
  <2>3. CASE j = i
    <3>1. j <= i /\ j + 1 > i /\ (j + 1) - 1 = j
      BY <1>1, <2>1, <2>3
    <3>2. q2[j] = q[i] /\ q2[j + 1] = q[i] + 1 /\ map2[j].rchunk = c
      BY <1>6, <2>1, <2>3, <3>1
    <3>3. k = q[i]
      BY <1>15, <2>1, <2>5, <3>2
    <3> QED
      BY <2>0, <2>5, <3>2, <3>3
  <2>4. CASE j > i
    <3>1. j - 1 \in 1 .. len - 1 /\ j + 1 > i /\ (j + 1) - 1 = j /\ (j - 1) + 1 = j /\ ~(j < i) /\ j # i
          /\ j - 1 \in 1 .. len /\ i <= j - 1
      BY <1>1, <2>1, <2>4
    <3>2. q2[j] = q[j - 1] + 1 /\ q2[j + 1] = q[j] + 1 /\ map2[j].rchunk = map[j - 1].rchunk
      BY <1>6, <2>1, <2>4, <3>1
    <3>4. q[j] \in Int /\ q[j - 1] \in Int /\ 1 <= q[j - 1] /\ q[i] <= q[j - 1]
      <4>1. \A u, v \in 1 .. len : u <= v => q[u] <= q[v]
        BY ONLY <1>2
      <4>2. q[i] <= q[j - 1]
        BY ONLY <2>5, <3>1, <4>1
      <4>3. q[j - 1] \in 1 .. n + 1
        BY ONLY <1>1, <3>1
      <4>4. q[j] \in 1 .. n + 1
        BY ONLY <1>1
      <4>5. 1 <= q[j - 1] /\ q[j - 1] \in Int
        BY ONLY <1>1, <4>3
      <4>6. q[j] \in Int
        BY ONLY <1>1, <4>4
      <4> QED
        BY ONLY <4>2, <4>5, <4>6
    <3>5. q[j - 1] <= k - 1 /\ k - 1 < q[j] /\ k - 1 \in 1 .. n /\ ~(k < q[i]) /\ k # q[i]
      <4>1. q[j - 1] + 1 <= k /\ k < q[j] + 1 /\ k <= n + 1 /\ n \in Int
        BY <1>1, <1>15, <3>2
      <4> QED
        BY ONLY <2>1, <2>5, <3>4, <4>1
    <3> QED
      BY <1>2, <2>0, <3>1, <3>2, <3>5
  <2> QED
    BY <2>1, <2>2, <2>3, <2>4
<1>16. Owned(map2, m, q2, own2)
  <2>1. Len(map2) = len + 1 /\ (len + 1) - 1 = len
    BY <1>1, <1>4
  <2> HIDE DEF own2
  <2> QED
    BY ONLY <1>14, <1>15, <2>1 DEF Owned
<1> QED
  BY <1>13, <1>16 DEF Lists

\* The exceptions of an entry's chunk are those in its range.
LEMMA OwnRange ==
    ASSUME NEW map, Directory(map), NEW n, NEW q, NEW own, Lists(map, n, q, own),
           NEW i, i \in 1 .. Len(map) - 1, NEW k, k \in 1 .. n
    PROVE  own[k] = map[i].rchunk <=> q[i] <= k /\ k < q[i + 1]
<1> DEFINE len == Len(map)
<1>1. /\ len \in Nat \ {0} /\ n \in Nat /\ q \in [1 .. len -> 1 .. n + 1]
      /\ Placed(map, n, q) /\ Lined(map, q) /\ Owned(map, n, q, own) /\ i \in 1 .. len - 1
  BY DEF Lists, Placed, Directory
<1>2. q[i] <= k /\ k < q[i + 1] => own[k] = map[i].rchunk
  BY <1>1 DEF Owned
<1>3. ASSUME own[k] = map[i].rchunk
      PROVE  q[i] <= k /\ k < q[i + 1]
  <2>1. PICK j \in 1 .. len - 1 : q[j] <= k /\ k < q[j + 1]
    BY <1>1, EntryOver
  <2>2. own[k] = map[j].rchunk
    BY <1>1, <2>1 DEF Owned
  <2>3. /\ map[i].rchunk \in Chunks
        /\ i < j => map[i].rchunk < map[j].rchunk
        /\ j < i => map[j].rchunk < map[i].rchunk
    BY <1>1, <2>1 DEF Lined
  <2>4. \A d \in Chunks : d \in Int
    BY LeafAssumption
  <2>5. i \in Int /\ j \in Int
    BY <1>1, <2>1
  <2> HIDE DEF len
  <2>6. ~(i < j) /\ ~(j < i)
    BY ONLY <1>3, <2>2, <2>3, <2>4
  <2>7. i = j
    BY ONLY <2>5, <2>6
  <2> QED
    BY <2>1, <2>7
<1> QED
  BY <1>2, <1>3

\* The free space of a leaf.
LEMMA FreeIs ==
    ASSUME NEW l, Shaped(l)
    PROVE  /\ Freespace(l) = LeafSize - 2 * Len(l.area) - Len(l.map)
           /\ Count(l) = Len(l.map) - 1 /\ Len(l.map) \in Nat \ {0} /\ Len(l.area) \in Nat
<1>1. PICK q : Placed(l.map, Len(l.area), q)
  BY DEF Shaped
<1>2. Count(l) + 1 = Len(l.map) /\ Count(l) = Len(l.map) - 1
  BY <1>1, EMapIs
<1>3. Len(l.map) \in Nat \ {0} /\ Len(l.area) \in Nat
  BY DEF Shaped, Directory
<1>4. l.map[1].offset = LeafSize - 2 * ((Len(l.area) + 1) - 1)
  <2>1. 1 \in 1 .. Len(l.map) /\ q[1] = 1
    BY <1>1, <1>3 DEF Placed
  <2> QED
    BY <1>1, <2>1 DEF Placed, EXC
<1>5. Freespace(l) = l.map[1].offset - 1 * Len(l.map)
  BY <1>2 DEF Freespace, ENTRY
<1>6. LeafSize \in Int
  BY LeafAssumption
<1> QED
  BY <1>2, <1>3, <1>4, <1>5, <1>6

\* Place finds the chunk's entry or the place of one.
LEMMA PlaceInOrder ==
    ASSUME NEW l, Shaped(l), NEW q, NEW own, Lists(l.map, Len(l.area), q, own),
           NEW c, c \in Nat, NEW i, i = Place(l, c)
    PROVE  /\ i \in 1 .. Len(l.map)
           /\ \A j \in 1 .. Len(l.map) - 1 : IF j < i THEN l.map[j].rchunk < c ELSE c <= l.map[j].rchunk
           /\ c \in Rchunks(l) => i \in 1 .. Len(l.map) - 1 /\ l.map[i].rchunk = c
           /\ c \notin Rchunks(l) => \A j \in 1 .. Len(l.map) - 1 : l.map[j].rchunk # c
<1> DEFINE len == Len(l.map)
           map == l.map
           S == {j \in 1 .. len - 1 : map[j].rchunk >= c} \union {len}
<1>1. Count(l) = len - 1 /\ len \in Nat \ {0} /\ (len - 1) + 1 = len
  BY FreeIs
<1>2. i = Min(S)
  BY <1>1 DEF Place
<1>3. S \in SUBSET Nat /\ S # {}
  BY <1>1
<1>4. i \in S /\ \A x \in S : i <= x
  <2>1. \E x \in S : \A y \in S : x <= y
    BY <1>3, LeastNat
  <2> HIDE DEF S
  <2> QED
    BY <1>2, <2>1 DEF Min
<1>5. /\ \A j \in 1 .. len - 1 : map[j].rchunk \in Chunks
      /\ \A j, k \in 1 .. len - 1 : j < k => map[j].rchunk < map[k].rchunk
  BY DEF Lists, Lined
<1>6. \A d \in Chunks : d \in Int
  BY LeafAssumption
<1>7. Rchunks(l) = {map[j].rchunk : j \in 1 .. len - 1}
  BY <1>1 DEF Rchunks
<1>8. i \in 1 .. len
  BY <1>1, <1>4
<1>9. ASSUME NEW j \in 1 .. len - 1
      PROVE  IF j < i THEN map[j].rchunk < c ELSE c <= map[j].rchunk
  <2>1. map[j].rchunk \in Int /\ j \in Int
    BY <1>1, <1>5, <1>6
  <2>2. CASE j < i
    <3>1. j \notin S
      BY <1>1, <1>4, <1>8, <2>1, <2>2
    <3> QED
      BY <2>1, <2>2, <3>1
  <2>3. CASE ~(j < i)
    <3>1. i \in 1 .. len - 1 /\ (i = j \/ i < j)
      BY <1>1, <1>8, <2>3
    <3>2. map[i].rchunk >= c /\ map[i].rchunk \in Int
      BY <1>1, <1>4, <1>5, <1>6, <3>1
    <3>3. i = j \/ map[i].rchunk < map[j].rchunk
      BY <1>5, <3>1
    <3> QED
      BY <2>1, <2>3, <3>2, <3>3
  <2> QED
    BY <2>2, <2>3
<1> HIDE DEF S
<1>10. ASSUME c \in Rchunks(l)
       PROVE  i \in 1 .. len - 1 /\ map[i].rchunk = c
  <2>1. PICK j \in 1 .. len - 1 : map[j].rchunk = c
    BY <1>7, <1>10
  <2>2. ~(j < i)
    BY <1>9, <2>1
  <2>3. i \in 1 .. len - 1 /\ (i = j \/ i < j)
    BY <1>1, <1>8, <2>2
  <2>4. ~(i < i)
    BY <1>8
  <2>5. c <= map[i].rchunk
    BY <1>9, <2>3, <2>4
  <2>6. i = j \/ map[i].rchunk < c
    BY <1>5, <2>1, <2>3
  <2>7. map[i].rchunk \in Int
    BY <1>5, <1>6, <2>3
  <2> QED
    BY <2>1, <2>3, <2>5, <2>6, <2>7
<1> QED
  BY <1>7, <1>8, <1>9, <1>10

\* One exception more, of chunk c.
LEMMA MinePutIn ==
    ASSUME NEW area, area \in Seq(Exception), NEW n, n = Len(area), NEW own,
           NEW p, p \in 1 .. n + 1, NEW e, e \in Exception, NEW c, NEW area2, area2 = InsertAt(area, p, e),
           NEW own2, own2 = OwnersPutIn(own, n, p, c)
    PROVE  /\ \A d : d # c => Mine(area2, own2, d) = Mine(area, own, d)
           /\ Mine(area2, own2, c) = Mine(area, own, c) \union {e}
<1>1. /\ Len(area2) = n + 1 /\ n \in Nat /\ p \in Int /\ p \in 1 .. n + 1
      /\ \A k \in 1 .. n + 1 : area2[k] = IF k < p THEN area[k] ELSE IF k = p THEN e ELSE area[k - 1]
  <2>1. Inserted(area, p, e, area2)
    BY InsertAtIs
  <2>2. n \in Nat
    BY LenProperties
  <2> QED
    BY <2>1, <2>2 DEF Inserted
<1>2. \A k \in 1 .. n + 1 : own2[k] = IF k < p THEN own[k] ELSE IF k = p THEN c ELSE own[k - 1]
  BY DEF OwnersPutIn
<1>3. ASSUME NEW d, NEW k \in 1 .. n, own[k] = d
      PROVE  \E j \in 1 .. n + 1 : own2[j] = d /\ area2[j] = area[k] 
  <2>1. CASE k < p
    <3>1. k \in 1 .. n + 1
      BY <1>1
    <3> QED
      BY <1>1, <1>2, <1>3, <2>1, <3>1
  <2>2. CASE ~(k < p)
    <3>1. k + 1 \in 1 .. n + 1 /\ ~(k + 1 < p) /\ k + 1 # p /\ (k + 1) - 1 = k
      BY <1>1, <2>2
    <3> QED
      BY <1>1, <1>2, <1>3, <3>1
  <2> QED
    BY <2>1, <2>2
<1>4. ASSUME NEW d, NEW j \in 1 .. n + 1, own2[j] = d
      PROVE  \/ j = p /\ d = c /\ area2[j] = e
             \/ \E k \in 1 .. n : own[k] = d /\ area2[j] = area[k]
  <2>1. CASE j < p
    <3>1. j \in 1 .. n
      BY <1>1, <2>1
    <3> QED
      BY <1>1, <1>2, <1>4, <2>1, <3>1
  <2>2. CASE j = p
    <3>1. ~(j < p)
      BY <1>1, <2>2
    <3> QED
      BY <1>1, <1>2, <1>4, <2>2, <3>1
  <2>3. CASE ~(j < p) /\ j # p
    <3>1. j - 1 \in 1 .. n
      BY <1>1, <2>3
    <3> QED
      BY <1>1, <1>2, <1>4, <2>3, <3>1
  <2> QED
    BY <2>1, <2>2, <2>3
<1>5. own2[p] = c /\ area2[p] = e
  <2>1. ~(p < p)
    BY <1>1
  <2> QED
    BY <1>1, <1>2, <2>1
<1>6. ASSUME NEW d, d # c
      PROVE  Mine(area2, own2, d) = Mine(area, own, d)
  <2>1. \A x : x \in Mine(area2, own2, d) <=> \E j \in 1 .. n + 1 : own2[j] = d /\ area2[j] = x
    BY <1>1 DEF Mine
  <2>2. \A x : x \in Mine(area, own, d) <=> \E j \in 1 .. n : own[j] = d /\ area[j] = x
    BY <1>1 DEF Mine
  <2>3. \A x : x \in Mine(area2, own2, d) => x \in Mine(area, own, d)
    BY <1>4, <1>6, <2>1, <2>2
  <2>4. \A x : x \in Mine(area, own, d) => x \in Mine(area2, own2, d)
    BY <1>3, <2>1, <2>2
  <2> QED
    BY <2>3, <2>4
<1>7. Mine(area2, own2, c) = Mine(area, own, c) \union {e}
  <2>1. \A x : x \in Mine(area2, own2, c) <=> \E j \in 1 .. n + 1 : own2[j] = c /\ area2[j] = x
    BY <1>1 DEF Mine
  <2>2. \A x : x \in Mine(area, own, c) <=> \E j \in 1 .. n : own[j] = c /\ area[j] = x
    BY <1>1 DEF Mine
  <2>3. \A x : x \in Mine(area2, own2, c) => x \in Mine(area, own, c) \union {e}
    BY <1>4, <2>1, <2>2
  <2>4. \A x : x \in Mine(area, own, c) => x \in Mine(area2, own2, c)
    BY <1>3, <2>1, <2>2
  <2>5. e \in Mine(area2, own2, c)
    BY <1>1, <1>5, <2>1
  <2> QED
    BY <2>3, <2>4, <2>5
<1> QED
  BY <1>6, <1>7

\* What a write of a snapshot does to an exception it shared.
Less(e, b) == IF b = ORIGIN THEN e ELSE [e EXCEPT !.share = @ \ {b}]

\* The exception that add_exception_to_leaf makes.
NewFor(old, b, new, active) ==
    [share |-> IF b = ORIGIN THEN active \ SharedBy(old) ELSE {b}, chunk |-> new]

\* The exceptions of a chunk with one more.
WithNew(old, b, new, active) == {Less(e, b) : e \in old} \union {NewFor(old, b, new, active)}

\* add_exception_to_leaf in a leaf with room: the directory stays in order, and
\* the chunk has one exception more.
LEMMA NeatGrows ==
    ASSUME NEW l, Neat(l), NEW c, c \in Chunks, NEW new, new \in StoreChunks,
           NEW b, b \in Bit \union {ORIGIN}, NEW active, active \in SUBSET Bit, HasRoom(l, c),
           NEW x, x = AddExceptionToLeaf(l, c, new, b, active)
    PROVE  /\ Neat(x) /\ Rchunks(x) = Rchunks(l) \union {c}
           /\ \A d : d # c => Found(x, d) = Found(l, d)
           /\ Found(x, c) = WithNew(Found(l, c), b, new, active)
<1> DEFINE i == Place(l, c)
           old == Found(l, c)
           mine == IF old = {} THEN {} ELSE EMap(l, i) .. EMap(l, i + 1) - 1
           e == [offset |-> l.map[i].offset, rchunk |-> c]
           map == IF c \in Rchunks(l) THEN l.map ELSE InsertAt(l.map, i, e)
           area == [k \in DOMAIN l.area |->
                      IF k \in mine /\ b # ORIGIN
                      THEN [l.area[k] EXCEPT !.share = @ \ {b}] ELSE l.area[k]]
           exc == NewFor(old, b, new, active)
           map2 == Shift(map, i, -EXC)
           n == Len(l.area)
           p == EMap(l, i)
           area2 == InsertAt(area, p, exc)
           m == n + 1
<1>1. x = [map |-> map2, area |-> area2] /\ x.map = map2 /\ x.area = area2
  BY DEF AddExceptionToLeaf, NewFor
<1>2. Shaped(l) /\ Freespace(l) >= 0 /\ c \in Nat
  BY LeafAssumption DEF Neat
<1>3. PICK q, own : Lists(l.map, n, q, own)
  BY DEF Neat
<1>4. /\ Directory(l.map) /\ l.area \in Seq(Exception) /\ n \in Nat /\ Len(l.map) \in Nat \ {0}
      /\ Placed(l.map, n, q) /\ Lined(l.map, q) /\ Owned(l.map, n, q, own)
  BY <1>2, <1>3 DEF Shaped, Lists, Directory
<1>5. Shaped(x) /\ OneMore(l.area, x.area, new)
  BY <1>2, LeafGrows
<1>6. Len(x.area) = m
  BY <1>5 DEF OneMore
<1>7. /\ i \in 1 .. Len(l.map)
      /\ \A j \in 1 .. Len(l.map) - 1 : IF j < i THEN l.map[j].rchunk < c ELSE c <= l.map[j].rchunk
      /\ c \in Rchunks(l) => i \in 1 .. Len(l.map) - 1 /\ l.map[i].rchunk = c
      /\ c \notin Rchunks(l) => \A j \in 1 .. Len(l.map) - 1 : l.map[j].rchunk # c
  BY <1>2, <1>3, PlaceInOrder
<1>8. \A j \in 1 .. Len(l.map) : EMap(l, j) = q[j]
  BY <1>2, <1>4, EMapIs
<1>9. p = q[i] /\ p \in 1 .. n + 1
  BY <1>4, <1>7, <1>8 DEF Placed
<1>10. /\ Rchunks(l) = {own[k] : k \in 1 .. n} /\ own \in [1 .. n -> Chunks]
       /\ \A d : Found(l, d) = Mine(l.area, own, d)
  <2>1. Shaped(l) /\ Lists(l.map, Len(l.area), q, own)
    BY <1>2, <1>3
  <2>2. /\ Rchunks(l) = {own[k] : k \in 1 .. Len(l.area)}
        /\ \A d : Found(l, d) = Mine(l.area, own, d)
    BY ONLY <2>1, ListsFound
  <2>3. own \in [1 .. n -> Chunks]
    BY <1>4 DEF Owned
  <2> QED
    BY <2>2, <2>3
<1>11. \A k \in 1 .. n : k \in mine <=> own[k] = c
  <2>1. CASE c \in Rchunks(l)
    <3>1. \E k \in 1 .. n : own[k] = c
      BY <1>10, <2>1
    <3>2. old # {}
      <4>1. PICK k \in 1 .. n : own[k] = c
        BY <3>1
      <4>2. k \in {j \in 1 .. Len(l.area) : own[j] = c}
        BY <4>1
      <4>3. l.area[k] \in Mine(l.area, own, c)
        BY <4>2 DEF Mine
      <4> QED
        BY <1>10, <4>3
    <3>3. i + 1 \in 1 .. Len(l.map) /\ i \in 1 .. Len(l.map) - 1
      BY <1>4, <1>7, <2>1
    <3>4. q[i] \in Int /\ q[i + 1] \in Int
      BY <1>4, <1>7, <3>3 DEF Placed
    <3>5. mine = q[i] .. q[i + 1] - 1
      BY <1>7, <1>8, <3>2, <3>3
    <3>6. \A k \in 1 .. n : own[k] = c <=> q[i] <= k /\ k < q[i + 1]
      <4> HIDE DEF n, i
      <4> TAKE k \in 1 .. n
      <4>1. Directory(l.map) /\ Lists(l.map, n, q, own) /\ i \in 1 .. Len(l.map) - 1
        BY <1>3, <1>4, <3>3
      <4>2. own[k] = l.map[i].rchunk <=> q[i] <= k /\ k < q[i + 1]
        BY ONLY <4>1, k \in 1 .. n, OwnRange
      <4> QED
        BY <1>7, <2>1, <4>2
    <3> HIDE DEF mine
    <3> TAKE k \in 1 .. n
    <3>7. k \in Int
      BY <1>4
    <3> QED
      BY <3>4, <3>5, <3>6, <3>7
  <2>2. CASE c \notin Rchunks(l)
    <3>1. old = {}
      BY <2>2 DEF Found
    <3> QED
      BY <1>10, <2>2, <3>1
  <2> QED
    BY <2>1, <2>2
<1> DEFINE own2 == OwnersPutIn(own, n, p, c)
<1>12. PICK q2 : Placed(map2, m, q2)
  <2> HIDE DEF map2, m
  <2> QED
    BY <1>1, <1>5, <1>6 DEF Shaped
<1>13. Lists(map2, m, q2, own2)
  <2>1. CASE c \in Rchunks(l)
    <3>1. map2 = Shift(l.map, i, -EXC) /\ own2 = OwnersPutIn(own, n, q[i], l.map[i].rchunk)
      BY <1>7, <1>9, <2>1
    <3> HIDE DEF map2, own2, i, n, m
    <3>2. m = n + 1 /\ i \in 1 .. Len(l.map) - 1
      BY <1>7, <2>1 DEF m
    <3> QED
      BY <1>3, <1>4, <1>12, <3>1, <3>2, ListsOneMore
  <2>2. CASE c \notin Rchunks(l)
    <3>1. /\ map2 = Shift(map, i, -EXC) /\ own2 = OwnersPutIn(own, n, q[i], c) /\ m = n + 1
          /\ map = InsertAt(l.map, i, [offset |-> l.map[i].offset, rchunk |-> c])
      BY <1>9, <2>2
    <3> HIDE DEF map2, own2, n, m, map, i
    <3>2. \A j \in 1 .. Len(l.map) - 1 : IF j < i THEN l.map[j].rchunk < c ELSE c < l.map[j].rchunk
      <4> TAKE j \in 1 .. Len(l.map) - 1
      <4>1. l.map[j].rchunk \in Chunks /\ l.map[j].rchunk # c
        BY <1>4, <1>7, <2>2 DEF Lined
      <4>2. l.map[j].rchunk \in Nat
        BY <4>1, LeafAssumption
      <4>3. IF j < i THEN l.map[j].rchunk < c ELSE c <= l.map[j].rchunk
        BY <1>7
      <4> QED
        BY <1>2, <4>1, <4>2, <4>3
    <3> QED
      BY <1>3, <1>4, <1>7, <1>12, <3>1, <3>2, ListsOneEntryMore
  <2> QED
    BY <2>1, <2>2
<1>14. area \in Seq(Exception) /\ Len(area) = n /\ \A k \in 1 .. n : area[k] = IF own[k] = c THEN Less(l.area[k], b) ELSE l.area[k]
  <2>1. l.area \in [1 .. n -> Exception] /\ n \in Nat /\ DOMAIN l.area = 1 .. n
    BY <1>4, LenProperties
  <2>2. ASSUME NEW k \in 1 .. n
        PROVE  area[k] \in Exception
    <3>1. l.area[k] \in [share : SUBSET Bit, chunk : StoreChunks]
      BY <2>1 DEF Exception
    <3> DEFINE f == l.area[k]
    <3>5. f \in [share : SUBSET Bit, chunk : StoreChunks]
      BY <3>1
    <3> HIDE DEF f
    <3>6. [f EXCEPT !.share = @ \ {b}] = [share |-> f.share \ {b}, chunk |-> f.chunk]
      BY <3>5, ShareTaken DEF Exception
    <3>2. [l.area[k] EXCEPT !.share = @ \ {b}] = [share |-> l.area[k].share \ {b}, chunk |-> l.area[k].chunk]
      BY <3>6 DEF f
    <3>3. area[k] = l.area[k] \/ area[k] = [share |-> l.area[k].share \ {b}, chunk |-> l.area[k].chunk]
      BY <2>1, <3>2
    <3> HIDE DEF area
    <3> QED
      BY <3>1, <3>3 DEF Exception
  <2>3. area = [k \in 1 .. n |-> area[k]]
    BY <2>1
  <2>4. \A k \in 1 .. n : area[k] = IF own[k] = c THEN Less(l.area[k], b) ELSE l.area[k]
    <3> TAKE k \in 1 .. n
    <3>1. area[k] = IF k \in mine /\ b # ORIGIN
                    THEN [l.area[k] EXCEPT !.share = @ \ {b}] ELSE l.area[k]
      BY <2>1
    <3> HIDE DEF area, mine
    <3> QED
      BY <1>11, <3>1 DEF Less
  <2> HIDE DEF area
  <2>5. area \in [1 .. n -> Exception]
    BY <2>2, <2>3
  <2> QED
    BY <2>1, <2>4, <2>5, FunctionIsList
<1>15. exc \in Exception
  <2> DEFINE share == IF b = ORIGIN THEN active \ SharedBy(old) ELSE {b}
  <2>1. share \in SUBSET Bit
    <3>1. b # ORIGIN => b \in Bit
      OBVIOUS
    <3> QED
      BY <3>1
  <2> HIDE DEF share
  <2>2. [share |-> share, chunk |-> new] \in Exception
    BY <2>1 DEF Exception
  <2> QED
    BY <2>2 DEF NewFor, share
<1> HIDE DEF map2, exc, mine, map, p, n, m
<1>16. /\ \A d : d # c => Mine(area2, own2, d) = Mine(area, own, d)
       /\ Mine(area2, own2, c) = Mine(area, own, c) \union {exc}
  <2> HIDE DEF area, area2, own2
  <2>1. area2 = InsertAt(area, p, exc) /\ own2 = OwnersPutIn(own, n, p, c)
    BY DEF area2, own2
  <2> QED
    <3>1. area \in Seq(Exception) /\ n = Len(area) /\ p \in 1 .. n + 1 /\ exc \in Exception
      BY <1>9, <1>14, <1>15
    <3> QED
      BY ONLY <2>1, <3>1, MinePutIn
<1> HIDE DEF area, area2, own2
<1>17. /\ Rchunks(x) = {own2[k] : k \in 1 .. m}
       /\ \A d : Found(x, d) = Mine(area2, own2, d)
  <2>1. Lists(x.map, Len(x.area), q2, own2)
    BY <1>1, <1>6, <1>13
  <2>2. /\ Rchunks(x) = {own2[k] : k \in 1 .. Len(x.area)}
        /\ \A d : Found(x, d) = Mine(x.area, own2, d)
    <3>1. Shaped(x)
      BY <1>5
    <3> QED
      BY ONLY <2>1, <3>1, ListsFound
  <2>3. x.area = area2 /\ Len(x.area) = m
    BY <1>1, <1>6 DEF area2, p, exc, area
  <2> QED
    BY ONLY <2>2, <2>3
<1>18. ASSUME NEW d, d # c
       PROVE  Found(x, d) = Found(l, d)
  <2>1. Mine(area, own, d) = Mine(l.area, own, d)
    <3>1. \A k \in 1 .. n : own[k] = d => area[k] = l.area[k]
      BY <1>14, <1>18
    <3>2. Len(area) = n /\ Len(l.area) = n
      BY <1>14 DEF n
    <3> QED
      BY <3>1, <3>2 DEF Mine
  <2> QED
    BY <1>10, <1>16, <1>17, <1>18, <2>1
<1>19. Found(x, c) = WithNew(old, b, new, active)
  <2>1. Mine(area, own, c) = {Less(f, b) : f \in Mine(l.area, own, c)}
    <3>1. \A k \in 1 .. n : own[k] = c => area[k] = Less(l.area[k], b)
      BY <1>14
    <3>2. Len(area) = n /\ Len(l.area) = n
      BY <1>14 DEF n
    <3> QED
      BY <3>1, <3>2 DEF Mine
  <2>2. old = Mine(l.area, own, c)
    BY <1>10
  <2>3. Found(x, c) = Mine(area, own, c) \union {exc}
    BY <1>16, <1>17
  <2> QED
    BY <2>1, <2>2, <2>3 DEF WithNew, exc
<1>20. Rchunks(x) = Rchunks(l) \union {c}
  <2>1. \A k \in 1 .. m : own2[k] = IF k < p THEN own[k] ELSE IF k = p THEN c ELSE own[k - 1]
    BY DEF own2, OwnersPutIn, m
  <2>2. \A k \in 1 .. m : own2[k] \in Rchunks(l) \union {c}
    <3> TAKE k \in 1 .. m
    <3>1. k < p => k \in 1 .. n
      BY <1>4, <1>9 DEF m, n
    <3>2. ~(k < p) /\ k # p => k - 1 \in 1 .. n
      BY <1>4, <1>9 DEF m, n
    <3> QED
      BY <1>10, <2>1, <3>1, <3>2
  <2>3. \A k \in 1 .. n : \E j \in 1 .. m : own2[j] = own[k]
    <3> TAKE k \in 1 .. n
    <3>0. n \in Nat /\ p \in 1 .. n + 1 /\ m = n + 1
      BY <1>4, <1>9 DEF m, n
    <3>1. CASE k < p
      <4>1. k \in 1 .. m
        BY <3>0
      <4> QED
        BY <2>1, <3>1, <4>1
    <3>2. CASE ~(k < p)
      <4>1. k + 1 \in 1 .. m /\ ~(k + 1 < p) /\ k + 1 # p /\ (k + 1) - 1 = k
        BY <3>0, <3>2
      <4> QED
        BY <2>1, <4>1
    <3> QED
      BY <3>1, <3>2
  <2>4. \E j \in 1 .. m : own2[j] = c
    <3>1. p \in 1 .. m /\ ~(p < p)
      BY <1>4, <1>9 DEF m, n
    <3> QED
      BY <2>1, <3>1
  <2> QED
    BY <1>10, <1>17, <2>2, <2>3, <2>4
<1>21. Freespace(x) >= 0
  <2>1. /\ Freespace(l) = LeafSize - 2 * n - Len(l.map)
        /\ Freespace(x) = LeafSize - 2 * (n + 1) - Len(map2)
    BY <1>1, <1>2, <1>5, <1>6, FreeIs DEF n, m
  <2>2. Freespace(l) >= Need(l, c) /\ LeafSize \in Int /\ n \in Int /\ Len(l.map) \in Int
    BY <1>4, LeafAssumption DEF HasRoom
  <2>3. CASE c \in Rchunks(l)
    <3>1. Len(map2) = Len(l.map) /\ Need(l, c) = 2
      <4>1. map2 = Shift(l.map, i, -2)
        BY <2>3 DEF map2, map, EXC
      <4> QED
        BY <1>4, <2>3, <4>1, ShiftIs DEF Need, EXC
    <3> QED
      <4>1. Freespace(l) = LeafSize - 2 * n - Len(l.map) /\ Freespace(l) >= 2
        BY <2>1, <2>2, <3>1
      <4>2. Freespace(x) = LeafSize - 2 * (n + 1) - Len(l.map)
        BY <2>1, <3>1
      <4>3. LeafSize \in Int /\ n \in Int /\ Len(l.map) \in Int
        BY <2>2
      <4> DEFINE k == Len(l.map)
      <4>4. /\ Freespace(l) = LeafSize - 2 * n - k /\ Freespace(l) >= 2
            /\ Freespace(x) = LeafSize - 2 * (n + 1) - k
            /\ LeafSize \in Int /\ n \in Int /\ k \in Int
        BY <4>1, <4>2, <4>3
      <4> HIDE DEF k
      <4> QED
        BY ONLY <4>4
  <2>4. CASE c \notin Rchunks(l)
    <3>1. Len(map2) = Len(l.map) + 1 /\ Need(l, c) = 3
      <4>1. map2 = Shift(map, i, -2) /\ map = InsertAt(l.map, i, e)
        BY <2>4 DEF map2, map, EXC
      <4>2. l.map[i] \in MapEntry /\ l.map \in Seq(MapEntry)
        BY <1>4, <1>7 DEF Directory
      <4>3. e \in MapEntry
        BY <1>2, <4>2 DEF MapEntry
      <4> HIDE DEF e, i
      <4>4. map \in Seq(MapEntry) /\ Len(map) = Len(l.map) + 1
        <5>1. i \in 1 .. Len(l.map) + 1
          BY <1>4, <1>7
        <5>2. map = InsertAt(l.map, i, e)
          BY <4>1
        <5>3. map \in Seq(MapEntry) /\ Inserted(l.map, i, e, map)
          BY ONLY <4>2, <4>3, <5>1, <5>2, InsertAtIs
        <5> QED
          BY ONLY <5>3 DEF Inserted
      <4>5. Directory(map)
        BY <1>4, <4>4 DEF Directory
      <4>6. Len(map2) = Len(map)
        BY <4>1, <4>5, ShiftIs
      <4> QED
        BY <2>4, <4>4, <4>6 DEF Need, EXC, ENTRY
    <3> QED
      <4>1. Freespace(l) = LeafSize - 2 * n - Len(l.map) /\ Freespace(l) >= 3
        BY <2>1, <2>2, <3>1
      <4>2. Freespace(x) = LeafSize - 2 * (n + 1) - (Len(l.map) + 1)
        BY <2>1, <3>1
      <4>3. LeafSize \in Int /\ n \in Int /\ Len(l.map) \in Int
        BY <2>2
      <4> DEFINE k == Len(l.map)
      <4>4. /\ Freespace(l) = LeafSize - 2 * n - k /\ Freespace(l) >= 3
            /\ Freespace(x) = LeafSize - 2 * (n + 1) - (k + 1)
            /\ LeafSize \in Int /\ n \in Int /\ k \in Int
        BY <4>1, <4>2, <4>3
      <4> HIDE DEF k
      <4> QED
        BY ONLY <4>4
  <2> QED
    BY <2>3, <2>4
<1>22. Neat(x)
  <2>1. Lists(x.map, Len(x.area), q2, own2)
    BY <1>1, <1>6, <1>13
  <2> QED
    BY <1>5, <1>21, <2>1 DEF Neat
<1> QED
  BY <1>18, <1>19, <1>20, <1>22

\* The exceptions of the chunks before an entry's are in front of its range.
LEMMA OwnBefore ==
    ASSUME NEW map, Directory(map), NEW n, NEW q, NEW own, Lists(map, n, q, own),
           NEW i, i \in 1 .. Len(map) - 1, NEW k, k \in 1 .. n
    PROVE  own[k] < map[i].rchunk <=> k < q[i]
<1> DEFINE len == Len(map)
<1>1. /\ len \in Nat \ {0} /\ n \in Nat /\ q \in [1 .. len -> 1 .. n + 1]
      /\ Placed(map, n, q) /\ Lined(map, q) /\ Owned(map, n, q, own) /\ i \in 1 .. len - 1
  BY DEF Lists, Placed, Directory
<1>2. PICK j \in 1 .. len - 1 : q[j] <= k /\ k < q[j + 1]
  BY <1>1, EntryOver
<1>3. own[k] = map[j].rchunk
  BY <1>1, <1>2 DEF Owned
<1>4. /\ map[i].rchunk \in Chunks /\ map[j].rchunk \in Chunks
      /\ i < j => map[i].rchunk < map[j].rchunk
      /\ j < i => map[j].rchunk < map[i].rchunk
  BY <1>1, <1>2 DEF Lined
<1>5. \A d \in Chunks : d \in Int
  BY LeafAssumption
<1>6. i \in Int /\ j \in Int /\ q[i] \in Int /\ q[j] \in Int /\ q[j + 1] \in Int /\ k \in Int
  <2>1. i \in 1 .. len /\ j \in 1 .. len /\ j + 1 \in 1 .. len
    BY <1>1, <1>2
  <2> QED
    BY <1>1, <1>2, <2>1
<1>7. j + 1 <= i => q[j + 1] <= q[i]
  <2>1. i \in 1 .. len /\ j + 1 \in 1 .. len
    BY <1>1, <1>2
  <2> QED
    BY <1>1, <2>1 DEF Placed
<1>8. i <= j => q[i] <= q[j]
  <2>1. i \in 1 .. len /\ j \in 1 .. len
    BY <1>1, <1>2
  <2> QED
    BY <1>1, <2>1 DEF Placed
<1>9. j < i <=> k < q[i]
  BY ONLY <1>2, <1>6, <1>7, <1>8
<1>10. i = j => map[i].rchunk = map[j].rchunk
  OBVIOUS
<1>11. j < i <=> map[j].rchunk < map[i].rchunk
  BY ONLY <1>4, <1>5, <1>6, <1>10
<1> QED
  BY <1>3, <1>9, <1>11

\* Directory map2 has the entries of map from a to before b, by d further on.
Part(map, n, q, own, a, b, map2, d, m, q2, own2) ==
    /\ Directory(map) /\ Lists(map, n, q, own)
    /\ a \in 1 .. Len(map) /\ b \in a .. Len(map)
    /\ Len(map2) = (b - a) + 1 /\ map2[(b - a) + 1].rchunk = 0
    /\ \A j \in 1 .. b - a : map2[j].rchunk = map[(a - 1) + j].rchunk
    /\ d \in Int /\ \A j \in 1 .. (b - a) + 1 : map2[j].offset = map[(a - 1) + j].offset + d
    /\ m = q[b] - q[a] /\ Placed(map2, m, q2)
    /\ own2 = [k \in 1 .. m |-> own[(q[a] - 1) + k]]

\* It lists the exceptions of theirs.
LEMMA ListsPart ==
    ASSUME NEW map, NEW n, NEW q, NEW own, NEW a, NEW b, NEW map2, NEW d, NEW m, NEW q2, NEW own2,
           Part(map, n, q, own, a, b, map2, d, m, q2, own2)
    PROVE  Lists(map2, m, q2, own2)
<1> SUFFICES ASSUME Directory(map), Lists(map, n, q, own),
                    a \in 1 .. Len(map), b \in a .. Len(map),
                    Len(map2) = (b - a) + 1, map2[(b - a) + 1].rchunk = 0,
                    \A j \in 1 .. b - a : map2[j].rchunk = map[(a - 1) + j].rchunk, d \in Int,
                    \A j \in 1 .. (b - a) + 1 : map2[j].offset = map[(a - 1) + j].offset + d,
                    m = q[b] - q[a], Placed(map2, m, q2),
                    own2 = [k \in 1 .. m |-> own[(q[a] - 1) + k]]
             PROVE  Lists(map2, m, q2, own2)
  BY DEF Part
<1> DEFINE len == Len(map)
           len2 == (b - a) + 1
<1>1. /\ len \in Nat \ {0} /\ n \in Nat /\ q \in [1 .. len -> 1 .. n + 1] /\ LeafSize \in Int
      /\ own \in [1 .. n -> Chunks] /\ a \in 1 .. len /\ b \in a .. len
      /\ a \in Int /\ b \in Int /\ a <= b /\ b \in 1 .. len
  <2>1. /\ len \in Nat \ {0} /\ n \in Nat /\ q \in [1 .. len -> 1 .. n + 1] /\ LeafSize \in Int
        /\ own \in [1 .. n -> Chunks]
    <3>1. n \in Nat /\ q \in [1 .. len -> 1 .. n + 1] /\ own \in [1 .. n -> Chunks]
      BY DEF Lists, Placed, Owned
    <3> QED
      BY <3>1, LeafAssumption DEF Directory
  <2>2. a \in 1 .. len /\ b \in a .. len
    OBVIOUS
  <2> HIDE DEF len
  <2> QED
    BY <2>1, <2>2
<1>2. \A j \in 1 .. len : map[j].offset = LeafSize - 2 * ((n + 1) - q[j])
  BY DEF Lists, Placed, EXC
<1>3. /\ \A j \in 1 .. len - 1 : map[j].rchunk \in Chunks /\ q[j] < q[j + 1]
      /\ \A j, k \in 1 .. len - 1 : j < k => map[j].rchunk < map[k].rchunk
      /\ \A j \in 1 .. len - 1 : \A k \in 1 .. n :
            q[j] <= k /\ k < q[j + 1] => own[k] = map[j].rchunk
      /\ \A j, k \in 1 .. len : j <= k => q[j] <= q[k]
  BY DEF Lists, Placed, Lined, Owned
<1> DEFINE qa == q[a]
           qb == q[b]
<1>4. /\ qa \in 1 .. n + 1 /\ qb \in 1 .. n + 1 /\ qa <= qb /\ m \in Nat /\ m = qb - qa
      /\ qa \in Int /\ qb \in Int
  <2>1. q[a] \in 1 .. n + 1 /\ q[b] \in 1 .. n + 1 /\ q[a] <= q[b]
    BY <1>1, <1>3
  <2> QED
    BY <1>1, <2>1
<1>5. /\ q2 \in [1 .. len2 -> 1 .. m + 1] /\ q2[len2] = m + 1
      /\ \A j \in 1 .. len2 : map2[j].offset = LeafSize - 2 * ((m + 1) - q2[j])
  BY DEF Placed, EXC
<1>17. own2 = [k \in 1 .. m |-> own[(qa - 1) + k]]
  OBVIOUS
<1>18. map[b].offset = LeafSize - 2 * ((n + 1) - qb)
  BY <1>1, <1>2
<1> HIDE DEF len, len2, qa, qb
<1>6. len2 = (b - a) + 1 /\ len2 \in 1 .. len2 /\ (a - 1) + len2 = b /\ len2 \in Int
  BY <1>1 DEF len2
<1>7. \A j \in 1 .. len2 : (a - 1) + j \in 1 .. len /\ (a - 1) + j \in a .. b /\ j \in Int
  BY <1>1, <1>6
<1>8. d = 2 * ((n + 1) - qb)
  <2>3. map2[len2].offset = map[b].offset + d
    BY <1>6 DEF len2
  <2>1. LeafSize - 2 * ((m + 1) - (m + 1)) = (LeafSize - 2 * ((n + 1) - qb)) + d
    BY <1>5, <1>6, <1>18, <2>3
  <2>2. m \in Int /\ LeafSize \in Int /\ n \in Int /\ qb \in Int /\ d \in Int
    BY <1>1, <1>4
  <2> QED
    BY ONLY <2>1, <2>2
<1>9. ASSUME NEW j \in 1 .. len2
      PROVE  q2[j] = (q[(a - 1) + j] - qa) + 1
  <2> DEFINE o == q[(a - 1) + j]
  <2>1. LeafSize - 2 * ((m + 1) - q2[j]) = (LeafSize - 2 * ((n + 1) - o)) + 2 * ((n + 1) - qb)
    BY <1>2, <1>5, <1>7, <1>8 DEF len2
  <2> DEFINE z == q2[j]
  <2>2. /\ m = qb - qa /\ m \in Int /\ LeafSize \in Int /\ n \in Int /\ qb \in Int /\ qa \in Int
        /\ o \in Int /\ z \in Int
    <3>1. (a - 1) + j \in 1 .. len
      BY <1>7
    <3>2. q[(a - 1) + j] \in 1 .. n + 1
      BY <1>1, <3>1
    <3>3. q2[j] \in 1 .. m + 1
      BY <1>5
    <3>4. q[(a - 1) + j] \in Int
      BY <1>1, <3>2
    <3>5. q2[j] \in Int
      BY <1>4, <3>3
    <3> QED
      BY ONLY <1>1, <1>4, <3>4, <3>5
  <2>4. LeafSize - 2 * ((m + 1) - z) = (LeafSize - 2 * ((n + 1) - o)) + 2 * ((n + 1) - qb)
    BY <2>1
  <2> HIDE DEF o, z
  <2>5. z = (o - qa) + 1
    BY ONLY <2>2, <2>4
  <2>3. q2[j] = (o - qa) + 1
    BY <2>5 DEF z
  <2> QED
    BY <2>3 DEF o
<1>10. ASSUME NEW j \in 1 .. len2 - 1
       PROVE  /\ (a - 1) + j \in 1 .. len - 1 /\ ((a - 1) + j) + 1 = (a - 1) + (j + 1)
              /\ j \in 1 .. len2 /\ j + 1 \in 1 .. len2 /\ j \in 1 .. b - a
  <2>1. len \in Int /\ a \in Int /\ b \in Int /\ 1 <= a /\ a <= b /\ b <= len /\ len2 = (b - a) + 1
    BY <1>1, <1>6
  <2>2. j \in Int /\ 1 <= j /\ j <= b - a
    BY <2>1
  <2> QED
    BY ONLY <2>1, <2>2
<1>11. ASSUME NEW j \in 1 .. len2 - 1
       PROVE  /\ q2[j] = (q[(a - 1) + j] - qa) + 1
              /\ q2[j + 1] = (q[((a - 1) + j) + 1] - qa) + 1
              /\ q[(a - 1) + j] < q[((a - 1) + j) + 1]
              /\ q[(a - 1) + j] \in Int /\ q[((a - 1) + j) + 1] \in Int
              /\ map2[j].rchunk = map[(a - 1) + j].rchunk /\ map[(a - 1) + j].rchunk \in Chunks
  <2>1. /\ (a - 1) + j \in 1 .. len - 1 /\ ((a - 1) + j) + 1 = (a - 1) + (j + 1)
        /\ j \in 1 .. len2 /\ j + 1 \in 1 .. len2 /\ j \in 1 .. b - a
    BY <1>10
  <2>2. (a - 1) + j \in 1 .. len /\ ((a - 1) + j) + 1 \in 1 .. len
    BY <1>7, <2>1
  <2>3. q2[j] = (q[(a - 1) + j] - qa) + 1
    BY <1>9, <2>1
  <2>4. q2[j + 1] = (q[((a - 1) + j) + 1] - qa) + 1
    BY <1>9, <2>1
  <2>5. q[(a - 1) + j] \in Int /\ q[((a - 1) + j) + 1] \in Int
    <3>1. q[(a - 1) + j] \in 1 .. n + 1 /\ q[((a - 1) + j) + 1] \in 1 .. n + 1
      BY ONLY <1>1, <2>2
    <3>2. \A x \in 1 .. n + 1 : x \in Int
      BY ONLY <1>1
    <3> QED
      BY ONLY <3>1, <3>2
  <2> QED
    BY <1>3, <2>1, <2>3, <2>4, <2>5
<1>12. Lined(map2, q2)
  <2>1. \A j \in 1 .. len2 - 1 : map2[j].rchunk \in Chunks /\ q2[j] < q2[j + 1]
    <3> TAKE j \in 1 .. len2 - 1
    <3> DEFINE u == q[(a - 1) + j]
               v == q[((a - 1) + j) + 1]
    <3>1. /\ qa \in Int /\ u \in Int /\ v \in Int /\ u < v /\ q2[j] = (u - qa) + 1
          /\ q2[j + 1] = (v - qa) + 1 /\ map2[j].rchunk \in Chunks
      BY <1>4, <1>11
    <3> HIDE DEF u, v
    <3> QED
      BY ONLY <3>1
  <2>2. \A j, k \in 1 .. len2 - 1 : j < k => map2[j].rchunk < map2[k].rchunk
    <3> SUFFICES ASSUME NEW j \in 1 .. len2 - 1, NEW k \in 1 .. len2 - 1, j < k
                 PROVE  map2[j].rchunk < map2[k].rchunk
      OBVIOUS
    <3>1. (a - 1) + j < (a - 1) + k
      BY <1>1, <1>6
    <3>2. (a - 1) + j \in 1 .. len - 1 /\ (a - 1) + k \in 1 .. len - 1
      BY <1>10
    <3>3. map[(a - 1) + j].rchunk < map[(a - 1) + k].rchunk
      BY <1>3, <3>1, <3>2
    <3> QED
      BY <1>11, <3>3
  <2>3. Len(map2) = len2 /\ map2[len2].rchunk = 0
    BY DEF len2
  <2> QED
    BY <2>1, <2>2, <2>3 DEF Lined
<1>13. \A k \in 1 .. m : (qa - 1) + k \in 1 .. n
  <2>1. n \in Nat
    BY <1>1
  <2> QED
    BY ONLY <1>4, <2>1
<1>14. own2 \in [1 .. m -> Chunks]
  <2>1. \A k \in 1 .. m : own[(qa - 1) + k] \in Chunks
    BY ONLY <1>1, <1>13
  <2> QED
    BY ONLY <1>17, <2>1
<1>15. ASSUME NEW j \in 1 .. len2 - 1, NEW k \in 1 .. m, q2[j] <= k, k < q2[j + 1]
       PROVE  own2[k] = map2[j].rchunk
  <2>1. q[(a - 1) + j] <= (qa - 1) + k /\ (qa - 1) + k < q[((a - 1) + j) + 1]
    <3> DEFINE u == q[(a - 1) + j]
               v == q[((a - 1) + j) + 1]
               z1 == q2[j]
               z2 == q2[j + 1]
    <3>1. /\ qa \in Int /\ k \in Int /\ u \in Int /\ v \in Int /\ z1 = (u - qa) + 1
          /\ z2 = (v - qa) + 1 /\ z1 <= k /\ k < z2
      BY <1>1, <1>4, <1>11, <1>15
    <3> HIDE DEF u, v, z1, z2
    <3>2. u <= (qa - 1) + k /\ (qa - 1) + k < v
      BY ONLY <3>1
    <3> QED
      BY <3>2 DEF u, v
  <2>2. own[(qa - 1) + k] = map[(a - 1) + j].rchunk
    BY <1>3, <1>10, <1>13, <2>1
  <2> QED
    BY <1>11, <1>17, <2>2
<1>16. Owned(map2, m, q2, own2)
  <2>1. Len(map2) = len2
    BY DEF len2
  <2> QED
    BY <1>14, <1>15, <2>1 DEF Owned
<1> QED
  BY <1>12, <1>16 DEF Lists

\* The first entries of a list.
LEMMA FrontOf ==
    ASSUME NEW S, NEW s, s \in Seq(S), NEW b, b \in 1 - 1 .. Len(s), NEW t, t = SubSeq(s, 1, b)
    PROVE  /\ t \in Seq(S) /\ Len(t) = (b - 1) + 1
           /\ \A k \in 1 .. (b - 1) + 1 : t[k] = s[1 + k - 1]
<1>1. Len(s) \in Nat /\ b \in Int /\ b >= 0 /\ b <= Len(s)
  BY LenProperties
<1>2. \A i \in 1 .. b : s[i] \in S
  <2> TAKE i \in 1 .. b
  <2>1. i \in 1 .. Len(s)
    BY <1>1
  <2> QED
    BY <2>1, ElementOfSeq
<1>3. /\ t \in Seq(S) /\ Len(t) = IF 1 <= b THEN b - 1 + 1 ELSE 0
      /\ \A i \in 1 .. b - 1 + 1 : t[i] = s[1 + i - 1]
  BY <1>1, <1>2, SubSeqProperties
<1>4. Len(t) = (b - 1) + 1
  BY <1>1, <1>3
<1> QED
  BY <1>3, <1>4

\* Of a leaf cut in front of entry i, the lower part.
LowerPart(l, q, own, i, key, x, q2, m) ==
    /\ Shaped(l) /\ Lists(l.map, Len(l.area), q, own)
    /\ i \in 1 .. Len(l.map) - 1 /\ key = l.map[i].rchunk
    /\ Shaped(x) /\ x.area = SubSeq(l.area, 1, q[i] - 1) /\ m = q[i] - q[1]
    /\ Lists(x.map, m, q2, [k \in 1 .. m |-> own[(q[1] - 1) + k]])

\* It has the chunks before the entry's.
LEMMA LowerFound ==
    ASSUME NEW l, NEW q, NEW own, NEW i, NEW key, NEW x, NEW q2, NEW m,
           LowerPart(l, q, own, i, key, x, q2, m)
    PROVE  /\ Rchunks(x) = {c \in Rchunks(l) : c < key}
           /\ \A c : c < key => Found(x, c) = Found(l, c)
<1> SUFFICES ASSUME Shaped(l), Lists(l.map, Len(l.area), q, own),
                    i \in 1 .. Len(l.map) - 1, key = l.map[i].rchunk,
                    Shaped(x), x.area = SubSeq(l.area, 1, q[i] - 1), m = q[i] - q[1],
                    Lists(x.map, m, q2, [k \in 1 .. m |-> own[(q[1] - 1) + k]])
             PROVE  /\ Rchunks(x) = {c \in Rchunks(l) : c < key}
                    /\ \A c : c < key => Found(x, c) = Found(l, c)
  BY DEF LowerPart
<1> DEFINE map == l.map
           area == l.area
           n == Len(area)
           p == q[i]
           own2 == [k \in 1 .. m |-> own[(q[1] - 1) + k]]
<1>1. /\ n \in Nat /\ area \in Seq(Exception) /\ Len(map) \in Nat \ {0}
      /\ q \in [1 .. Len(map) -> 1 .. n + 1] /\ own \in [1 .. n -> Chunks] /\ q[1] = 1
  BY DEF Shaped, Directory, Lists, Placed, Owned
<1>2. p \in 1 .. n + 1 /\ m = p - 1 /\ m \in Nat
  <2>1. q[i] \in 1 .. n + 1
    BY <1>1
  <2> HIDE DEF n
  <2> QED
    BY <1>1, <2>1
<1>3. \A k \in 1 .. n : own[k] < key <=> k < p
  <2>1. Directory(l.map) /\ Lists(l.map, Len(l.area), q, own)
    BY DEF Shaped
  <2> QED
    BY ONLY <2>1, i \in 1 .. Len(l.map) - 1, key = l.map[i].rchunk, OwnBefore
<1>4. /\ Rchunks(l) = {own[k] : k \in 1 .. n}
      /\ \A c : Found(l, c) = Mine(area, own, c)
  BY ListsFound
<1>5. x.area \in Seq(Exception) /\ Len(x.area) = m /\ \A k \in 1 .. m : x.area[k] = area[k]
  <2> DEFINE b == p - 1
  <2>1. b \in 1 - 1 .. n /\ 1 \in 1 .. n + 1 /\ b = m
    BY <1>1, <1>2
  <2>2. x.area = SubSeq(area, 1, b)
    OBVIOUS
  <2> HIDE DEF b, n, area
  <2>3. 1 \in 1 .. Len(area) + 1 /\ b \in 1 - 1 .. Len(area)
    BY <2>1 DEF n
  <2>4. /\ x.area \in Seq(Exception) /\ Len(x.area) = (b - 1) + 1
        /\ \A k \in 1 .. (b - 1) + 1 : x.area[k] = area[1 + k - 1]
    <3>1. area \in Seq(Exception) /\ b \in 1 - 1 .. Len(area) /\ x.area = SubSeq(area, 1, b)
      BY <1>1, <2>2, <2>3
    <3>2. /\ x.area \in Seq(Exception) /\ Len(x.area) = (b - 1) + 1
          /\ \A k \in 1 .. (b - 1) + 1 : x.area[k] = area[1 + k - 1]
      BY ONLY <3>1, FrontOf
    <3> QED
      BY <3>2
  <2>5. (b - 1) + 1 = m
    BY <1>2, <2>1
  <2>6. \A k \in 1 .. m : 1 + k - 1 = k
    BY <1>2
  <2> QED
    BY <2>4, <2>5, <2>6
<1>6. \A k \in 1 .. m : own2[k] = own[k] /\ k \in 1 .. n /\ k < p
  <2> TAKE k \in 1 .. m
  <2>1. (q[1] - 1) + k = k
    BY <1>1, <1>2
  <2>2. own2[k] = own[k]
    BY <2>1
  <2> QED
    BY <1>1, <1>2, <2>2
<1> HIDE DEF n, p, own2, area
<1>7. \A k \in 1 .. n : k < p => k \in 1 .. m
  BY <1>1, <1>2
<1>8. /\ Rchunks(x) = {own2[k] : k \in 1 .. m}
      /\ \A c : Found(x, c) = Mine(x.area, own2, c)
  <2>1. Lists(x.map, Len(x.area), q2, own2)
    BY <1>5 DEF own2
  <2>2. /\ Rchunks(x) = {own2[k] : k \in 1 .. Len(x.area)}
        /\ \A c : Found(x, c) = Mine(x.area, own2, c)
    BY ONLY Shaped(x), <2>1, ListsFound
  <2> QED
    BY <1>5, <2>2
<1>9. Rchunks(x) = {c \in Rchunks(l) : c < key}
  <2>1. \A k \in 1 .. m : own2[k] \in Rchunks(l) /\ own2[k] < key
    BY <1>3, <1>4, <1>6
  <2>2. \A k \in 1 .. n : own[k] < key => own[k] \in Rchunks(x)
    <3> TAKE k \in 1 .. n
    <3> QED
      BY <1>3, <1>6, <1>7, <1>8
  <2> QED
    BY <1>4, <1>8, <2>1, <2>2
<1>10. ASSUME NEW c, c < key
       PROVE  Found(x, c) = Found(l, c)
  <2>1. \A e : e \in Mine(x.area, own2, c) <=> \E k \in 1 .. m : own2[k] = c /\ x.area[k] = e
    BY <1>5 DEF Mine
  <2>2. \A e : e \in Mine(area, own, c) <=> \E k \in 1 .. n : own[k] = c /\ area[k] = e
    BY DEF Mine, n
  <2>3. ASSUME NEW k \in 1 .. m, own2[k] = c
        PROVE  x.area[k] \in Mine(area, own, c)
    <3>1. own[k] = c /\ k \in 1 .. n /\ x.area[k] = area[k]
      BY <1>5, <1>6, <2>3
    <3> QED
      BY <2>2, <3>1
  <2>4. ASSUME NEW k \in 1 .. n, own[k] = c
        PROVE  area[k] \in Mine(x.area, own2, c)
    <3>1. k \in 1 .. m
      BY <1>3, <1>7, <1>10, <2>4
    <3>2. own2[k] = c /\ x.area[k] = area[k]
      BY <1>5, <1>6, <2>4, <3>1
    <3> QED
      BY <2>1, <3>1, <3>2
  <2>5. Mine(x.area, own2, c) = Mine(area, own, c)
    BY <2>1, <2>2, <2>3, <2>4
  <2> QED
    BY <1>4, <1>8, <2>5
<1> QED
  BY <1>9, <1>10

\* Of a leaf cut in front of entry i, the upper part.
UpperPart(l, q, own, i, key, y, q2, m) ==
    /\ Shaped(l) /\ Lists(l.map, Len(l.area), q, own)
    /\ i \in 1 .. Len(l.map) - 1 /\ key = l.map[i].rchunk
    /\ Shaped(y) /\ y.area = SubSeq(l.area, q[i], Len(l.area)) /\ m = (Len(l.area) + 1) - q[i]
    /\ Lists(y.map, m, q2, [k \in 1 .. m |-> own[(q[i] - 1) + k]])

\* It has the entry's chunk and those behind it.
LEMMA UpperFound ==
    ASSUME NEW l, NEW q, NEW own, NEW i, NEW key, NEW y, NEW q2, NEW m,
           UpperPart(l, q, own, i, key, y, q2, m)
    PROVE  /\ Rchunks(y) = {c \in Rchunks(l) : ~(c < key)}
           /\ \A c : ~(c < key) => Found(y, c) = Found(l, c)
<1> SUFFICES ASSUME Shaped(l), Lists(l.map, Len(l.area), q, own),
                    i \in 1 .. Len(l.map) - 1, key = l.map[i].rchunk,
                    Shaped(y), y.area = SubSeq(l.area, q[i], Len(l.area)),
                    m = (Len(l.area) + 1) - q[i],
                    Lists(y.map, m, q2, [k \in 1 .. m |-> own[(q[i] - 1) + k]])
             PROVE  /\ Rchunks(y) = {c \in Rchunks(l) : ~(c < key)}
                    /\ \A c : ~(c < key) => Found(y, c) = Found(l, c)
  BY DEF UpperPart
<1> DEFINE map == l.map
           area == l.area
           n == Len(area)
           p == q[i]
           own2 == [k \in 1 .. m |-> own[(p - 1) + k]]
<1>1. /\ n \in Nat /\ area \in Seq(Exception) /\ Len(map) \in Nat \ {0}
      /\ q \in [1 .. Len(map) -> 1 .. n + 1] /\ own \in [1 .. n -> Chunks] /\ q[1] = 1
  BY DEF Shaped, Directory, Lists, Placed, Owned
<1>2. p \in 1 .. n + 1 /\ m = (n + 1) - p /\ m \in Nat /\ p \in Int
  <2>1. q[i] \in 1 .. n + 1
    BY <1>1
  <2> HIDE DEF n
  <2> QED
    BY <1>1, <2>1 DEF n
<1>3. \A k \in 1 .. n : own[k] < key <=> k < p
  <2>1. Directory(l.map) /\ Lists(l.map, Len(l.area), q, own)
    BY DEF Shaped
  <2> QED
    BY ONLY <2>1, i \in 1 .. Len(l.map) - 1, key = l.map[i].rchunk, OwnBefore
<1>4. /\ Rchunks(l) = {own[k] : k \in 1 .. n}
      /\ \A c : Found(l, c) = Mine(area, own, c)
  BY ListsFound
<1>5. y.area \in Seq(Exception) /\ Len(y.area) = m /\ \A k \in 1 .. m : y.area[k] = area[(p - 1) + k]
  <2>2. y.area = SubSeq(area, p, n)
    OBVIOUS
  <2> HIDE DEF n, area, p
  <2>3. p \in 1 .. Len(area) + 1 /\ n \in p - 1 .. Len(area)
    BY <1>1, <1>2 DEF n
  <2>4. /\ y.area \in Seq(Exception) /\ Len(y.area) = (n - p) + 1
        /\ \A k \in 1 .. (n - p) + 1 : y.area[k] = area[p + k - 1]
    BY <1>1, <2>2, <2>3, SubSeqProperties
  <2>5. (n - p) + 1 = m
    BY <1>1, <1>2
  <2>6. \A k \in 1 .. m : p + k - 1 = (p - 1) + k
    BY <1>2
  <2> QED
    BY <2>4, <2>5, <2>6
<1> HIDE DEF n, p, area
<1>6. \A k \in 1 .. m : own2[k] = own[(p - 1) + k] /\ (p - 1) + k \in 1 .. n /\ ~((p - 1) + k < p)
  BY <1>1, <1>2
<1>11. Lists(y.map, m, q2, own2)
  BY DEF p
<1> HIDE DEF own2
<1>7. \A k \in 1 .. n : ~(k < p) => (k - p) + 1 \in 1 .. m /\ (p - 1) + ((k - p) + 1) = k
  BY <1>1, <1>2
<1>8. /\ Rchunks(y) = {own2[k] : k \in 1 .. m}
      /\ \A c : Found(y, c) = Mine(y.area, own2, c)
  <2>1. Lists(y.map, Len(y.area), q2, own2)
    BY <1>5, <1>11
  <2>2. /\ Rchunks(y) = {own2[k] : k \in 1 .. Len(y.area)}
        /\ \A c : Found(y, c) = Mine(y.area, own2, c)
    BY ONLY Shaped(y), <2>1, ListsFound
  <2> QED
    BY <1>5, <2>2
<1>9. Rchunks(y) = {c \in Rchunks(l) : ~(c < key)}
  <2>1. \A k \in 1 .. m : own2[k] \in Rchunks(l) /\ ~(own2[k] < key)
    BY <1>3, <1>4, <1>6
  <2>2. ASSUME NEW k \in 1 .. n, ~(own[k] < key)
        PROVE  own[k] \in Rchunks(y)
    <3>1. (k - p) + 1 \in 1 .. m /\ (p - 1) + ((k - p) + 1) = k
      BY <1>3, <1>7, <2>2
    <3>2. own2[(k - p) + 1] = own[k]
      BY <1>6, <3>1
    <3> QED
      BY <1>8, <3>1, <3>2
  <2> QED
    BY <1>4, <1>8, <2>1, <2>2
<1>10. ASSUME NEW c, ~(c < key)
       PROVE  Found(y, c) = Found(l, c)
  <2>1. \A e : e \in Mine(y.area, own2, c) <=> \E k \in 1 .. m : own2[k] = c /\ y.area[k] = e
    BY <1>5 DEF Mine
  <2>2. \A e : e \in Mine(area, own, c) <=> \E k \in 1 .. n : own[k] = c /\ area[k] = e
    BY DEF Mine, n
  <2>3. ASSUME NEW k \in 1 .. m, own2[k] = c
        PROVE  y.area[k] \in Mine(area, own, c)
    <3>1. own[(p - 1) + k] = c /\ (p - 1) + k \in 1 .. n /\ y.area[k] = area[(p - 1) + k]
      BY <1>5, <1>6, <2>3
    <3> QED
      BY <2>2, <3>1
  <2>4. ASSUME NEW k \in 1 .. n, own[k] = c
        PROVE  area[k] \in Mine(y.area, own2, c)
    <3>1. (k - p) + 1 \in 1 .. m /\ (p - 1) + ((k - p) + 1) = k
      BY <1>3, <1>7, <1>10, <2>4
    <3>2. own2[(k - p) + 1] = c /\ y.area[(k - p) + 1] = area[k]
      BY <1>5, <1>6, <2>4, <3>1
    <3> QED
      BY <2>1, <3>1, <3>2
  <2>5. Mine(y.area, own2, c) = Mine(area, own, c)
    BY <2>1, <2>2, <2>3, <2>4
  <2> QED
    BY <1>4, <1>8, <2>5
<1> QED
  BY <1>9, <1>10

\* split_leaf: each half has the chunks on its side of the split point with
\* their exceptions, and room for one more.
LEMMA NeatHalves ==
    ASSUME NEW l, Neat(l), Count(l) >= 2, NEW x, x = Head1(l), NEW y, y = Tail1(l),
           NEW key, key = SplitPoint(l)
    PROVE  /\ Neat(x) /\ Neat(y) /\ key \in Rchunks(l) /\ \E c \in Rchunks(l) : c < key
           /\ Rchunks(x) = {c \in Rchunks(l) : c < key}
           /\ Rchunks(y) = {c \in Rchunks(l) : ~(c < key)}
           /\ \A c : c < key => Found(x, c) = Found(l, c)
           /\ \A c : ~(c < key) => Found(y, c) = Found(l, c)
           /\ Freespace(x) >= 3 /\ Freespace(y) >= 3
<1> DEFINE len == Len(l.map)
           n == Len(l.area)
           h == Nhead(l)
           i == h + 1
           tail == l.map[len].offset - l.map[i].offset
           e == [l.map[i] EXCEPT !.rchunk = 0]
           mapX == Append(SubSeq(l.map, 1, h), e)
           p == EMap(l, i)
<1>1. Shaped(l) /\ Freespace(l) >= 0
  BY DEF Neat
<1>2. PICK q, own : Lists(l.map, n, q, own)
  BY DEF Neat
<1>3. /\ len \in Nat /\ h \in Nat /\ Count(l) = len - 1 /\ len >= 3 /\ i \in 1 .. len - 1 /\ i >= 2
      /\ i + 1 <= len
  <2>1. len \in Nat \ {0} /\ Count(l) = len - 1
    BY <1>1, FreeIs
  <2>2. h = len \div 2
    <3>1. (len - 1) + 1 = len
      BY <2>1
    <3> QED
      BY <2>1, <3>1 DEF Nhead
  <2> HIDE DEF h
  <2>3. len >= 3
    BY <2>1
  <2> HIDE DEF len
  <2>4. h \in Nat /\ h >= 1 /\ h + 1 <= len - 1
    BY <2>1, <2>2, <2>3
  <2> QED
    BY <2>1, <2>3, <2>4
<1>4. /\ Directory(l.map) /\ l.map \in Seq(MapEntry) /\ l.area \in Seq(Exception) /\ n \in Nat
      /\ Placed(l.map, n, q) /\ Lined(l.map, q) /\ Owned(l.map, n, q, own)
  BY <1>1, <1>2 DEF Shaped, Lists, Directory
<1>5. p = q[i] /\ q[i] \in 1 .. n + 1 /\ q[1] = 1 /\ q[len] = n + 1 /\ q[i] \in Int
  <2>1. i \in 1 .. len
    BY <1>3
  <2>2. p = q[i]
    BY <1>1, <1>4, <2>1, EMapIs
  <2>3. q[i] \in 1 .. n + 1 /\ q[1] = 1 /\ q[len] = n + 1
    BY <1>4, <2>1 DEF Placed
  <2> QED
    BY <1>4, <2>2, <2>3
<1>6. x = [map |-> Shift(mapX, i, tail), area |-> SubSeq(l.area, 1, p - 1)]
  BY <1>3 DEF Head1
<1>7. y = [map |-> SubSeq(l.map, i, len), area |-> SubSeq(l.area, p, n)]
  BY <1>3 DEF Tail1
<1>8. Shaped(x) /\ Shaped(y)
  BY <1>1, LeafHalves
<1>9. x.map = Shift(mapX, i, tail) /\ x.area = SubSeq(l.area, 1, q[i] - 1)
  BY <1>5, <1>6
<1>10. y.map = SubSeq(l.map, i, len) /\ y.area = SubSeq(l.area, q[i], n)
  <2>1. y.map = SubSeq(l.map, i, len) /\ y.area = SubSeq(l.area, p, n)
    <3> DEFINE ymap == SubSeq(l.map, i, len)
               yarea == SubSeq(l.area, p, n)
    <3>1. y = [map |-> ymap, area |-> yarea]
      BY <1>7
    <3> HIDE DEF ymap, yarea
    <3>2. y.map = ymap /\ y.area = yarea
      BY <3>1
    <3> QED
      BY <3>2 DEF ymap, yarea
  <2> HIDE DEF p, i, len
  <2> QED
    BY <1>5, <2>1
<1>11. e \in MapEntry /\ e.rchunk = 0 /\ e.offset = l.map[i].offset
  <2>1. l.map[i] \in MapEntry
    BY <1>3, <1>4, ElementOfSeq
  <2> DEFINE f == l.map[i]
  <2>2. f \in [offset : Int, rchunk : Int]
    BY <2>1 DEF MapEntry
  <2> HIDE DEF f
  <2>3. [f EXCEPT !.rchunk = 0] \in [offset : Int, rchunk : Int]
    BY <2>2
  <2>4. [f EXCEPT !.rchunk = 0].rchunk = 0 /\ [f EXCEPT !.rchunk = 0].offset = f.offset
    BY <2>2
  <2> QED
    BY <2>3, <2>4 DEF f, MapEntry
<1>12. l.map[len].offset \in Int /\ l.map[i].offset \in Int /\ tail \in Int
  <2>1. l.map[len] \in MapEntry /\ l.map[i] \in MapEntry
    BY <1>3, <1>4, ElementOfSeq
  <2> QED
    BY <2>1 DEF MapEntry
<1> HIDE DEF h, i, tail, e, mapX, p, n, len
<1>13. /\ mapX \in Seq(MapEntry) /\ Len(mapX) = i
       /\ \A j \in 1 .. i : mapX[j] = IF j = i THEN e ELSE l.map[j]
  <2>1. h \in 1 - 1 .. Len(l.map) /\ (h - 1) + 1 = h /\ i = h + 1 /\ h \in Nat
    BY <1>3 DEF i, len
  <2> DEFINE s == SubSeq(l.map, 1, h)
  <2>2. /\ s \in Seq(MapEntry) /\ Len(s) = (h - 1) + 1
        /\ \A k \in 1 .. (h - 1) + 1 : s[k] = l.map[1 + k - 1]
    <3>1. l.map \in Seq(MapEntry) /\ h \in 1 - 1 .. Len(l.map) /\ s = SubSeq(l.map, 1, h)
      BY <1>4, <2>1
    <3> HIDE DEF s
    <3> QED
      BY ONLY <3>1, FrontOf
  <2>3. mapX = Append(s, e)
    BY DEF mapX
  <2> HIDE DEF s
  <2>4. /\ mapX \in Seq(MapEntry) /\ Len(mapX) = Len(s) + 1
        /\ \A k \in 1 .. Len(s) : mapX[k] = s[k]
        /\ mapX[Len(s) + 1] = e
    BY <1>11, <2>2, <2>3, AppendProperties
  <2>5. Len(s) = h
    BY <2>1, <2>2
  <2>6. \A k \in 1 .. h : s[k] = l.map[k] /\ k # i
    <3> TAKE k \in 1 .. h
    <3>1. 1 + k - 1 = k /\ k # i
      BY <2>1
    <3> QED
      BY <2>1, <2>2, <3>1
  <2>7. \A j \in 1 .. i : j = i \/ j \in 1 .. h
    BY <2>1
  <2> QED
    BY <2>1, <2>4, <2>5, <2>6, <2>7
<1>14. /\ Len(x.map) = i
       /\ \A j \in 1 .. i : x.map[j].offset = l.map[j].offset + tail
       /\ x.map[i].rchunk = 0
       /\ \A j \in 1 .. i - 1 : x.map[j].rchunk = l.map[j].rchunk
  <2>1. Directory(mapX)
    BY <1>3, <1>13 DEF Directory, i
  <2>2. /\ Len(x.map) = Len(mapX)
        /\ \A j \in 1 .. Len(mapX) :
              x.map[j].offset = IF j <= i THEN mapX[j].offset + tail ELSE mapX[j].offset
        /\ \A j \in 1 .. Len(mapX) : x.map[j].rchunk = mapX[j].rchunk
    <3>1. x.map = Shift(mapX, i, tail) /\ tail \in Int
      BY <1>9, <1>12
    <3> QED
      BY ONLY <2>1, <3>1, ShiftIs, ShiftKeys
  <2>3. i \in Nat /\ i \in 1 .. i
    BY <1>3 DEF i
  <2>4. \A j \in 1 .. i : j <= i
    BY <2>3
  <2>5. \A j \in 1 .. i : mapX[j].offset = l.map[j].offset
    BY <1>11, <1>13
  <2>6. \A j \in 1 .. i : x.map[j].offset = l.map[j].offset + tail
    BY <1>13, <2>2, <2>4, <2>5
  <2>7. x.map[i].rchunk = 0
    BY <1>11, <1>13, <2>2, <2>3
  <2>8. \A j \in 1 .. i - 1 : j \in 1 .. i /\ j # i
    BY <2>3
  <2> QED
    BY <1>13, <2>2, <2>6, <2>7, <2>8
<1>15. /\ Len(y.map) = (len - i) + 1
       /\ \A j \in 1 .. (len - i) + 1 : y.map[j] = l.map[(i - 1) + j]
  <2>1. i \in 1 .. len /\ len \in i - 1 .. len /\ len \in Nat /\ i \in Int
    BY <1>3 DEF i
  <2>2. /\ Len(y.map) = IF i <= len THEN len - i + 1 ELSE 0
        /\ \A k \in 1 .. len - i + 1 : y.map[k] = l.map[i + k - 1]
    <3>1. \A k \in i .. len : l.map[k] \in MapEntry
      <4> TAKE k \in i .. len
      <4>1. k \in 1 .. Len(l.map)
        BY <2>1 DEF len
      <4> QED
        BY <1>4, <4>1, ElementOfSeq
    <3> QED
      BY <1>10, <2>1, <3>1, SubSeqProperties
  <2>3. \A k \in 1 .. (len - i) + 1 : i + k - 1 = (i - 1) + k
    BY <2>1
  <2> QED
    BY <2>1, <2>2, <2>3
<1>16. i \in Int /\ 2 <= i /\ i + 1 <= len /\ len \in Int /\ n \in Int /\ len \in 1 .. len /\ i \in 1 .. len
  BY <1>3, <1>4 DEF i, n
<1> DEFINE m == q[i] - q[1]
           ownX == [k \in 1 .. m |-> own[(q[1] - 1) + k]]
           m2 == (n + 1) - q[i]
           ownY == [k \in 1 .. m2 |-> own[(q[i] - 1) + k]]
<1>17. Len(x.area) = m /\ Len(y.area) = m2
  <2>1. Len(x.area) = q[i] - 1
    <3> DEFINE b == q[i] - 1
    <3>1. l.area \in Seq(Exception) /\ b \in 1 - 1 .. Len(l.area) /\ x.area = SubSeq(l.area, 1, b)
      BY <1>4, <1>5, <1>9 DEF n
    <3>2. b \in Int /\ b = q[i] - 1
      BY <1>5
    <3> HIDE DEF b
    <3>3. Len(x.area) = (b - 1) + 1
      BY ONLY <3>1, FrontOf
    <3> QED
      BY <3>2, <3>3
  <2>2. Len(y.area) = (n + 1) - q[i]
    <3> DEFINE b == q[i]
    <3>1. b \in 1 .. n + 1 /\ n \in Nat /\ y.area = SubSeq(l.area, b, n) /\ b \in Int /\ n \in Int
      BY <1>4, <1>5, <1>10 DEF n
    <3> HIDE DEF b
    <3>2. \A k \in b .. n : l.area[k] \in Exception
      <4> TAKE k \in b .. n
      <4>1. k \in 1 .. Len(l.area)
        BY <3>1 DEF n
      <4> QED
        BY <1>4, <4>1, ElementOfSeq
    <3>3. Len(y.area) = IF b <= n THEN n - b + 1 ELSE 0
      BY <3>1, <3>2, SubSeqProperties
    <3>4. Len(y.area) = (n + 1) - b
      BY <3>1, <3>3
    <3> QED
      BY <3>4 DEF b
  <2> QED
    BY <1>5, <2>1, <2>2
<1>18. PICK q2 : Placed(x.map, m, q2)
  BY <1>8, <1>17 DEF Shaped
<1>19. PICK q3 : Placed(y.map, m2, q3)
  BY <1>8, <1>17 DEF Shaped
<1>20. Lists(x.map, m, q2, ownX)
  <2> DEFINE a == 1
  <2> HIDE DEF m
  <2>1. /\ Directory(l.map) /\ Lists(l.map, n, q, own) /\ a \in 1 .. Len(l.map) /\ i \in a .. Len(l.map)
        /\ Len(x.map) = (i - a) + 1 /\ x.map[(i - a) + 1].rchunk = 0
        /\ tail \in Int /\ m = q[i] - q[a] /\ Placed(x.map, m, q2)
        /\ ownX = [k \in 1 .. m |-> own[(q[a] - 1) + k]]
    <3>1. (i - 1) + 1 = i /\ 1 \in 1 .. Len(l.map) /\ i \in 1 .. Len(l.map)
      BY <1>16 DEF len
    <3> QED
      BY <1>2, <1>4, <1>12, <1>14, <1>18, <3>1 DEF m
  <2>2. /\ \A j \in 1 .. i - a : x.map[j].rchunk = l.map[(a - 1) + j].rchunk
        /\ \A j \in 1 .. (i - a) + 1 : x.map[j].offset = l.map[(a - 1) + j].offset + tail
    <3>1. /\ \A j \in 1 .. i - 1 : (1 - 1) + j = j
          /\ (i - 1) + 1 = i /\ \A j \in 1 .. i : (1 - 1) + j = j
      BY <1>16
    <3> QED
      BY <1>14, <3>1
  <2> HIDE DEF a, ownX
  <2>3. Part(l.map, n, q, own, a, i, x.map, tail, m, q2, ownX)
    BY ONLY <2>1, <2>2 DEF Part
  <2> QED
    BY ONLY <2>3, ListsPart
<1>21. Lists(y.map, m2, q3, ownY)
  <2> DEFINE d == 0
  <2> HIDE DEF m2
  <2>1. /\ Directory(l.map) /\ Lists(l.map, n, q, own) /\ i \in 1 .. Len(l.map) /\ len \in i .. Len(l.map)
        /\ Len(y.map) = (len - i) + 1 /\ y.map[(len - i) + 1].rchunk = 0
        /\ d \in Int /\ m2 = q[len] - q[i] /\ Placed(y.map, m2, q3)
        /\ ownY = [k \in 1 .. m2 |-> own[(q[i] - 1) + k]]
    <3>1. len = Len(l.map) /\ len \in i .. len
      BY <1>16 DEF len
    <3>2. (len - i) + 1 \in 1 .. (len - i) + 1 /\ (i - 1) + ((len - i) + 1) = len
      BY <1>16
    <3>3. y.map[(len - i) + 1] = l.map[len]
      BY <1>15, <3>2
    <3>4. l.map[len].rchunk = 0
      BY <1>4 DEF Lined, len
    <3>5. i \in 1 .. Len(l.map) /\ len \in i .. Len(l.map)
      BY <1>16, <3>1
    <3>6. m2 = q[len] - q[i]
      BY <1>5 DEF m2
    <3> QED
      BY <1>2, <1>4, <1>15, <1>19, <3>3, <3>4, <3>5, <3>6
  <2>2. /\ \A j \in 1 .. len - i : y.map[j].rchunk = l.map[(i - 1) + j].rchunk
        /\ \A j \in 1 .. (len - i) + 1 : y.map[j].offset = l.map[(i - 1) + j].offset + d
    <3>1. \A j \in 1 .. len - i : j \in 1 .. (len - i) + 1
      BY <1>16
    <3>2. \A j \in 1 .. (len - i) + 1 : l.map[(i - 1) + j].offset \in Int
      <4> TAKE j \in 1 .. (len - i) + 1
      <4>1. (i - 1) + j \in 1 .. Len(l.map)
        BY <1>16 DEF len
      <4>2. l.map[(i - 1) + j] \in MapEntry
        BY <1>4, <4>1, ElementOfSeq
      <4> QED
        BY <4>2 DEF MapEntry
    <3> QED
      BY <1>15, <3>1, <3>2
  <2> HIDE DEF d, ownY
  <2>3. Part(l.map, n, q, own, i, len, y.map, d, m2, q3, ownY)
    BY ONLY <2>1, <2>2 DEF Part
  <2> QED
    BY ONLY <2>3, ListsPart
<1>22. key = l.map[i].rchunk /\ i \in 1 .. Len(l.map) - 1
  <2>1. key = l.map[h + 1].rchunk
    BY DEF SplitPoint, h
  <2> QED
    BY <1>3, <2>1 DEF i, len
<1>23. /\ Rchunks(x) = {c \in Rchunks(l) : c < key}
       /\ \A c : c < key => Found(x, c) = Found(l, c)
  <2>1. Shaped(l) /\ Lists(l.map, Len(l.area), q, own) /\ Shaped(x) /\ x.area = SubSeq(l.area, 1, q[i] - 1)
    BY <1>1, <1>2, <1>8, <1>9 DEF n
  <2>2. m = q[i] - q[1] /\ Lists(x.map, m, q2, [k \in 1 .. m |-> own[(q[1] - 1) + k]])
    BY <1>20
  <2> HIDE DEF m, ownX
  <2> QED
    <3>1. LowerPart(l, q, own, i, key, x, q2, m)
      BY ONLY <1>22, <2>1, <2>2 DEF LowerPart
    <3> QED
      BY ONLY <3>1, LowerFound
<1>24. /\ Rchunks(y) = {c \in Rchunks(l) : ~(c < key)}
       /\ \A c : ~(c < key) => Found(y, c) = Found(l, c)
  <2>1. Shaped(l) /\ Lists(l.map, Len(l.area), q, own) /\ Shaped(y) /\ y.area = SubSeq(l.area, q[i], Len(l.area))
    BY <1>1, <1>2, <1>8, <1>10 DEF n
  <2>2. m2 = (Len(l.area) + 1) - q[i] /\ Lists(y.map, m2, q3, [k \in 1 .. m2 |-> own[(q[i] - 1) + k]])
    BY <1>21 DEF n
  <2> HIDE DEF m2, ownY
  <2> QED
    <3>1. UpperPart(l, q, own, i, key, y, q3, m2)
      BY ONLY <1>22, <2>1, <2>2 DEF UpperPart
    <3> QED
      BY ONLY <3>1, UpperFound
<1>25. key \in Rchunks(l) /\ \E c \in Rchunks(l) : c < key
  <2>1. Rchunks(l) = {l.map[j].rchunk : j \in 1 .. len - 1}
    BY <1>3 DEF Rchunks, len
  <2>2. i \in 1 .. len - 1 /\ 1 \in 1 .. len - 1 /\ 1 < i
    BY <1>16
  <2>3. l.map[1].rchunk < l.map[i].rchunk
    BY <1>4, <2>2 DEF Lined, len
  <2> QED
    BY <1>22, <2>1, <2>2, <2>3
<1>26. Freespace(x) >= 3 /\ Freespace(y) >= 3
  <2> DEFINE u == q[i]
             fx == Freespace(x)
             fy == Freespace(y)
  <2>1. u > 1 /\ u < n + 1
    <3>1. 1 \in 1 .. len - 1 /\ i \in 1 .. len - 1 /\ i + 1 \in 1 .. len /\ 2 \in 1 .. len
      BY <1>16
    <3>2. q[1] < q[1 + 1] /\ q[i] < q[i + 1]
      BY <1>4, <3>1 DEF Lined, len
    <3>3. q[2] <= q[i] /\ q[i + 1] <= q[len]
      BY <1>4, <1>16, <3>1 DEF Placed, len
    <3>4. q[2] \in Int /\ q[i + 1] \in Int
      <4>1. q \in [1 .. len -> 1 .. n + 1]
        BY <1>4 DEF Placed, len
      <4>2. q[2] \in 1 .. n + 1 /\ q[i + 1] \in 1 .. n + 1
        BY <3>1, <4>1
      <4> QED
        BY <1>16, <4>2
    <3>5. 1 + 1 = 2
      OBVIOUS
    <3>6. q[1] < q[2]
      BY <3>2, <3>5
    <3> QED
      BY <1>5, <1>16, <3>2, <3>3, <3>4, <3>6
  <2>2. LeafSize - 2 * n - len >= 0
    BY <1>1, FreeIs DEF n, len
  <2>3. fx = LeafSize - 2 * (u - 1) - i
    <3>1. fx = LeafSize - 2 * Len(x.area) - Len(x.map)
      BY <1>8, FreeIs
    <3> QED
      BY <1>5, <1>14, <1>17, <3>1
  <2>4. fy = LeafSize - 2 * ((n + 1) - u) - ((len - i) + 1)
    <3>1. fy = LeafSize - 2 * Len(y.area) - Len(y.map)
      BY <1>8, FreeIs
    <3> QED
      BY <1>15, <1>17, <3>1
  <2>5. u \in Int /\ LeafSize \in Int
    BY <1>5, LeafAssumption
  <2> HIDE DEF u, fx, fy
  <2>6. fx >= 3 /\ fy >= 3
    BY ONLY <1>16, <2>1, <2>2, <2>3, <2>4, <2>5
  <2> QED
    BY <2>6 DEF fx, fy
<1>27. Neat(x) /\ Neat(y)
  <2>1. Lists(x.map, Len(x.area), q2, ownX) /\ Lists(y.map, Len(y.area), q3, ownY)
    BY <1>17, <1>20, <1>21
  <2>2. Freespace(x) >= 0 /\ Freespace(y) >= 0
    <3>1. Freespace(x) \in Int /\ Freespace(y) \in Int
      <4> DEFINE a1 == Len(x.area)
                 a2 == Len(x.map)
                 b1 == Len(y.area)
                 b2 == Len(y.map)
      <4>1. /\ Freespace(x) = LeafSize - 2 * a1 - a2 /\ a1 \in Int /\ a2 \in Int
            /\ Freespace(y) = LeafSize - 2 * b1 - b2 /\ b1 \in Int /\ b2 \in Int /\ LeafSize \in Int
        <5>1. Freespace(x) = LeafSize - 2 * a1 - a2 /\ a1 \in Int /\ a2 \in Int
          <6>1. Shaped(x)
            BY <1>8
          <6> QED
            BY ONLY <6>1, FreeIs
        <5>2. Freespace(y) = LeafSize - 2 * b1 - b2 /\ b1 \in Int /\ b2 \in Int
          <6>1. Shaped(y)
            BY <1>8
          <6> QED
            BY ONLY <6>1, FreeIs
        <5> QED
          BY <5>1, <5>2, LeafAssumption
      <4> HIDE DEF a1, a2, b1, b2
      <4> QED
        BY ONLY <4>1
    <3> QED
      BY <1>26, <3>1
  <2> QED
    BY <1>8, <2>1, <2>2 DEF Neat
<1> QED
  BY <1>23, <1>24, <1>25, <1>26, <1>27

\* Directory map has the entries of map1 and those of map2 behind them.
JoinOf(map1, n1, q1, own1, map2, n2, q2, own2, map, n, q, own) ==
    /\ Directory(map1) /\ Lists(map1, n1, q1, own1)
    /\ Directory(map2) /\ Lists(map2, n2, q2, own2)
    /\ \A i \in 1 .. Len(map1) - 1, j \in 1 .. Len(map2) - 1 : map1[i].rchunk < map2[j].rchunk
    /\ Len(map) = (Len(map1) - 1) + Len(map2)
    /\ \A j \in 1 .. Len(map1) - 1 :
          map[j].rchunk = map1[j].rchunk /\ map[j].offset = map1[j].offset - 2 * n2
    /\ \A j \in 1 .. Len(map2) : map[(Len(map1) - 1) + j] = map2[j]
    /\ n = n1 + n2 /\ Placed(map, n, q)
    /\ own = [k \in 1 .. n |-> IF k <= n1 THEN own1[k] ELSE own2[k - n1]]

\* It lists the exceptions of both.
LEMMA ListsJoined ==
    ASSUME NEW map1, NEW n1, NEW q1, NEW own1, NEW map2, NEW n2, NEW q2, NEW own2,
           NEW map, NEW n, NEW q, NEW own,
           JoinOf(map1, n1, q1, own1, map2, n2, q2, own2, map, n, q, own)
    PROVE  Lists(map, n, q, own)
<1> DEFINE len1 == Len(map1)
           len2 == Len(map2)
           h == len1 - 1
           len == h + len2
<1>1. /\ len1 \in Nat \ {0} /\ n1 \in Nat /\ q1 \in [1 .. len1 -> 1 .. n1 + 1]
      /\ own1 \in [1 .. n1 -> Chunks]
      /\ \A j \in 1 .. len1 : map1[j].offset = LeafSize - 2 * ((n1 + 1) - q1[j])
      /\ q1[len1] = n1 + 1
      /\ \A j \in 1 .. len1 - 1 : map1[j].rchunk \in Chunks /\ q1[j] < q1[j + 1]
      /\ \A j, k \in 1 .. len1 - 1 : j < k => map1[j].rchunk < map1[k].rchunk
      /\ \A j \in 1 .. len1 - 1 : \A k \in 1 .. n1 :
            q1[j] <= k /\ k < q1[j + 1] => own1[k] = map1[j].rchunk
  <2>1. Directory(map1) /\ Lists(map1, n1, q1, own1)
    BY DEF JoinOf
  <2>2. Placed(map1, n1, q1) /\ Lined(map1, q1) /\ Owned(map1, n1, q1, own1)
    BY <2>1 DEF Lists
  <2>3. len1 \in Nat \ {0}
    BY <2>1 DEF Directory
  <2>4. /\ n1 \in Nat /\ q1 \in [1 .. len1 -> 1 .. n1 + 1] /\ q1[len1] = n1 + 1
        /\ \A j \in 1 .. len1 : map1[j].offset = LeafSize - 2 * ((n1 + 1) - q1[j])
    BY <2>2 DEF Placed, EXC
  <2>5. /\ \A j \in 1 .. len1 - 1 : map1[j].rchunk \in Chunks /\ q1[j] < q1[j + 1]
        /\ \A j, k \in 1 .. len1 - 1 : j < k => map1[j].rchunk < map1[k].rchunk
    BY <2>2 DEF Lined
  <2>6. /\ own1 \in [1 .. n1 -> Chunks]
        /\ \A j \in 1 .. len1 - 1 : \A k \in 1 .. n1 :
              q1[j] <= k /\ k < q1[j + 1] => own1[k] = map1[j].rchunk
    BY <2>2 DEF Owned
  <2> QED
    BY <2>3, <2>4, <2>5, <2>6
<1>2. /\ len2 \in Nat \ {0} /\ n2 \in Nat /\ q2 \in [1 .. len2 -> 1 .. n2 + 1]
      /\ own2 \in [1 .. n2 -> Chunks] /\ q2[1] = 1
      /\ \A j \in 1 .. len2 : map2[j].offset = LeafSize - 2 * ((n2 + 1) - q2[j])
      /\ \A j \in 1 .. len2 - 1 : map2[j].rchunk \in Chunks /\ q2[j] < q2[j + 1]
      /\ \A j, k \in 1 .. len2 - 1 : j < k => map2[j].rchunk < map2[k].rchunk
      /\ map2[len2].rchunk = 0
      /\ \A j \in 1 .. len2 - 1 : \A k \in 1 .. n2 :
            q2[j] <= k /\ k < q2[j + 1] => own2[k] = map2[j].rchunk
  <2>1. Directory(map2) /\ Lists(map2, n2, q2, own2)
    BY DEF JoinOf
  <2>2. Placed(map2, n2, q2) /\ Lined(map2, q2) /\ Owned(map2, n2, q2, own2)
    BY <2>1 DEF Lists
  <2>3. len2 \in Nat \ {0}
    BY <2>1 DEF Directory
  <2>4. /\ n2 \in Nat /\ q2 \in [1 .. len2 -> 1 .. n2 + 1] /\ q2[1] = 1
        /\ \A j \in 1 .. len2 : map2[j].offset = LeafSize - 2 * ((n2 + 1) - q2[j])
    BY <2>2 DEF Placed, EXC
  <2>5. /\ \A j \in 1 .. len2 - 1 : map2[j].rchunk \in Chunks /\ q2[j] < q2[j + 1]
        /\ \A j, k \in 1 .. len2 - 1 : j < k => map2[j].rchunk < map2[k].rchunk
        /\ map2[len2].rchunk = 0
    BY <2>2 DEF Lined
  <2>6. /\ own2 \in [1 .. n2 -> Chunks]
        /\ \A j \in 1 .. len2 - 1 : \A k \in 1 .. n2 :
              q2[j] <= k /\ k < q2[j + 1] => own2[k] = map2[j].rchunk
    BY <2>2 DEF Owned
  <2> QED
    BY <2>3, <2>4, <2>5, <2>6
<1>3. /\ \A i \in 1 .. len1 - 1, j \in 1 .. len2 - 1 : map1[i].rchunk < map2[j].rchunk
      /\ Len(map) = len
      /\ \A j \in 1 .. h : map[j].rchunk = map1[j].rchunk /\ map[j].offset = map1[j].offset - 2 * n2
      /\ \A j \in 1 .. len2 : map[h + j] = map2[j]
      /\ n = n1 + n2 /\ Placed(map, n, q)
      /\ own = [k \in 1 .. n |-> IF k <= n1 THEN own1[k] ELSE own2[k - n1]]
  BY DEF JoinOf
<1>4. /\ q \in [1 .. len -> 1 .. n + 1]
      /\ \A j \in 1 .. len : map[j].offset = LeafSize - 2 * ((n + 1) - q[j])
  BY <1>3 DEF Placed, EXC
<1> HIDE DEF len1, len2, len
<1>5. /\ LeafSize \in Int /\ n1 \in Nat /\ n2 \in Nat /\ n \in Nat /\ n = n1 + n2 /\ h \in Nat
      /\ h = len1 - 1 /\ len = h + len2 /\ len1 \in Int /\ len2 \in Nat \ {0}
  <2>1. len = h + len2 /\ LeafSize \in Int
    BY LeafAssumption DEF len
  <2> QED
    BY <1>1, <1>2, <1>3, <2>1
<1> HIDE DEF h
<1>6. \A j \in 1 .. h : j \in 1 .. len1 /\ j \in 1 .. len1 - 1 /\ j \in 1 .. len /\ j + 1 \in 1 .. len1
  BY ONLY <1>5
<1>7. \A j \in 1 .. len2 : h + j \in 1 .. len /\ j \in Int
  BY ONLY <1>5
<1>8. ASSUME NEW j \in 1 .. h
      PROVE  q[j] = q1[j]
  <2> DEFINE z == q[j]
             u == q1[j]
  <2>1. j \in 1 .. len1 /\ j \in 1 .. len
    BY <1>6
  <2>2. q[j] \in 1 .. n + 1 /\ q1[j] \in 1 .. n1 + 1
    BY <1>1, <1>4, <2>1
  <2>3. LeafSize - 2 * ((n + 1) - z) = (LeafSize - 2 * ((n1 + 1) - u)) - 2 * n2
    BY <1>1, <1>3, <1>4, <2>1
  <2> HIDE DEF z, u
  <2>4. z \in Int /\ u \in Int
    BY <1>5, <2>2 DEF z, u
  <2>5. z = u
    BY ONLY <1>5, <2>3, <2>4
  <2> QED
    BY <2>5 DEF z, u
<1>9. ASSUME NEW j \in 1 .. len2
      PROVE  q[h + j] = n1 + q2[j]
  <2> DEFINE z == q[h + j]
             u == q2[j]
  <2>1. h + j \in 1 .. len
    BY <1>7
  <2>2. q[h + j] \in 1 .. n + 1 /\ q2[j] \in 1 .. n2 + 1
    BY <1>2, <1>4, <2>1
  <2>3. LeafSize - 2 * ((n + 1) - z) = LeafSize - 2 * ((n2 + 1) - u)
    <3>1. map[h + j] = map2[j] /\ map2[j].offset = LeafSize - 2 * ((n2 + 1) - u)
      BY <1>2, <1>3
    <3>2. map[h + j].offset = LeafSize - 2 * ((n + 1) - z)
      BY <1>4, <2>1
    <3> QED
      BY <3>1, <3>2
  <2> HIDE DEF z, u
  <2>4. z \in Int /\ u \in Int
    BY <1>5, <2>2 DEF z, u
  <2>5. z = n1 + u
    BY ONLY <1>5, <2>3, <2>4
  <2> QED
    BY <2>5 DEF z, u
<1>10. ASSUME NEW j \in 1 .. h
       PROVE  q[j + 1] = q1[j + 1]
  <2>1. CASE j + 1 \in 1 .. h
    BY <1>8, <2>1
  <2>2. CASE j + 1 \notin 1 .. h
    <3>1. j = h /\ j + 1 = len1 /\ j + 1 = h + 1 /\ 1 \in 1 .. len2
      BY ONLY <1>5, <2>2, j \in 1 .. h
    <3>2. q[h + 1] = n1 + 1
      BY <1>2, <1>9, <3>1
    <3> QED
      BY <1>1, <3>1, <3>2
  <2> QED
    BY <2>1, <2>2
<1>11. ASSUME NEW j \in 1 .. len - 1
       PROVE  \/ j \in 1 .. h
              \/ \E i \in 1 .. len2 - 1 : j = h + i /\ i \in 1 .. len2 /\ i + 1 \in 1 .. len2 /\ h + (i + 1) = j + 1
  <2>1. CASE j <= h
    BY <1>5, <2>1
  <2>2. CASE ~(j <= h)
    <3> DEFINE i == j - h
    <3>1. i \in 1 .. len2 - 1 /\ j = h + i /\ i \in 1 .. len2 /\ i + 1 \in 1 .. len2 /\ h + (i + 1) = j + 1
      BY <1>5, <2>2
    <3> QED
      BY <3>1
  <2> QED
    BY <2>1, <2>2
<1>12. \A j \in 1 .. len - 1 : map[j].rchunk \in Chunks /\ q[j] < q[j + 1]
  <2> TAKE j \in 1 .. len - 1
  <2>1. CASE j \in 1 .. h
    BY <1>1, <1>3, <1>6, <1>8, <1>10, <2>1
  <2>2. ASSUME NEW i \in 1 .. len2 - 1, j = h + i, i \in 1 .. len2, i + 1 \in 1 .. len2, h + (i + 1) = j + 1
        PROVE  map[j].rchunk \in Chunks /\ q[j] < q[j + 1]
    <3>1. q[j] = n1 + q2[i] /\ q[j + 1] = n1 + q2[i + 1] /\ map[j] = map2[i]
      BY <1>3, <1>9, <2>2
    <3>2. q2[i] < q2[i + 1] /\ q2[i] \in Int /\ q2[i + 1] \in Int /\ map2[i].rchunk \in Chunks
      <4>1. q2[i] \in 1 .. n2 + 1 /\ q2[i + 1] \in 1 .. n2 + 1
        BY ONLY <1>2, <2>2
      <4>2. \A x \in 1 .. n2 + 1 : x \in Int
        BY ONLY <1>5
      <4>3. q2[i] < q2[i + 1] /\ map2[i].rchunk \in Chunks
        BY ONLY <1>2, <2>2
      <4> QED
        BY ONLY <4>1, <4>2, <4>3
    <3> QED
      BY <1>5, <3>1, <3>2
  <2> QED
    BY <1>11, <2>1, <2>2
<1>13. \A j, k \in 1 .. len - 1 : j < k => map[j].rchunk < map[k].rchunk
  <2> SUFFICES ASSUME NEW j \in 1 .. len - 1, NEW k \in 1 .. len - 1, j < k
               PROVE  map[j].rchunk < map[k].rchunk
    OBVIOUS
  <2>1. CASE j \in 1 .. h /\ k \in 1 .. h
    BY <1>1, <1>3, <1>6, <2>1
  <2>2. ASSUME j \in 1 .. h, NEW i \in 1 .. len2 - 1, k = h + i, i \in 1 .. len2
        PROVE  map[j].rchunk < map[k].rchunk
    BY <1>3, <1>6, <2>2
  <2>3. ASSUME NEW i \in 1 .. len2 - 1, j = h + i, i \in 1 .. len2,
               NEW i2 \in 1 .. len2 - 1, k = h + i2, i2 \in 1 .. len2
        PROVE  map[j].rchunk < map[k].rchunk
    <3>1. i < i2
      BY <1>5, <2>3
    <3> QED
      BY <1>2, <1>3, <2>3, <3>1
  <2>4. ASSUME NEW i \in 1 .. len2 - 1, j = h + i, k \in 1 .. h
        PROVE  FALSE
    BY <1>5, <2>4
  <2> QED
    BY <1>11, <2>1, <2>2, <2>3, <2>4
<1>14. Lined(map, q)
  <2>1. len2 \in 1 .. len2 /\ h + len2 = len
    BY <1>5
  <2>2. map[len].rchunk = 0
    BY <1>2, <1>3, <2>1
  <2> QED
    BY <1>3, <1>12, <1>13, <2>2 DEF Lined
<1>15. own \in [1 .. n -> Chunks]
  <2>1. \A k \in 1 .. n : k <= n1 => k \in 1 .. n1
    BY <1>5
  <2>2. \A k \in 1 .. n : ~(k <= n1) => k - n1 \in 1 .. n2
    BY <1>5
  <2> QED
    BY <1>1, <1>2, <1>3, <2>1, <2>2
<1>16. ASSUME NEW j \in 1 .. len - 1, NEW k \in 1 .. n, q[j] <= k, k < q[j + 1]
       PROVE  own[k] = map[j].rchunk
  <2>1. CASE j \in 1 .. h
    <3>1. q1[j] <= k /\ k < q1[j + 1]
      BY <1>8, <1>10, <1>16, <2>1
    <3>2. q1[j + 1] \in 1 .. n1 + 1
      BY <1>1, <1>6, <2>1
    <3>3. k <= n1 /\ k \in 1 .. n1
      BY <1>5, <3>1, <3>2
    <3>4. own[k] = own1[k]
      BY <1>3, <3>3
    <3> QED
      BY <1>1, <1>3, <1>6, <2>1, <3>1, <3>3, <3>4
  <2>2. ASSUME NEW i \in 1 .. len2 - 1, j = h + i, i \in 1 .. len2, i + 1 \in 1 .. len2, h + (i + 1) = j + 1
        PROVE  own[k] = map[j].rchunk
    <3>1. q[j] = n1 + q2[i] /\ q[j + 1] = n1 + q2[i + 1] /\ map[j] = map2[i]
      BY <1>3, <1>9, <2>2
    <3>2. q2[i] \in 1 .. n2 + 1 /\ q2[i + 1] \in 1 .. n2 + 1
      BY <1>2, <2>2
    <3> DEFINE u == q2[i]
               v == q2[i + 1]
    <3>3. n1 + u <= k /\ k < n1 + v /\ u \in 1 .. n2 + 1 /\ v \in 1 .. n2 + 1
      BY <1>16, <3>1, <3>2
    <3> HIDE DEF u, v
    <3>4. ~(k <= n1) /\ k - n1 \in 1 .. n2 /\ u <= k - n1 /\ k - n1 < v
      BY ONLY <1>5, <3>3, k \in 1 .. n
    <3>5. own[k] = own2[k - n1]
      BY <1>3, <3>4
    <3> QED
      BY <1>2, <3>1, <3>4, <3>5 DEF u, v
  <2> QED
    BY <1>11, <2>1, <2>2
<1>17. Owned(map, n, q, own)
  BY <1>3, <1>15, <1>16 DEF Owned
<1> QED
  BY <1>3, <1>14, <1>17 DEF Lists

\* Two areas one behind the other, with the owners of both.
AreasJoined(area1, n1, own1, area2, n2, own2, area, n, own) ==
    /\ area1 \in Seq(Exception) /\ n1 = Len(area1)
    /\ area2 \in Seq(Exception) /\ n2 = Len(area2)
    /\ area = area1 \o area2 /\ n = n1 + n2
    /\ own = [k \in 1 .. n |-> IF k <= n1 THEN own1[k] ELSE own2[k - n1]]

\* A chunk has the exceptions it has in both.
LEMMA MineJoined ==
    ASSUME NEW area1, NEW n1, NEW own1, NEW area2, NEW n2, NEW own2, NEW area, NEW n, NEW own,
           AreasJoined(area1, n1, own1, area2, n2, own2, area, n, own)
    PROVE  /\ \A c : Mine(area, own, c) = Mine(area1, own1, c) \union Mine(area2, own2, c)
           /\ {own[k] : k \in 1 .. n} = {own1[k] : k \in 1 .. n1} \union {own2[k] : k \in 1 .. n2}
<1> SUFFICES ASSUME area1 \in Seq(Exception), n1 = Len(area1),
                    area2 \in Seq(Exception), n2 = Len(area2),
                    area = area1 \o area2, n = n1 + n2,
                    own = [k \in 1 .. n |-> IF k <= n1 THEN own1[k] ELSE own2[k - n1]]
             PROVE  /\ \A c : Mine(area, own, c) = Mine(area1, own1, c) \union Mine(area2, own2, c)
                    /\ {own[k] : k \in 1 .. n} = {own1[k] : k \in 1 .. n1} \union {own2[k] : k \in 1 .. n2}
  BY DEF AreasJoined
<1>1. /\ Len(area) = n /\ n1 \in Nat /\ n2 \in Nat /\ n = n1 + n2
      /\ \A k \in 1 .. n : area[k] = IF k <= n1 THEN area1[k] ELSE area2[k - n1]
  <2>1. n1 \in Nat /\ n2 \in Nat
    BY LenProperties
  <2> QED
    BY <2>1, ConcatAt
<1>2. \A k \in 1 .. n1 : k \in 1 .. n /\ own[k] = own1[k] /\ area[k] = area1[k]
  <2> TAKE k \in 1 .. n1
  <2>1. k \in 1 .. n /\ k <= n1
    BY <1>1
  <2> QED
    BY <1>1, <2>1
<1>3. \A k \in 1 .. n2 : n1 + k \in 1 .. n /\ own[n1 + k] = own2[k] /\ area[n1 + k] = area2[k]
  <2> TAKE k \in 1 .. n2
  <2>1. n1 + k \in 1 .. n /\ ~(n1 + k <= n1) /\ (n1 + k) - n1 = k
    BY <1>1
  <2> QED
    BY <1>1, <2>1
<1>4. \A k \in 1 .. n : k \in 1 .. n1 \/ \E j \in 1 .. n2 : k = n1 + j
  <2> TAKE k \in 1 .. n
  <2>1. CASE k <= n1
    BY <1>1, <2>1
  <2>2. CASE ~(k <= n1)
    <3>1. k - n1 \in 1 .. n2 /\ k = n1 + (k - n1)
      BY <1>1, <2>2
    <3> QED
      BY <3>1
  <2> QED
    BY <2>1, <2>2
<1>5. ASSUME NEW c
      PROVE  Mine(area, own, c) = Mine(area1, own1, c) \union Mine(area2, own2, c)
  <2>1. \A e : e \in Mine(area, own, c) <=> \E k \in 1 .. n : own[k] = c /\ area[k] = e
    BY <1>1 DEF Mine
  <2>2. \A e : e \in Mine(area1, own1, c) <=> \E k \in 1 .. n1 : own1[k] = c /\ area1[k] = e
    BY DEF Mine
  <2>3. \A e : e \in Mine(area2, own2, c) <=> \E k \in 1 .. n2 : own2[k] = c /\ area2[k] = e
    BY DEF Mine
  <2>4. ASSUME NEW k \in 1 .. n, own[k] = c
        PROVE  area[k] \in Mine(area1, own1, c) \union Mine(area2, own2, c)
    BY <1>2, <1>3, <1>4, <2>2, <2>3, <2>4
  <2>5. \A k \in 1 .. n1 : own1[k] = c => area1[k] \in Mine(area, own, c)
    <3> SUFFICES ASSUME NEW k \in 1 .. n1, own1[k] = c
                 PROVE  area1[k] \in Mine(area, own, c)
      OBVIOUS
    <3>1. k \in 1 .. n /\ own[k] = c /\ area[k] = area1[k]
      BY <1>2
    <3> QED
      BY <2>1, <3>1
  <2>6. \A k \in 1 .. n2 : own2[k] = c => area2[k] \in Mine(area, own, c)
    <3> SUFFICES ASSUME NEW k \in 1 .. n2, own2[k] = c
                 PROVE  area2[k] \in Mine(area, own, c)
      OBVIOUS
    <3>1. n1 + k \in 1 .. n /\ own[n1 + k] = c /\ area[n1 + k] = area2[k]
      BY <1>3
    <3> QED
      BY <2>1, <3>1
  <2> QED
    <3>1. \A e : e \in Mine(area, own, c) => e \in Mine(area1, own1, c) \union Mine(area2, own2, c)
      BY ONLY <2>1, <2>4
    <3>2. \A e : e \in Mine(area1, own1, c) => e \in Mine(area, own, c)
      BY ONLY <2>2, <2>5
    <3>3. \A e : e \in Mine(area2, own2, c) => e \in Mine(area, own, c)
      BY ONLY <2>3, <2>6
    <3> QED
      BY ONLY <3>1, <3>2, <3>3
<1>6. {own[k] : k \in 1 .. n} = {own1[k] : k \in 1 .. n1} \union {own2[k] : k \in 1 .. n2}
  <2>1. \A k \in 1 .. n : own[k] \in {own1[j] : j \in 1 .. n1} \union {own2[j] : j \in 1 .. n2}
    BY <1>2, <1>3, <1>4
  <2>2. \A k \in 1 .. n1 : own1[k] \in {own[j] : j \in 1 .. n}
    BY <1>2
  <2>3. \A k \in 1 .. n2 : own2[k] \in {own[j] : j \in 1 .. n}
    BY <1>3
  <2>4. \A x : x \in {own[j] : j \in 1 .. n} => x \in {own1[j] : j \in 1 .. n1} \union {own2[j] : j \in 1 .. n2}
    BY <2>1
  <2>5. \A x : x \in {own1[j] : j \in 1 .. n1} \union {own2[j] : j \in 1 .. n2} => x \in {own[j] : j \in 1 .. n}
    BY ONLY <2>2, <2>3
  <2> QED
    BY ONLY <2>4, <2>5
<1> QED
  BY <1>5, <1>6

\* The chunks of a leaf are the ones its directory has.
LEMMA RchunksIs ==
    ASSUME NEW l, Shaped(l)
    PROVE  Rchunks(l) = {l.map[i].rchunk : i \in 1 .. Len(l.map) - 1}
<1>1. Count(l) = Len(l.map) - 1
  BY FreeIs
<1> QED
  BY <1>1 DEF Rchunks

\* merge_leaves of a leaf and one with later chunks: the chunks of both, with
\* their exceptions.
LEMMA NeatMerges ==
    ASSUME NEW l, Neat(l), NEW l2, Neat(l2), CanMerge(l, l2),
           \A c \in Rchunks(l), d \in Rchunks(l2) : c < d,
           NEW x, x = MergeLeaves(l, l2)
    PROVE  /\ Neat(x) /\ Rchunks(x) = Rchunks(l) \union Rchunks(l2)
           /\ \A c : Found(x, c) = Found(l, c) \union Found(l2, c)
<1> DEFINE len1 == Len(l.map)
           len2 == Len(l2.map)
           n1 == Len(l.area)
           n2 == Len(l2.area)
           tail == l2.map[len2].offset - l2.map[1].offset
           moved == Shift(l.map, len1, -tail)
           front == SubSeq(moved, 1, len1 - 1)
           n == n1 + n2
<1>1. Shaped(l) /\ Freespace(l) >= 0 /\ Shaped(l2)
  BY DEF Neat
<1>2. PICK q1, own1 : Lists(l.map, n1, q1, own1)
  BY DEF Neat
<1>3. PICK q2, own2 : Lists(l2.map, n2, q2, own2)
  BY DEF Neat
<1>4. /\ Count(l) = len1 - 1 /\ len1 \in Nat \ {0} /\ n1 \in Nat /\ Count(l) + 1 = len1
      /\ Count(l2) = len2 - 1 /\ len2 \in Nat \ {0} /\ n2 \in Nat /\ Count(l2) + 1 = len2
  <2>1. Count(l) = len1 - 1 /\ len1 \in Nat \ {0} /\ n1 \in Nat
    BY <1>1, FreeIs
  <2>2. Count(l2) = len2 - 1 /\ len2 \in Nat \ {0} /\ n2 \in Nat
    BY <1>1, FreeIs
  <2> QED
    BY <2>1, <2>2
<1>5. /\ Directory(l.map) /\ l.map \in Seq(MapEntry) /\ l.area \in Seq(Exception)
      /\ Directory(l2.map) /\ l2.map \in Seq(MapEntry) /\ l2.area \in Seq(Exception)
  BY <1>1 DEF Shaped, Directory
<1>6. x.map = front \o l2.map /\ x.area = l.area \o l2.area
  <2>1. x = [map |-> front \o l2.map, area |-> l.area \o l2.area]
    BY <1>4 DEF MergeLeaves
  <2> DEFINE xmap == front \o l2.map
             xarea == l.area \o l2.area
  <2>2. x = [map |-> xmap, area |-> xarea]
    BY <2>1
  <2> HIDE DEF xmap, xarea
  <2>3. x.map = xmap /\ x.area = xarea
    BY <2>2
  <2> QED
    BY <2>3 DEF xmap, xarea
<1>7. Shaped(x)
  BY <1>1, LeavesJoined
<1>8. tail = 2 * n2 /\ tail \in Int
  <2>1. Placed(l2.map, n2, q2)
    BY <1>3 DEF Lists
  <2>2. 1 \in 1 .. len2 /\ len2 \in 1 .. len2
    BY <1>4
  <2>3. /\ l2.map[1].offset = LeafSize - 2 * ((n2 + 1) - 1)
        /\ l2.map[len2].offset = LeafSize - 2 * ((n2 + 1) - (n2 + 1))
    BY <2>1, <2>2 DEF Placed, EXC
  <2>4. LeafSize \in Int /\ n2 \in Int
    BY <1>4, LeafAssumption
  <2>5. tail = (LeafSize - 2 * ((n2 + 1) - (n2 + 1))) - (LeafSize - 2 * ((n2 + 1) - 1))
    BY <2>3
  <2> HIDE DEF tail, n2
  <2> QED
    BY ONLY <2>4, <2>5
<1> HIDE DEF len1, len2, n1, n2, tail, front, moved
<1> DEFINE h == len1 - 1
<1>9. /\ moved \in Seq(MapEntry) /\ Len(moved) = len1
      /\ \A j \in 1 .. len1 : moved[j].rchunk = l.map[j].rchunk /\ moved[j].offset = l.map[j].offset - 2 * n2
  <2> DEFINE by == -tail
  <2>1. moved = Shift(l.map, len1, by) /\ by \in Int
    BY <1>8 DEF moved
  <2> HIDE DEF by
  <2>2. /\ Directory(moved) /\ Len(moved) = Len(l.map)
        /\ \A j \in 1 .. Len(l.map) :
              moved[j].offset = IF j <= len1 THEN l.map[j].offset + by ELSE l.map[j].offset
        /\ \A j \in 1 .. Len(l.map) : moved[j].rchunk = l.map[j].rchunk
    <3>1. Directory(l.map)
      BY <1>5
    <3> QED
      BY ONLY <2>1, <3>1, ShiftIs, ShiftKeys
  <2>3. \A j \in 1 .. len1 : moved[j].offset = l.map[j].offset - 2 * n2
    <3> TAKE j \in 1 .. len1
    <3>1. l.map[j] \in MapEntry
      BY <1>5, ElementOfSeq DEF len1
    <3>2. l.map[j].offset \in Int
      BY <3>1 DEF MapEntry
    <3>3. j <= len1
      BY <1>4
    <3>4. moved[j].offset = l.map[j].offset + by
      BY <2>2, <3>3 DEF len1
    <3>5. by = -tail
      BY DEF by
    <3> QED
      BY <1>8, <3>2, <3>4, <3>5
  <2> QED
    BY <2>2, <2>3 DEF len1, Directory
<1>10. front \in Seq(MapEntry) /\ Len(front) = h /\ \A j \in 1 .. h : front[j] = moved[j]
  <2>1. moved \in Seq(MapEntry) /\ h \in 1 - 1 .. Len(moved) /\ front = SubSeq(moved, 1, h)
    BY <1>4, <1>9 DEF front
  <2>2. h \in Nat
    BY <1>4
  <2> HIDE DEF h
  <2>3. /\ front \in Seq(MapEntry) /\ Len(front) = (h - 1) + 1
        /\ \A k \in 1 .. (h - 1) + 1 : front[k] = moved[1 + k - 1]
    BY ONLY <2>1, FrontOf
  <2>4. (h - 1) + 1 = h /\ \A k \in 1 .. h : 1 + k - 1 = k
    BY <2>2
  <2> QED
    BY <2>3, <2>4
<1>11. /\ Len(x.map) = h + len2
       /\ \A i \in 1 .. h + len2 : x.map[i] = IF i <= h THEN front[i] ELSE l2.map[i - h]
  <2> HIDE DEF h
  <2>1. /\ front \in Seq(MapEntry) /\ l2.map \in Seq(MapEntry) /\ x.map = front \o l2.map
        /\ h = Len(front) /\ len2 = Len(l2.map)
    BY <1>5, <1>6, <1>10 DEF len2
  <2> QED
    BY ONLY <2>1, ConcatAt
<1>12. h \in Nat /\ len2 \in Nat /\ h = len1 - 1
  BY <1>4
<1> HIDE DEF h
<1>13. PICK q : Placed(x.map, n, q)
  <2>1. Len(x.area) = n
    <3>1. Len(x.area) = Len(l.area) + Len(l2.area)
      BY <1>5, <1>6, ChunksJoined
    <3> QED
      BY <3>1 DEF n1, n2
  <2> QED
    BY <1>7, <2>1 DEF Shaped
<1> DEFINE own == [k \in 1 .. n |-> IF k <= n1 THEN own1[k] ELSE own2[k - n1]]
<1>14. /\ Rchunks(l) = {own1[k] : k \in 1 .. n1}
       /\ \A c : Found(l, c) = Mine(l.area, own1, c)
  BY <1>1, <1>2, ListsFound DEF n1
<1>15. /\ Rchunks(l2) = {own2[k] : k \in 1 .. n2}
       /\ \A c : Found(l2, c) = Mine(l2.area, own2, c)
  BY <1>1, <1>3, ListsFound DEF n2
<1>16. Lists(x.map, n, q, own)
  <2>1. /\ Directory(l.map) /\ Lists(l.map, n1, q1, own1)
        /\ Directory(l2.map) /\ Lists(l2.map, n2, q2, own2)
        /\ n = n1 + n2 /\ Placed(x.map, n, q)
        /\ own = [k \in 1 .. n |-> IF k <= n1 THEN own1[k] ELSE own2[k - n1]]
    BY <1>2, <1>3, <1>5, <1>13
  <2>2. \A i \in 1 .. Len(l.map) - 1, j \in 1 .. Len(l2.map) - 1 : l.map[i].rchunk < l2.map[j].rchunk
    <3>1. \A i \in 1 .. Len(l.map) - 1 : l.map[i].rchunk \in Rchunks(l)
      BY <1>1, RchunksIs
    <3>2. \A j \in 1 .. Len(l2.map) - 1 : l2.map[j].rchunk \in Rchunks(l2)
      BY <1>1, RchunksIs
    <3> QED
      BY <3>1, <3>2
  <2>3. Len(x.map) = (Len(l.map) - 1) + Len(l2.map)
    BY <1>11, <1>12 DEF len1, len2
  <2>4. \A j \in 1 .. Len(l.map) - 1 :
           x.map[j].rchunk = l.map[j].rchunk /\ x.map[j].offset = l.map[j].offset - 2 * n2
    <3> SUFFICES ASSUME NEW j \in 1 .. h
                 PROVE  x.map[j].rchunk = l.map[j].rchunk /\ x.map[j].offset = l.map[j].offset - 2 * n2
      BY <1>12 DEF len1
    <3>1. j \in 1 .. h + len2 /\ j <= h /\ j \in 1 .. len1
      BY <1>4, <1>12
    <3>2. x.map[j] = moved[j]
      BY <1>10, <1>11, <3>1
    <3> QED
      BY <1>9, <3>1, <3>2
  <2>5. \A j \in 1 .. Len(l2.map) : x.map[(Len(l.map) - 1) + j] = l2.map[j]
    <3> SUFFICES ASSUME NEW j \in 1 .. len2
                 PROVE  x.map[h + j] = l2.map[j]
      BY <1>12 DEF len1, len2
    <3>1. h + j \in 1 .. h + len2 /\ ~(h + j <= h) /\ (h + j) - h = j
      BY <1>12
    <3> QED
      BY <1>11, <3>1
  <2> HIDE DEF own, n
  <2>6. JoinOf(l.map, n1, q1, own1, l2.map, n2, q2, own2, x.map, n, q, own)
    BY ONLY <2>1, <2>2, <2>3, <2>4, <2>5 DEF JoinOf
  <2> QED
    BY ONLY <2>6, ListsJoined
<1>17. Len(x.area) = n
  <2>1. Len(x.area) = Len(l.area) + Len(l2.area)
    BY <1>5, <1>6, ChunksJoined
  <2> QED
    BY <2>1 DEF n1, n2
<1>18. /\ Rchunks(x) = {own[k] : k \in 1 .. n}
       /\ \A c : Found(x, c) = Mine(x.area, own, c)
  <2> HIDE DEF own, n
  <2>1. Shaped(x) /\ Lists(x.map, Len(x.area), q, own)
    BY <1>7, <1>16, <1>17
  <2>2. /\ Rchunks(x) = {own[k] : k \in 1 .. Len(x.area)}
        /\ \A c : Found(x, c) = Mine(x.area, own, c)
    BY ONLY <2>1, ListsFound
  <2> QED
    BY <1>17, <2>2
<1>19. /\ \A c : Mine(x.area, own, c) = Mine(l.area, own1, c) \union Mine(l2.area, own2, c)
       /\ {own[k] : k \in 1 .. n} = {own1[k] : k \in 1 .. n1} \union {own2[k] : k \in 1 .. n2}
  <2>1. /\ l.area \in Seq(Exception) /\ n1 = Len(l.area) /\ l2.area \in Seq(Exception) /\ n2 = Len(l2.area)
        /\ x.area = l.area \o l2.area /\ n = n1 + n2
        /\ own = [k \in 1 .. n |-> IF k <= n1 THEN own1[k] ELSE own2[k - n1]]
    BY <1>5, <1>6 DEF n1, n2
  <2> HIDE DEF own, n
  <2> QED
    <3>1. AreasJoined(l.area, n1, own1, l2.area, n2, own2, x.area, n, own)
      BY ONLY <2>1 DEF AreasJoined
    <3> QED
      BY ONLY <3>1, MineJoined
<1>20. Freespace(x) >= 0
  <2> DEFINE f1 == Freespace(l)
  <2>1. f1 = LeafSize - 2 * n1 - len1
    BY <1>1, FreeIs DEF n1, len1
  <2>2. Freespace(x) = LeafSize - 2 * (n1 + n2) - (h + len2)
    <3>1. Freespace(x) = LeafSize - 2 * Len(x.area) - Len(x.map)
      BY <1>7, FreeIs
    <3> QED
      BY <1>11, <1>17, <3>1
  <2>3. Payload(l2) = (len2 - 1) + 2 * n2
    <3>1. Payload(l2) = 1 * (len2 - 1) + l2.map[len2].offset - l2.map[1].offset
      BY <1>4 DEF Payload, ENTRY
    <3>2. l2.map[len2] \in MapEntry /\ l2.map[1] \in MapEntry
      <4>1. 1 \in 1 .. Len(l2.map) /\ len2 \in 1 .. Len(l2.map)
        BY <1>4 DEF len2
      <4> QED
        BY <1>5, <4>1, ElementOfSeq
    <3>3. l2.map[len2].offset \in Int /\ l2.map[1].offset \in Int
      BY <3>2 DEF MapEntry
    <3>4. l2.map[len2].offset - l2.map[1].offset = 2 * n2
      BY <1>8 DEF tail
    <3> QED
      BY <1>4, <3>1, <3>3, <3>4
  <2>4. (len2 - 1) + 2 * n2 <= f1
    BY <2>3 DEF CanMerge
  <2>5. n1 \in Int /\ n2 \in Int /\ len1 \in Int /\ LeafSize \in Int
    BY <1>4, LeafAssumption
  <2> HIDE DEF f1
  <2> QED
    BY ONLY <1>12, <2>1, <2>2, <2>4, <2>5
<1>21. Neat(x)
  <2>1. Lists(x.map, Len(x.area), q, own)
    BY <1>16, <1>17
  <2> QED
    BY <1>7, <1>20, <2>1 DEF Neat
<1> HIDE DEF own, n
<1>22. \A c : Found(x, c) = Found(l, c) \union Found(l2, c)
  BY <1>14, <1>15, <1>18, <1>19
<1>23. Rchunks(x) = Rchunks(l) \union Rchunks(l2)
  BY <1>14, <1>15, <1>18, <1>19
<1> QED
  BY <1>21, <1>22, <1>23

\* How many of the members of S are from p on: the positions of theirs in order
\* are the last ones.
LEMMA RankIs ==
    ASSUME NEW n, n \in Nat, NEW S, S \in SUBSET (1 .. n), NEW r, Sorted(r, S, n),
           NEW c, c = Len(r), NEW p, p \in Int, NEW d, d = Cardinality(From(S, p))
    PROVE  d \in 0 .. c /\ \A j \in 1 .. c : r[j] >= p <=> j >= (c + 1) - d
<1> DEFINE T == {j \in 1 .. c : r[j] >= p} \union {c + 1}
           J == {j \in 1 .. c : r[j] >= p}
           F == From(S, p)
<1>1. /\ c \in Nat /\ \A j \in 1 .. c : r[j] \in S /\ r[j] \in Int
      /\ \A j, k \in 1 .. c : j < k => r[j] < r[k]
      /\ \A x \in S : \E j \in 1 .. c : r[j] = x
  <2>1. c \in Nat
    BY LenProperties DEF Sorted
  <2> QED
    BY <2>1 DEF Sorted
<1>2. T \in SUBSET Nat /\ T # {}
  BY <1>1
<1>3. PICK i \in T : \A x \in T : i <= x
  BY <1>2, LeastNat
<1>4. i \in 1 .. c + 1 /\ i \in Int
  BY <1>1, <1>3
<1>5. \A j \in 1 .. c : r[j] >= p <=> j >= i
  <2> TAKE j \in 1 .. c
  <2>1. r[j] >= p => j >= i
    BY <1>1, <1>3, <1>4
  <2>2. ASSUME j >= i
        PROVE  r[j] >= p
    <3>1. i \in 1 .. c /\ r[i] >= p /\ (i = j \/ i < j)
      BY <1>1, <1>3, <1>4, <2>2
    <3>2. i = j \/ r[i] < r[j]
      BY <1>1, <3>1
    <3>3. r[i] \in Int /\ r[j] \in Int /\ p \in Int
      BY <1>1, <3>1
    <3> QED
      BY <3>1, <3>2, <3>3
  <2> QED
    BY <2>1, <2>2
<1>6. J = i .. c
  BY <1>1, <1>4, <1>5
<1>7. IsFiniteSet(J) /\ Cardinality(J) = (c + 1) - i
  <2>1. IsFiniteSet(i .. c) /\ Cardinality(i .. c) = IF i > c THEN 0 ELSE c - i + 1
    <3>1. i \in Int /\ c \in Int
      BY <1>1, <1>4
    <3> QED
      BY ONLY <3>1, FS_Interval
  <2>2. IsFiniteSet(J) /\ Cardinality(J) = IF i > c THEN 0 ELSE c - i + 1
    BY <1>6, <2>1
  <2> HIDE DEF J
  <2> QED
    BY <1>1, <1>4, <2>2
<1> DEFINE f == [j \in J |-> r[j]]
<1>8. f \in Bijection(J, F)
  <2>1. \A j \in J : f[j] \in F
    BY <1>1 DEF From
  <2>2. f \in [J -> F]
    BY <2>1
  <2>3. \A x \in F : \E j \in J : f[j] = x
    <3> TAKE x \in F
    <3>1. x \in S /\ x >= p
      BY DEF From
    <3>2. PICK j \in 1 .. c : r[j] = x
      BY <1>1, <3>1
    <3>3. j \in J
      BY <3>1, <3>2
    <3> QED
      BY <3>2, <3>3
  <2>4. \A j, k \in J : f[j] = f[k] => j = k
    <3> SUFFICES ASSUME NEW j \in J, NEW k \in J, r[j] = r[k]
                 PROVE  j = k
      OBVIOUS
    <3>1. j \in 1 .. c /\ k \in 1 .. c /\ r[j] \in Int
      BY <1>1
    <3>2. ~(j < k) /\ ~(k < j)
      BY <1>1, <3>1
    <3> QED
      BY <3>1, <3>2
  <2> HIDE DEF f, J, F
  <2> QED
    BY <2>2, <2>3, <2>4 DEF Bijection, Injection, Surjection, IsInjective
<1>9. Cardinality(F) = (c + 1) - i
  <2> HIDE DEF f, J, F
  <2>1. ExistsBijection(J, F)
    BY <1>8 DEF ExistsBijection
  <2> QED
    BY <1>7, <2>1, FS_Bijection
<1>10. d = (c + 1) - i
  BY <1>9
<1> HIDE DEF T, J, F
<1>11. d \in 0 .. c /\ i = (c + 1) - d
  BY <1>1, <1>4, <1>10
<1> QED
  BY <1>5, <1>11

\* A directory as Lists has it, but for entries that may have no exceptions.
Loose(map, n, q, own) ==
    /\ Placed(map, n, q)
    /\ \A i \in 1 .. Len(map) - 1 : map[i].rchunk \in Chunks
    /\ \A i, j \in 1 .. Len(map) - 1 : i < j => map[i].rchunk < map[j].rchunk
    /\ Owned(map, n, q, own)

\* Entries moved to what stays of their exceptions.
LEMMA LooseMoved ==
    ASSUME NEW map, Directory(map), NEW n, NEW q, NEW own, Lists(map, n, q, own),
           NEW S, S \in SUBSET (1 .. n), NEW r, Sorted(r, S, n), NEW c, c = Len(r),
           NEW x, x = Moved(map, q, S), Len(x) = Len(map), NEW q2, Placed(x, c, q2),
           NEW own2, own2 = [j \in 1 .. c |-> own[r[j]]]
    PROVE  Loose(x, c, q2, own2)
<1> DEFINE len == Len(map)
<1>1. /\ len \in Nat \ {0} /\ n \in Nat /\ q \in [1 .. len -> 1 .. n + 1] /\ LeafSize \in Int
      /\ own \in [1 .. n -> Chunks] /\ Placed(map, n, q)
  <2>1. n \in Nat /\ q \in [1 .. len -> 1 .. n + 1] /\ own \in [1 .. n -> Chunks] /\ Placed(map, n, q)
    BY DEF Lists, Placed, Owned
  <2> QED
    BY <2>1, LeafAssumption DEF Directory
<1>2. /\ \A j \in 1 .. len - 1 : map[j].rchunk \in Chunks /\ q[j] < q[j + 1]
      /\ \A j, k \in 1 .. len - 1 : j < k => map[j].rchunk < map[k].rchunk
      /\ map[len].rchunk = 0
      /\ \A j \in 1 .. len - 1 : \A k \in 1 .. n :
            q[j] <= k /\ k < q[j + 1] => own[k] = map[j].rchunk
  BY DEF Lists, Lined, Owned
<1>3. c \in Nat /\ \A j \in 1 .. c : r[j] \in S /\ r[j] \in 1 .. n /\ r[j] \in Int
  <2>1. c \in Nat
    BY LenProperties DEF Sorted
  <2> QED
    BY <1>1, <2>1 DEF Sorted
<1>4. \A i \in 1 .. len : /\ x[i].offset = LeafSize - 2 * Cardinality(From(S, q[i]))
                         /\ x[i].rchunk = map[i].rchunk
  <2> TAKE i \in 1 .. len
  <2> DEFINE o == LeafSize - 2 * Cardinality(From(S, q[i]))
             c0 == map[i].rchunk
  <2>1. x[i] = [offset |-> o, rchunk |-> c0]
    BY DEF Moved, EXC
  <2> HIDE DEF o, c0
  <2>2. x[i].offset = o /\ x[i].rchunk = c0
    BY <2>1
  <2> QED
    BY <2>2 DEF o, c0
<1>5. q2 \in [1 .. len -> 1 .. c + 1] /\ \A i \in 1 .. len : x[i].offset = LeafSize - 2 * ((c + 1) - q2[i])
  BY DEF Placed, EXC
<1> HIDE DEF len
<1>6. ASSUME NEW i \in 1 .. len
      PROVE  \A j \in 1 .. c : r[j] >= q[i] <=> j >= q2[i]
  <2> DEFINE d == Cardinality(From(S, q[i]))
             p == q[i]
             z == q2[i]
  <2>1. n \in Nat /\ S \in SUBSET (1 .. n) /\ Sorted(r, S, n) /\ c = Len(r) /\ p \in Int
        /\ d = Cardinality(From(S, p))
    <3>1. q[i] \in 1 .. n + 1
      BY <1>1
    <3> QED
      BY <1>1, <3>1
  <2>2. z \in Int
    <3>1. q2[i] \in 1 .. c + 1
      BY <1>5
    <3> QED
      BY <1>3, <3>1
  <2>3. x[i].offset = LeafSize - 2 * d /\ x[i].offset = LeafSize - 2 * ((c + 1) - z)
    BY <1>4, <1>5
  <2> HIDE DEF d, p, z
  <2>4. d \in 0 .. c /\ \A j \in 1 .. c : r[j] >= p <=> j >= (c + 1) - d
    BY ONLY <2>1, RankIs
  <2>5. z = (c + 1) - d
    <3>1. LeafSize - 2 * d = LeafSize - 2 * ((c + 1) - z)
      BY <2>3
    <3>2. d \in Int /\ z \in Int /\ c \in Int /\ LeafSize \in Int
      BY <1>1, <1>3, <2>2, <2>4
    <3> QED
      BY ONLY <3>1, <3>2
  <2>6. \A j \in 1 .. c : r[j] >= p <=> j >= z
    BY <2>4, <2>5
  <2> QED
    BY <2>6 DEF p, z
<1>7. own2 \in [1 .. c -> Chunks]
  BY <1>1, <1>3
<1>8. ASSUME NEW i \in 1 .. len - 1, NEW j \in 1 .. c, q2[i] <= j, j < q2[i + 1]
      PROVE  own2[j] = x[i].rchunk
  <2>1. i \in 1 .. len /\ i + 1 \in 1 .. len
    BY <1>1
  <2>2. q2[i] \in Int /\ q2[i + 1] \in Int /\ q[i] \in Int /\ q[i + 1] \in Int
    <3>1. q2[i] \in 1 .. c + 1 /\ q2[i + 1] \in 1 .. c + 1 /\ q[i] \in 1 .. n + 1 /\ q[i + 1] \in 1 .. n + 1
      BY <1>1, <1>5, <2>1
    <3> QED
      BY <1>1, <1>3, <3>1
  <2>3. r[j] >= q[i]
    BY <1>3, <1>6, <1>8, <2>1, <2>2
  <2>4. ~(r[j] >= q[i + 1])
    BY <1>3, <1>6, <1>8, <2>1, <2>2
  <2>5. q[i] <= r[j] /\ r[j] < q[i + 1] /\ r[j] \in 1 .. n
    BY <1>3, <2>2, <2>3, <2>4
  <2>6. own[r[j]] = map[i].rchunk
    BY <1>2, <2>5
  <2>7. x[i].rchunk = map[i].rchunk
    BY <1>4, <2>1
  <2> QED
    BY <2>6, <2>7
<1>9. \A i \in 1 .. len - 1 : x[i].rchunk = map[i].rchunk
  <2> TAKE i \in 1 .. len - 1
  <2>1. i \in 1 .. len
    BY <1>1
  <2> QED
    BY <1>4, <2>1
<1>10. Len(x) = len
  BY DEF len
<1>11. Owned(x, c, q2, own2)
  BY <1>7, <1>8, <1>10 DEF Owned
<1>12. /\ \A i \in 1 .. len - 1 : x[i].rchunk \in Chunks
       /\ \A i, j \in 1 .. len - 1 : i < j => x[i].rchunk < x[j].rchunk
  BY <1>2, <1>9
<1> QED
  BY <1>10, <1>11, <1>12 DEF Loose

\* Without the entries that have no exceptions the directory is as it should be.
LEMMA ListsSqueezed ==
    ASSUME NEW map, Directory(map), NEW n, NEW q, NEW own, Loose(map, n, q, own),
           NEW e, e \in MapEntry, e.rchunk = 0, e.offset = map[Len(map)].offset,
           NEW x, x = Squeezed(map, e), NEW q2, Placed(x, n, q2)
    PROVE  Lists(x, n, q2, own) /\ Len(x) <= Len(map)
<1> DEFINE len == Len(map)
           S == Filled(map)
           d == len - 1
           kept == InOrder(S, d)
           m == Len(kept)
           front == [k \in DOMAIN kept |-> map[kept[k]]]
<1>1. /\ len \in Nat \ {0} /\ n \in Nat /\ q \in [1 .. len -> 1 .. n + 1] /\ LeafSize \in Int
      /\ own \in [1 .. n -> Chunks] /\ Placed(map, n, q) /\ map \in Seq(MapEntry)
  <2>1. n \in Nat /\ q \in [1 .. len -> 1 .. n + 1] /\ own \in [1 .. n -> Chunks] /\ Placed(map, n, q)
    BY DEF Loose, Placed, Owned
  <2> QED
    BY <2>1, LeafAssumption DEF Directory
<1>2. /\ \A j \in 1 .. len - 1 : map[j].rchunk \in Chunks
      /\ \A j, k \in 1 .. len - 1 : j < k => map[j].rchunk < map[k].rchunk
      /\ \A j \in 1 .. len - 1 : \A k \in 1 .. n :
            q[j] <= k /\ k < q[j + 1] => own[k] = map[j].rchunk
      /\ \A i, j \in 1 .. len : i <= j => q[i] <= q[j]
      /\ q[len] = n + 1
  BY DEF Loose, Owned, Placed
<1>3. d \in Nat /\ S \in SUBSET (1 .. d)
  BY <1>1 DEF Filled
<1>4. x = Append(front, e)
  BY DEF Squeezed
<1>5. Sorted(kept, S, d) /\ IsFiniteSet(S) /\ Cardinality(S) = m
  <2>1. d \in Nat /\ S \in SUBSET (1 .. d) /\ kept = InOrder(S, d)
    BY <1>3
  <2> HIDE DEF d, S, kept
  <2> QED
    BY <2>1, InOrderIs
<1> HIDE DEF S, kept
<1>6. /\ m \in Nat /\ DOMAIN kept = 1 .. m
      /\ \A j \in 1 .. m : kept[j] \in S /\ kept[j] \in 1 .. d
      /\ \A i, j \in 1 .. m : i < j => kept[i] < kept[j]
      /\ \A k \in S : \E j \in 1 .. m : kept[j] = k
  <2>1. kept \in Seq(Nat)
    BY <1>5 DEF Sorted
  <2>2. m \in Nat /\ DOMAIN kept = 1 .. m
    BY <2>1, LenProperties
  <2> QED
    BY <1>3, <1>5, <2>2 DEF Sorted
<1>7. m <= d
  <2>1. IsFiniteSet(1 .. d) /\ Cardinality(1 .. d) = IF 1 > d THEN 0 ELSE d - 1 + 1
    <3>1. 1 \in Int /\ d \in Int
      BY <1>3
    <3> HIDE DEF d
    <3> QED
      BY ONLY <3>1, FS_Interval
  <2>2. Cardinality(1 .. d) = d
    <3> HIDE DEF d
    <3> QED
      BY <1>3, <2>1
  <2>3. Cardinality(S) <= Cardinality(1 .. d)
    <3> HIDE DEF d
    <3> QED
      BY <1>3, <2>1, FS_Subset
  <2> QED
    BY <1>5, <2>2, <2>3
<1>8. /\ x \in Seq(MapEntry) /\ Len(x) = m + 1
      /\ \A j \in 1 .. m : x[j] = map[kept[j]]
      /\ x[m + 1] = e
  <2>1. map \in [1 .. len -> MapEntry]
    BY <1>1, LenProperties
  <2>2. front = [k \in 1 .. m |-> map[kept[k]]]
    BY <1>6
  <2>3. front \in [1 .. m -> MapEntry]
    <3>1. \A k \in 1 .. m : kept[k] \in 1 .. len
      BY <1>1, <1>6
    <3> QED
      BY <2>1, <2>2, <3>1
  <2>4. \A k \in 1 .. m : front[k] = map[kept[k]]
    BY <2>2
  <2> HIDE DEF front, m
  <2>5. front \in Seq(MapEntry) /\ Len(front) = m
    BY <1>6, <2>3, FunctionIsList
  <2>6. /\ x \in Seq(MapEntry) /\ Len(x) = Len(front) + 1
        /\ \A j \in 1 .. Len(front) : x[j] = front[j]
        /\ x[Len(front) + 1] = e
    BY <1>4, <2>5, AppendProperties
  <2> QED
    BY <2>4, <2>5, <2>6
<1>9. /\ q2 \in [1 .. m + 1 -> 1 .. n + 1] /\ q2[m + 1] = n + 1
      /\ \A j \in 1 .. m + 1 : x[j].offset = LeafSize - 2 * ((n + 1) - q2[j])
      /\ \A i, j \in 1 .. m + 1 : i <= j => q2[i] <= q2[j]
  BY <1>8 DEF Placed, EXC
<1>10. \A j \in 1 .. len : map[j].offset = LeafSize - 2 * ((n + 1) - q[j])
  BY <1>1 DEF Placed, EXC
<1> HIDE DEF m, len, d
<1>11. ASSUME NEW j \in 1 .. m
       PROVE  /\ j \in Int /\ j \in 1 .. m + 1 /\ j + 1 \in 1 .. m + 1
              /\ kept[j] \in 1 .. len /\ kept[j] \in 1 .. len - 1 /\ kept[j] + 1 \in 1 .. len
              /\ kept[j] \in Int
  <2>1. kept[j] \in 1 .. d /\ d = len - 1
    BY <1>6 DEF d
  <2>2. j \in Int /\ j \in 1 .. m + 1 /\ j + 1 \in 1 .. m + 1
    BY <1>6
  <2> DEFINE z == kept[j]
  <2>3. z \in 1 .. d /\ d = len - 1 /\ len \in Nat
    BY <1>1, <2>1
  <2> HIDE DEF z
  <2>4. z \in 1 .. len /\ z \in 1 .. len - 1 /\ z + 1 \in 1 .. len /\ z \in Int
    BY ONLY <2>3
  <2> QED
    BY <2>2, <2>4 DEF z
<1>12. ASSUME NEW j \in 1 .. m
       PROVE  q2[j] = q[kept[j]]
  <2> DEFINE z == q2[j]
             u == q[kept[j]]
  <2>1. LeafSize - 2 * ((n + 1) - z) = LeafSize - 2 * ((n + 1) - u)
    BY <1>8, <1>9, <1>10, <1>11
  <2>2. z \in Int /\ u \in Int /\ n \in Int /\ LeafSize \in Int
    <3>1. q2[j] \in 1 .. n + 1 /\ q[kept[j]] \in 1 .. n + 1
      BY <1>1, <1>9, <1>11
    <3> QED
      BY <1>1, <3>1
  <2> HIDE DEF z, u
  <2>3. z = u
    BY ONLY <2>1, <2>2
  <2> QED
    BY <2>3 DEF z, u
<1>13. ASSUME NEW i \in 1 .. len - 1
       PROVE  /\ i \in 1 .. len /\ i + 1 \in 1 .. len /\ i \in Int
              /\ q[i] \in Int /\ q[i + 1] \in Int /\ q[i] <= q[i + 1]
              /\ i \in S <=> q[i] < q[i + 1]
  <2>1. i \in 1 .. len /\ i + 1 \in 1 .. len /\ i <= i + 1 /\ i \in Int
    BY <1>1
  <2>2. q[i] \in 1 .. n + 1 /\ q[i + 1] \in 1 .. n + 1
    BY <1>1, <2>1
  <2>3. q[i] <= q[i + 1] /\ q[i] \in Int /\ q[i + 1] \in Int
    BY <1>1, <1>2, <2>1, <2>2
  <2>4. i \in S <=> map[i].offset # map[i + 1].offset
    BY DEF S, Filled, len
  <2>5. map[i].offset = map[i + 1].offset <=> q[i] = q[i + 1]
    <3>1. i \in 1 .. Len(map) /\ i + 1 \in 1 .. Len(map) /\ Placed(map, n, q)
      BY <1>1, <2>1 DEF len
    <3> QED
      BY ONLY <3>1, SameOffset
  <2> QED
    BY <2>1, <2>3, <2>4, <2>5
<1>14. ASSUME NEW j \in 1 .. m, NEW k \in 1 .. m, j < k
       PROVE  q[kept[j] + 1] <= q2[k]
  <2>1. kept[j] < kept[k] /\ kept[j] \in Int /\ kept[k] \in Int
    BY <1>6, <1>11, <1>14
  <2>2. kept[j] + 1 <= kept[k]
    BY <2>1
  <2>3. q[kept[j] + 1] <= q[kept[k]]
    BY <1>2, <1>11, <2>2
  <2> QED
    BY <1>12, <2>3
<1>15. ASSUME NEW j \in 1 .. m
       PROVE  q[kept[j] + 1] <= q2[j + 1]
  <2>1. CASE j < m
    <3>1. j + 1 \in 1 .. m /\ j < j + 1
      BY <1>6, <2>1
    <3> QED
      BY <1>14, <3>1
  <2>2. CASE ~(j < m)
    <3>1. j = m
      BY <1>6, <2>2
    <3>2. q[kept[j] + 1] \in 1 .. n + 1
      BY <1>1, <1>11
    <3> QED
      BY <1>1, <1>9, <3>1, <3>2
  <2> QED
    BY <2>1, <2>2
<1>16. ASSUME NEW j \in 1 .. m
       PROVE  x[j].rchunk \in Chunks /\ q2[j] < q2[j + 1]
  <2>1. kept[j] \in 1 .. len - 1 /\ kept[j] \in S
    BY <1>6, <1>11
  <2>2. q[kept[j]] < q[kept[j] + 1] /\ q[kept[j]] \in Int /\ q[kept[j] + 1] \in Int
    BY <1>13, <2>1
  <2>3. q2[j] = q[kept[j]] /\ q[kept[j] + 1] <= q2[j + 1]
    BY <1>12, <1>15
  <2>4. q2[j + 1] \in Int
    <3>1. q2[j + 1] \in 1 .. n + 1
      BY <1>9, <1>11
    <3> QED
      BY <1>1, <3>1
  <2>5. q2[j] < q2[j + 1]
    BY <2>2, <2>3, <2>4
  <2> QED
    BY <1>2, <1>8, <2>1, <2>5
<1>17. ASSUME NEW j \in 1 .. m, NEW k \in 1 .. m, j < k
       PROVE  x[j].rchunk < x[k].rchunk
  <2>1. kept[j] < kept[k]
    BY <1>6, <1>17
  <2>2. map[kept[j]].rchunk < map[kept[k]].rchunk
    BY <1>2, <1>11, <2>1
  <2> QED
    BY <1>8, <2>2
<1>18. ASSUME NEW j \in 1 .. m, NEW k \in 1 .. n, q2[j] <= k, k < q2[j + 1]
       PROVE  own[k] = x[j].rchunk
  <2>1. PICK i \in 1 .. len - 1 : q[i] <= k /\ k < q[i + 1]
    BY <1>1, EntryOver DEF len
  <2>2. i \in S
    <3>1. q[i] \in Int /\ q[i + 1] \in Int /\ k \in Int
      BY <1>1, <1>13
    <3>2. q[i] < q[i + 1]
      BY <2>1, <3>1
    <3> QED
      BY <1>13, <3>2
  <2>3. PICK p \in 1 .. m : kept[p] = i
    BY <1>6, <2>2
  <2>4. q2[p] = q[i] /\ q2[j] \in Int /\ q2[j + 1] \in Int /\ q2[p] \in Int /\ k \in Int /\ q[i + 1] \in Int
    <3>1. q2[j] \in 1 .. n + 1 /\ q2[j + 1] \in 1 .. n + 1 /\ q2[p] \in 1 .. n + 1
      BY <1>9, <1>11
    <3>2. q2[p] = q[i]
      BY <1>12, <2>3
    <3>3. i \in 1 .. len /\ i + 1 \in 1 .. len
      BY <1>1, <2>1
    <3>4. q[i + 1] \in 1 .. n + 1
      BY <1>1, <3>3
    <3> QED
      BY ONLY <1>1, <1>18, <3>1, <3>2, <3>4
  <2>5. ~(p < j)
    <3> SUFFICES ASSUME p < j
                 PROVE  FALSE
      OBVIOUS
    <3>1. q[i + 1] <= q2[j]
      BY <1>14, <2>3
    <3> QED
      BY <1>18, <2>1, <2>4, <3>1
  <2>6. ~(j < p)
    <3> SUFFICES ASSUME j < p
                 PROVE  FALSE
      OBVIOUS
    <3>1. j + 1 <= p /\ j + 1 \in 1 .. m + 1 /\ p \in 1 .. m + 1
      BY <1>11
    <3>2. q2[j + 1] <= q2[p]
      BY <1>9, <3>1
    <3> QED
      BY <1>18, <2>1, <2>4, <3>2
  <2>7. p = j
    BY <1>6, <2>5, <2>6
  <2>8. own[k] = map[i].rchunk
    BY <1>2, <2>1
  <2> QED
    BY <1>8, <2>3, <2>7, <2>8
<1>19. Len(x) - 1 = m /\ Len(x) = m + 1
  BY <1>6, <1>8
<1>20. Lined(x, q2)
  BY <1>8, <1>16, <1>17, <1>19 DEF Lined
<1>21. Owned(x, n, q2, own)
  BY <1>1, <1>18, <1>19 DEF Owned
<1>22. Len(x) <= len
  BY <1>1, <1>6, <1>7, <1>19 DEF d
<1> QED
  BY <1>20, <1>21, <1>22 DEF Lists, len

\* What delete_snapshots_from_leaf makes of a leaf whose entries begin at the
\* positions q, when S are the positions of the exceptions that stay: the
\* entries are moved to what stays of theirs, and those without any are gone.
ClearedTo(l, bits, q, S, x) ==
    \E e \in MapEntry :
       /\ e.rchunk = 0 /\ e.offset = LeafSize
       /\ x.map = Squeezed(Moved(l.map, q, S), e) /\ x.area = Survivors(l.area, bits)
       /\ S \in SUBSET (1 .. Len(l.area)) /\ IsFiniteSet(S)
       /\ Ended(Moved(l.map, q, S), Cardinality(S), Len(l.map))

\* That is what it does.
LEMMA ClearedIs ==
    ASSUME NEW l, Shaped(l), NEW q, Placed(l.map, Len(l.area), q), NEW bits
    PROVE  ClearedTo(l, bits, q, Staying(l.area, bits), DeleteFromLeaf(l, bits))
<1> SUFFICES ASSUME NEW S, S = Staying(l.area, bits), NEW x, x = DeleteFromLeaf(l, bits),
                    NEW moved, moved = Moved(l.map, q, S)
             PROVE  \E e \in MapEntry : /\ e.rchunk = 0 /\ e.offset = LeafSize
                             /\ x.map = Squeezed(moved, e) /\ x.area = Survivors(l.area, bits)
                             /\ S \in SUBSET (1 .. Len(l.area)) /\ IsFiniteSet(S)
                             /\ Ended(moved, Cardinality(S), Len(l.map))
  BY DEF ClearedTo
<1> DEFINE map == l.map
           area == l.area
           n == Len(area)
           len == Len(map)
           c == Cardinality(S)
           area2 == Survivors(area, bits)
           end == map[len]
           e == [end EXCEPT !.rchunk = 0]
<1>1. Directory(map) /\ area \in Seq(Exception) /\ map \in Seq(MapEntry) /\ len \in Nat \ {0}
  BY DEF Shaped, Directory
<1>2. Placed(map, n, q)
  OBVIOUS
<1>3. Count(l) + 1 = len /\ Count(l) = len - 1 /\ \A i \in 1 .. len : EMap(l, i) = q[i]
  BY <1>2, EMapIs
<1>4. S \in SUBSET (1 .. n) /\ IsFiniteSet(S)
  <2>1. area2 = Survivors(area, bits)
    OBVIOUS
  <2>2. S = Staying(area, bits)
    OBVIOUS
  <2> HIDE DEF area2, area
  <2> QED
    BY <1>1, <2>1, <2>2, AreaCleared
<1>5. Ended(moved, c, len) /\ Len(moved) = len
  <2>1. c = Cardinality(S) /\ moved = Moved(map, q, S)
    OBVIOUS
  <2>2. Directory(map) /\ Placed(map, n, q) /\ S \in SUBSET (1 .. n) /\ IsFiniteSet(S) /\ len = Len(map)
    BY <1>1, <1>2, <1>4
  <2> HIDE DEF c, map, n, len, area
  <2>3. Ended(moved, c, len)
    BY <2>1, <2>2, MovedFits
  <2> QED
    BY <2>3 DEF Ended
<1>6. end \in MapEntry /\ end.offset = LeafSize
  <2>1. len \in 1 .. len
    BY <1>1
  <2>2. end \in MapEntry
    BY <1>1, <2>1
  <2>3. q[len] = n + 1 /\ n \in Nat /\ end.offset = LeafSize - EXC * ((n + 1) - q[len])
    BY <1>2, <2>1 DEF Placed
  <2>4. LeafSize - EXC * ((n + 1) - (n + 1)) = LeafSize
    BY <2>3, LeafAssumption DEF EXC
  <2> QED
    BY <2>2, <2>3, <2>4
<1>7. e \in MapEntry /\ e.offset = LeafSize
  <2> HIDE DEF end
  <2> QED
    BY <1>6, EntryCleared
<1>8. [i \in DOMAIN map |-> [map[i] EXCEPT !.offset =
                end.offset - EXC * Cardinality({k \in Staying(area, bits) : k >= EMap(l, i)})]]
        = moved
  <2>1. DOMAIN map = 1 .. len /\ map \in [1 .. len -> MapEntry]
    BY <1>1, LenProperties
  <2>2. ASSUME NEW i \in 1 .. len
        PROVE  [map[i] EXCEPT !.offset =
                    end.offset - EXC * Cardinality({k \in Staying(area, bits) : k >= EMap(l, i)})]
                = [offset |-> LeafSize - EXC * Cardinality(From(S, q[i])), rchunk |-> map[i].rchunk]
    <3>1. {k \in Staying(area, bits) : k >= EMap(l, i)} = From(S, q[i])
      BY <1>3 DEF From
    <3> DEFINE f == map[i]
               o == LeafSize - EXC * Cardinality(From(S, q[i]))
    <3>2. f \in [offset : Int, rchunk : Int]
      BY <2>1 DEF MapEntry
    <3>3. end.offset - EXC * Cardinality({k \in Staying(area, bits) : k >= EMap(l, i)}) = o
      BY <1>6, <3>1
    <3> HIDE DEF f, o, end, area
    <3>4. [f EXCEPT !.offset = o] = [offset |-> o, rchunk |-> f.rchunk]
      BY <3>2
    <3> QED
      BY <3>3, <3>4 DEF f, o
  <2>3. moved = [i \in 1 .. len |->
          [offset |-> LeafSize - EXC * Cardinality(From(S, q[i])), rchunk |-> map[i].rchunk]]
    BY DEF Moved
  <2> QED
    BY <2>1, <2>2, <2>3
<1> DEFINE map2 == Squeezed(moved, e)
<1>9. x = [map |-> map2, area |-> area2]
  <2> DEFINE m1 == [i \in DOMAIN map |-> [map[i] EXCEPT !.offset =
                end.offset - EXC * Cardinality({k \in Staying(area, bits) : k >= EMap(l, i)})]]
             kept(m) == InOrder({i \in 1 .. Count(l) : m[i].offset # m[i + 1].offset}, Count(l))
  <2> DEFINE last == map[Count(l) + 1]
             m0 == [i \in DOMAIN map |-> [map[i] EXCEPT !.offset =
                last.offset - EXC * Cardinality({k \in Staying(area, bits) : k >= EMap(l, i)})]]
             e0 == [last EXCEPT !.rchunk = 0]
  <2>5. x = [map |-> Append([k \in DOMAIN kept(m0) |-> m0[kept(m0)[k]]], e0), area |-> area2]
    BY DEF DeleteFromLeaf
  <2>6. last = end
    BY <1>3
  <2>7. m0 = m1 /\ e0 = e
    BY <2>6
  <2>2. m1 = moved
    BY <1>8
  <2>8. m0 = moved /\ e0 = e
    BY <2>7, <2>2
  <2>9. Count(l) = Len(moved) - 1
    BY <1>3, <1>5
  <2>4. kept(moved) = InOrder(Filled(moved), Len(moved) - 1)
    <3> HIDE DEF map
    <3> QED
      BY <2>9 DEF Filled
  <2> HIDE DEF m0, m1, e0, e, area2, last, end, kept
  <2>1. x = [map |-> Append([k \in DOMAIN kept(moved) |-> moved[kept(moved)[k]]], e), area |-> area2]
    BY <2>5, <2>8
  <2> QED
    BY <2>1, <2>4 DEF Squeezed
<1> HIDE DEF map2, area2
<1>10. x.map = map2 /\ x.area = area2
  BY <1>9
<1>11. e.rchunk = 0
  <2> HIDE DEF end
  <2> QED
    BY <1>6 DEF MapEntry
<1> HIDE DEF e
<1> QED
  BY <1>4, <1>5, <1>7, <1>10, <1>11 DEF map2, area2

\* The exceptions without the bits; those with no other bit are gone.
Cut(es, bits) == {[e EXCEPT !.share = @ \ bits] : e \in {x \in es : ~(x.share \subseteq bits)}}

\* x are the exceptions at the positions S, which r has in order, cut: those of
\* each chunk are what it had, cut.
MineCut(area, bits, own, S, r, x) ==
    /\ Sorted(r, S, Len(area)) /\ Len(x) = Len(r) /\ Len(r) \in Nat /\ Len(r) <= Len(area)
    /\ S \in SUBSET (1 .. Len(area)) /\ Cardinality(S) = Len(r)
    /\ \A c : Mine(x, [j \in 1 .. Len(r) |-> own[r[j]]], c) = Cut(Mine(area, own, c), bits)

\* The survivors are.
LEMMA SurvivorsMine ==
    ASSUME NEW area, area \in Seq(Exception), NEW bits, NEW own
    PROVE  MineCut(area, bits, own, Staying(area, bits), InOrder(Staying(area, bits), Len(area)),
                   Survivors(area, bits))
<1> DEFINE S == Staying(area, bits)
           r == InOrder(S, Len(area))
           own2 == [j \in 1 .. Len(r) |-> own[r[j]]]
           x == Survivors(area, bits)
           n == Len(area)
           m == Len(r)
<1>1. n \in Nat /\ DOMAIN area = 1 .. n /\ area \in [1 .. n -> Exception]
  BY LenProperties
<1>2. S \in SUBSET (1 .. n)
  BY <1>1 DEF Staying
<1>3. x = [j \in DOMAIN r |-> [area[r[j]] EXCEPT !.share = @ \ bits]]
  BY DEF Survivors
<1>4. Sorted(r, S, n) /\ IsFiniteSet(S) /\ Cardinality(S) = m
  BY <1>1, <1>2, InOrderIs
<1>5. /\ m \in Nat /\ DOMAIN r = 1 .. m
      /\ \A j \in 1 .. m : r[j] \in S /\ r[j] \in 1 .. n
      /\ \A k \in S : \E j \in 1 .. m : r[j] = k
  <2>1. r \in Seq(Nat)
    BY <1>4 DEF Sorted
  <2>2. m \in Nat /\ DOMAIN r = 1 .. m
    BY <2>1, LenProperties
  <2> QED
    BY <1>2, <1>4, <2>2 DEF Sorted
<1>6. m <= n
  <2>1. IsFiniteSet(1 .. n) /\ Cardinality(1 .. n) = IF 1 > n THEN 0 ELSE n - 1 + 1
    <3>1. 1 \in Int /\ n \in Int
      BY <1>1
    <3> HIDE DEF n
    <3> QED
      BY ONLY <3>1, FS_Interval
  <2>2. Cardinality(1 .. n) = n
    <3> HIDE DEF n
    <3> QED
      BY <1>1, <2>1
  <2>3. Cardinality(S) <= Cardinality(1 .. n)
    <3> HIDE DEF n
    <3> QED
      BY <1>2, <2>1, FS_Subset
  <2> QED
    BY <1>4, <2>2, <2>3
<1>7. Len(x) = m
  <2>1. DOMAIN x = 1 .. m
    BY <1>3, <1>5
  <2>2. x \in Seq(Exception)
    BY AreaCleared
  <2>3. Len(x) \in Nat /\ DOMAIN x = 1 .. Len(x)
    BY <2>2, LenProperties
  <2> DEFINE z == Len(x)
  <2> HIDE DEF z, m
  <2> QED
    BY <1>5, <2>1, <2>3 DEF z
<1>8. ASSUME NEW j \in 1 .. m
      PROVE  x[j] = [area[r[j]] EXCEPT !.share = @ \ bits] /\ own2[j] = own[r[j]]
  BY <1>3, <1>5
<1>9. ASSUME NEW c
      PROVE  Mine(x, own2, c) = Cut(Mine(area, own, c), bits)
  <2>1. Mine(x, own2, c) = {x[j] : j \in {k \in 1 .. m : own2[k] = c}}
    BY <1>7 DEF Mine
  <2>2. Mine(area, own, c) = {area[k] : k \in {i \in 1 .. n : own[i] = c}}
    BY DEF Mine
  <2>3. ASSUME NEW e \in Mine(x, own2, c)
        PROVE  e \in Cut(Mine(area, own, c), bits)
    <3>1. PICK j \in 1 .. m : own2[j] = c /\ e = x[j]
      BY <2>1
    <3>2. r[j] \in 1 .. n /\ own[r[j]] = c /\ ~(area[r[j]].share \subseteq bits)
      BY <1>5, <1>8, <3>1 DEF Staying
    <3>3. area[r[j]] \in Mine(area, own, c)
      BY <2>2, <3>2
    <3>4. e = [area[r[j]] EXCEPT !.share = @ \ bits]
      BY <1>8, <3>1
    <3> QED
      BY <3>2, <3>3, <3>4 DEF Cut
  <2>4. ASSUME NEW e \in Cut(Mine(area, own, c), bits)
        PROVE  e \in Mine(x, own2, c)
    <3>1. PICK f \in Mine(area, own, c) : ~(f.share \subseteq bits) /\ e = [f EXCEPT !.share = @ \ bits]
      BY DEF Cut
    <3>2. PICK k \in 1 .. n : own[k] = c /\ f = area[k]
      BY <2>2, <3>1
    <3>3. k \in S
      BY <1>1, <3>1, <3>2 DEF Staying
    <3>4. PICK j \in 1 .. m : r[j] = k
      BY <1>5, <3>3
    <3>5. x[j] = e /\ own2[j] = c
      BY <1>8, <3>1, <3>2, <3>4
    <3> QED
      BY <2>1, <3>4, <3>5
  <2> QED
    BY <2>3, <2>4
<1> QED
  <2>1. \A c : Mine(x, own2, c) = Cut(Mine(area, own, c), bits)
    BY ONLY <1>9
  <2> HIDE DEF S, r, x
  <2>2. MineCut(area, bits, own, S, r, x)
    BY ONLY <1>2, <1>4, <1>5, <1>6, <1>7, <2>1 DEF MineCut
  <2> QED
    BY ONLY <2>2 DEF S, r, x

\* delete_snapshots_from_leaf: what is left of the exceptions of each chunk.
LEMMA NeatCleared ==
    ASSUME NEW l, Neat(l), NEW bits, NEW x, x = DeleteFromLeaf(l, bits)
    PROVE  /\ Neat(x) /\ Rchunks(x) \subseteq Rchunks(l) /\ Freespace(x) >= Freespace(l)
           /\ \A c : Found(x, c) = Cut(Found(l, c), bits)
<1> DEFINE map == l.map
           area == l.area
           n == Len(area)
           len == Len(map)
           S == Staying(area, bits)
           r == InOrder(S, n)
           m == Len(r)
<1>1. Shaped(l) /\ Freespace(l) >= 0 /\ Directory(map) /\ area \in Seq(Exception)
      /\ n \in Nat /\ len \in Nat \ {0}
  BY DEF Neat, Shaped, Directory
<1>2. PICK q, own : Lists(map, n, q, own)
  BY DEF Neat
<1>3. Placed(map, n, q)
  BY <1>2 DEF Lists
<1> DEFINE mv == Moved(map, q, S)
           o2 == [j \in 1 .. m |-> own[r[j]]]
<1>4. \E e \in MapEntry : /\ e.rchunk = 0 /\ e.offset = LeafSize
                        /\ x.map = Squeezed(mv, e) /\ x.area = Survivors(area, bits)
                        /\ S \in SUBSET (1 .. n) /\ IsFiniteSet(S)
                        /\ Ended(mv, Cardinality(S), len)
  <2>1. /\ Shaped(l) /\ x = DeleteFromLeaf(l, bits) /\ Placed(l.map, Len(l.area), q)
    BY <1>1, <1>3
  <2>2. ClearedTo(l, bits, q, Staying(l.area, bits), DeleteFromLeaf(l, bits))
    BY ONLY <2>1, ClearedIs
  <2>3. ClearedTo(l, bits, q, S, x)
    BY <2>1, <2>2
  <2> QED
    BY <2>3 DEF ClearedTo
<1>5. Shaped(x)
  BY <1>1, LeafCleared
<1>6. /\ Sorted(r, S, n) /\ m \in Nat /\ m <= n /\ Len(Survivors(area, bits)) = m
      /\ S \in SUBSET (1 .. n) /\ Cardinality(S) = m
      /\ \A c : Mine(Survivors(area, bits), o2, c) = Cut(Mine(area, own, c), bits)
  <2>1. area \in Seq(Exception)
    BY <1>1
  <2>2. MineCut(area, bits, own, S, r, Survivors(area, bits))
    BY ONLY <2>1, SurvivorsMine
  <2> QED
    BY <2>2 DEF MineCut
<1> HIDE DEF mv, o2, S, r, m
<1>20. PICK e \in MapEntry : /\ e.rchunk = 0 /\ e.offset = LeafSize
                          /\ x.map = Squeezed(mv, e) /\ x.area = Survivors(area, bits)
                          /\ Ended(mv, Cardinality(S), len)
  BY <1>4
<1>21. Len(x.area) = m /\ \A c : Mine(x.area, o2, c) = Cut(Mine(area, own, c), bits)
  BY <1>6, <1>20
<1>7. Ended(mv, m, len)
  BY <1>6, <1>20
<1>8. PICK q1 : Placed(mv, m, q1)
  BY <1>7 DEF Ended, Fits
<1>9. Directory(mv) /\ Len(mv) = len /\ mv[len].offset = LeafSize
  BY <1>7 DEF Ended, Fits
<1>10. Loose(mv, m, q1, o2)
  <2>1. mv = Moved(map, q, S) /\ o2 = [j \in 1 .. m |-> own[r[j]]] /\ m = Len(r)
    BY DEF mv, o2, m
  <2>2. Len(mv) = Len(map)
    BY <1>9
  <2> QED
    BY <1>1, <1>2, <1>6, <1>8, <2>1, <2>2, LooseMoved
<1>11. x.map = Squeezed(mv, e) /\ e.offset = mv[Len(mv)].offset
  BY <1>20, <1>9
<1>12. PICK q2 : Placed(x.map, m, q2)
  BY <1>5, <1>21 DEF Shaped
<1>13. Lists(x.map, m, q2, o2) /\ Len(x.map) <= len
  <2> DEFINE xm == x.map
  <2>1. xm = Squeezed(mv, e) /\ Placed(xm, m, q2)
    BY <1>11, <1>12
  <2> HIDE DEF xm
  <2>2. Lists(xm, m, q2, o2) /\ Len(xm) <= Len(mv)
    BY <1>20, <1>9, <1>10, <1>11, <2>1, ListsSqueezed
  <2> QED
    BY <1>9, <2>2 DEF xm
<1>14. Freespace(x) >= Freespace(l)
  <2>1. Freespace(x) = LeafSize - 2 * Len(x.area) - Len(x.map) /\ Len(x.map) \in Nat \ {0}
    BY <1>5, FreeIs
  <2>2. Freespace(l) = LeafSize - 2 * n - len
    BY <1>1, FreeIs
  <2>3. LeafSize \in Int
    BY LeafAssumption
  <2> DEFINE a == Len(x.map)
  <2>4. Freespace(x) = LeafSize - 2 * m - a /\ a \in Nat /\ a <= len
    BY <1>6, <1>13, <1>21, <2>1
  <2> HIDE DEF a, n, len
  <2>5. 2 * m <= 2 * n
    BY <1>1, <1>6
  <2> QED
    BY <1>1, <1>6, <2>2, <2>3, <2>4, <2>5
<1>15. Neat(x)
  <2>1. Freespace(x) >= 0
    <3> DEFINE a == Freespace(x)
               b == Freespace(l)
    <3>1. b \in Int
      <4>1. b = LeafSize - 2 * n - len
        BY <1>1, FreeIs
      <4>2. LeafSize \in Int
        BY LeafAssumption
      <4> HIDE DEF b
      <4> QED
        BY <1>1, <4>1, <4>2
    <3>2. a \in Int
      <4>1. a = LeafSize - 2 * Len(x.area) - Len(x.map) /\ Len(x.map) \in Nat \ {0} /\ Len(x.area) \in Nat
        BY <1>5, FreeIs
      <4>2. LeafSize \in Int
        BY LeafAssumption
      <4> HIDE DEF a
      <4> QED
        BY <4>1, <4>2
    <3>3. a >= b /\ b >= 0
      BY <1>1, <1>14
    <3> HIDE DEF a, b
    <3>4. a >= 0
      BY ONLY <3>1, <3>2, <3>3
    <3> QED
      BY <3>4 DEF a
  <2>2. Lists(x.map, Len(x.area), q2, o2)
    BY <1>6, <1>13, <1>21
  <2> QED
    BY <1>5, <2>1, <2>2 DEF Neat
<1>16. /\ Rchunks(x) = {o2[k] : k \in 1 .. m}
       /\ \A c : Found(x, c) = Mine(x.area, o2, c)
  <2>1. Lists(x.map, Len(x.area), q2, o2)
    BY <1>6, <1>13, <1>21
  <2>2. /\ Rchunks(x) = {o2[k] : k \in 1 .. Len(x.area)}
        /\ \A c : Found(x, c) = Mine(x.area, o2, c)
    BY ONLY <1>5, <2>1, ListsFound
  <2> QED
    BY <1>21, <2>2
<1>17. /\ Rchunks(l) = {own[k] : k \in 1 .. n}
       /\ \A c : Found(l, c) = Mine(area, own, c)
  BY <1>1, <1>2, ListsFound
<1>18. \A c : Found(x, c) = Cut(Found(l, c), bits)
  BY <1>16, <1>17, <1>21
<1>19. Rchunks(x) \subseteq Rchunks(l)
  <2>1. \A k \in 1 .. m : r[k] \in 1 .. n /\ o2[k] = own[r[k]]
    BY <1>6 DEF o2, Sorted, m
  <2> QED
    BY <1>16, <1>17, <2>1
<1> QED
  BY <1>14, <1>15, <1>18, <1>19

\* Every exception of a leaf is of one of its chunks, and each of those has one.
LEMMA NeatFound ==
    ASSUME NEW l, Neat(l)
    PROVE  /\ Rchunks(l) \subseteq Chunks
           /\ \A c : c \in Rchunks(l) <=> Found(l, c) # {}
           /\ \A k \in 1 .. Len(l.area) : \E c \in Rchunks(l) : l.area[k] \in Found(l, c)
           /\ \A c : \A e \in Found(l, c) : \E k \in 1 .. Len(l.area) : e = l.area[k]
           /\ \A c : \A e \in Found(l, c) : e \in Exception
<1>1. Shaped(l)
  BY DEF Neat
<1>2. PICK q, own : Lists(l.map, Len(l.area), q, own)
  BY DEF Neat
<1> DEFINE n == Len(l.area)
<1>3. own \in [1 .. n -> Chunks] /\ l.area \in Seq(Exception) /\ n \in Nat /\ DOMAIN l.area = 1 .. n
  <2>1. l.area \in Seq(Exception) /\ own \in [1 .. n -> Chunks]
    BY <1>1, <1>2 DEF Shaped, Lists, Owned
  <2> QED
    BY <2>1, LenProperties
<1>4. /\ Rchunks(l) = {own[k] : k \in 1 .. n}
      /\ \A c : Found(l, c) = Mine(l.area, own, c)
  BY <1>1, <1>2, ListsFound
<1>5. \A c : Found(l, c) = {l.area[k] : k \in {j \in 1 .. n : own[j] = c}}
  BY <1>4 DEF Mine
<1> HIDE DEF n
<1>6. \A k \in 1 .. n : l.area[k] \in Exception
  BY <1>3
<1>7. \A k \in 1 .. n : own[k] \in Rchunks(l) /\ l.area[k] \in Found(l, own[k])
  BY <1>4, <1>5
<1>8. \A c : c \in Rchunks(l) <=> Found(l, c) # {}
  <2> TAKE c
  <2>1. c \in Rchunks(l) => Found(l, c) # {}
    BY <1>4, <1>7
  <2>2. ASSUME Found(l, c) # {}
        PROVE  c \in Rchunks(l)
    <3>1. PICK k \in 1 .. n : own[k] = c
      BY <1>5, <2>2
    <3> QED
      BY <1>4, <3>1
  <2> QED
    BY <2>1, <2>2
<1>9. \A c : \A e \in Found(l, c) : \E k \in 1 .. n : e = l.area[k]
  BY <1>5
<1>10. \A c : \A e \in Found(l, c) : e \in Exception
  BY <1>6, <1>9
<1>11. Rchunks(l) \subseteq Chunks
  BY <1>3, <1>4
<1> QED
  BY <1>7, <1>8, <1>9, <1>10, <1>11 DEF n

\* An empty leaf is neat.
LEMMA EmptyIsNeat == Neat(EmptyLeaf) /\ Rchunks(EmptyLeaf) = {}
<1> DEFINE e == [offset |-> LeafSize, rchunk |-> 0]
           map == <<e>>
           area == <<>>
<1>1. EmptyLeaf.map = map /\ EmptyLeaf.area = area
  BY DEF EmptyLeaf
<1>2. LeafSize \in Nat /\ LeafSize >= 4
  <2>1. LeafSize \in Nat /\ LeafSize >= (1 + 2 * Cardinality(Bit)) + 3 + 1 /\ Cardinality(Bit) \in Nat
    BY LeafAssumption, FS_CardinalityType
  <2> DEFINE k == Cardinality(Bit)
  <2>2. LeafSize \in Nat /\ LeafSize >= (1 + 2 * k) + 3 + 1 /\ k \in Nat
    BY <2>1
  <2> HIDE DEF k
  <2> QED
    BY <2>2
<1>3. Len(map) = 1 /\ map[1] = e /\ Len(area) = 0
  OBVIOUS
<1>4. e.offset = LeafSize /\ e.rchunk = 0
  OBVIOUS
<1> HIDE DEF map, area, e
<1>5. Shaped(EmptyLeaf)
  BY FirstLeaf
<1>6. PICK q : Placed(map, 0, q)
  BY <1>1, <1>3, <1>5 DEF Shaped
<1>7. \A i \in 1 .. Len(map) - 1 : FALSE
  BY <1>3
<1>8. Lined(map, q)
  BY <1>3, <1>4, <1>7 DEF Lined
<1> DEFINE own == [k \in 1 .. 0 |-> 0]
<1>9. Owned(map, 0, q, own)
  <2>1. \A k \in 1 .. 0 : FALSE
    OBVIOUS
  <2>2. own \in [1 .. 0 -> Chunks]
    BY <2>1
  <2> HIDE DEF own
  <2> QED
    BY <1>7, <2>2 DEF Owned
<1> HIDE DEF own
<1>10. Lists(map, 0, q, own)
  BY <1>6, <1>8, <1>9 DEF Lists
<1>11. Freespace(EmptyLeaf) >= 0
  <2>1. Freespace(EmptyLeaf) = LeafSize - 2 * 0 - 1
    BY <1>1, <1>3, <1>5, FreeIs
  <2> QED
    BY <1>2, <2>1
<1>12. Neat(EmptyLeaf)
  BY <1>1, <1>3, <1>5, <1>10, <1>11 DEF Neat
<1>13. Rchunks(EmptyLeaf) = {}
  BY <1>1, <1>5, <1>7, RchunksIs
<1> QED
  BY <1>12, <1>13

\* The exceptions of a chunk are shared by snapshots of the mask, each snapshot
\* having one of them at most.
SharesFit(es, mask) ==
    /\ \A e \in es : e.share # {} /\ e.share \subseteq mask
    /\ \A e, f \in es : e # f => e.share \intersect f.share = {}

\* A leaf all of whose exceptions are shared is as its operations expect it.
LEMMA NeatIsSound ==
    ASSUME NEW l, Neat(l), \A c : \A e \in Found(l, c) : e.share # {}
    PROVE  LeafSound(l)
<1> DEFINE len == Len(l.map)
           n == Len(l.area)
<1>1. Shaped(l) /\ Freespace(l) >= 0
  BY DEF Neat
<1>2. PICK q, own : Lists(l.map, n, q, own)
  BY DEF Neat
<1>3. /\ Count(l) = len - 1 /\ len \in Nat \ {0} /\ n \in Nat /\ Count(l) + 1 = len
      /\ l.map \in Seq(MapEntry) /\ l.area \in Seq(Exception)
      /\ Placed(l.map, n, q) /\ Lined(l.map, q)
  <2>1. Count(l) = len - 1 /\ len \in Nat \ {0} /\ n \in Nat
    BY <1>1, FreeIs
  <2> QED
    BY <1>1, <1>2, <2>1 DEF Shaped, Directory, Lists
<1>4. LeafSize \in Int
  BY LeafAssumption
<1>5. \A i \in 1 .. len : /\ q[i] \in 1 .. n + 1 /\ q[i] \in Int
                         /\ l.map[i].offset = LeafSize - 2 * ((n + 1) - q[i])
  <2>1. \A i \in 1 .. len : /\ q[i] \in 1 .. n + 1
                         /\ l.map[i].offset = LeafSize - 2 * ((n + 1) - q[i])
    BY <1>3 DEF Placed, EXC
  <2> HIDE DEF len, n
  <2> QED
    BY <1>3, <2>1
<1>6. /\ \A i \in 1 .. len - 1 : q[i] < q[i + 1] /\ l.map[i].rchunk \in Chunks
      /\ \A i, j \in 1 .. len - 1 : i < j => l.map[i].rchunk < l.map[j].rchunk
      /\ l.map[len].rchunk = 0 /\ q[1] = 1 /\ q[len] = n + 1
  BY <1>3 DEF Lined, Placed
<1> HIDE DEF len, n
<1>7. ASSUME NEW i \in 1 .. len - 1
      PROVE  /\ l.map[i].offset < l.map[i + 1].offset
             /\ i < len - 1 => l.map[i].rchunk < l.map[i + 1].rchunk
  <2> DEFINE a == q[i]
             b == q[i + 1]
  <2>1. i \in 1 .. len /\ i + 1 \in 1 .. len
    BY <1>3
  <2>2. a < b /\ a \in Int /\ b \in Int
    BY <1>5, <1>6, <2>1
  <2>3. l.map[i].offset = LeafSize - 2 * ((n + 1) - a) /\ l.map[i + 1].offset = LeafSize - 2 * ((n + 1) - b)
    BY <1>5, <2>1
  <2> HIDE DEF a, b
  <2>4. l.map[i].offset < l.map[i + 1].offset
    BY <1>3, <1>4, <2>2, <2>3
  <2>5. i < len - 1 => i + 1 \in 1 .. len - 1 /\ i < i + 1
    BY <1>3
  <2> QED
    BY <1>6, <2>4, <2>5
<1>8. l.map[len] = [offset |-> LeafSize, rchunk |-> 0]
  <2>1. len \in 1 .. len
    BY <1>3
  <2>2. l.map[len] \in MapEntry
    BY <1>3, <2>1 DEF len
  <2>3. l.map[len].offset = LeafSize - 2 * ((n + 1) - (n + 1))
    BY <1>5, <1>6, <2>1
  <2>4. l.map[len].offset = LeafSize
    BY <1>3, <1>4, <2>3
  <2> DEFINE e == l.map[len]
  <2>5. e \in [offset : Int, rchunk : Int] /\ e.offset = LeafSize /\ e.rchunk = 0
    BY <1>6, <2>2, <2>4 DEF MapEntry
  <2> HIDE DEF e
  <2>6. e = [offset |-> LeafSize, rchunk |-> 0]
    BY <2>5
  <2> QED
    BY <2>6 DEF e
<1>9. l.map[1].offset = LeafSize - EXC * Len(l.area)
  <2>1. 1 \in 1 .. len
    BY <1>3
  <2>2. l.map[1].offset = LeafSize - 2 * ((n + 1) - 1)
    BY <1>5, <1>6, <2>1
  <2>3. (n + 1) - 1 = n
    BY <1>3
  <2> QED
    BY <2>2, <2>3 DEF EXC, n
<1>10. \A e \in ToSet(l.area) : e.share # {}
  <2> TAKE e \in ToSet(l.area)
  <2>1. PICK k \in 1 .. Len(l.area) : e = l.area[k]
    <3>1. DOMAIN l.area = 1 .. Len(l.area)
      BY <1>3, LenProperties
    <3> QED
      BY <3>1 DEF ToSet
  <2>2. PICK c \in Rchunks(l) : e \in Found(l, c)
    BY <2>1, NeatFound
  <2> QED
    BY <2>2
<1> QED
  BY <1>1, <1>3, <1>7, <1>8, <1>9, <1>10 DEF LeafSound

\* The exceptions without those bits are still shared as they should be.
LEMMA SharesCut ==
    ASSUME NEW es, NEW mask, SharesFit(es, mask), NEW bits, \A e \in es : e \in Exception
    PROVE  SharesFit(Cut(es, bits), mask)
<1>1. ASSUME NEW e \in Cut(es, bits)
      PROVE  \E x \in es : ~(x.share \subseteq bits) /\ e = [x EXCEPT !.share = @ \ bits]
                          /\ e.share = x.share \ bits
  <2>1. PICK x \in es : ~(x.share \subseteq bits) /\ e = [x EXCEPT !.share = @ \ bits]
    BY DEF Cut
  <2>2. x \in [share : SUBSET Bit, chunk : StoreChunks]
    BY DEF Exception
  <2> QED
    BY <2>1, <2>2
<1>2. ASSUME NEW e \in Cut(es, bits)
      PROVE  e.share # {} /\ e.share \subseteq mask
  BY <1>1 DEF SharesFit
<1>3. ASSUME NEW e \in Cut(es, bits), NEW f \in Cut(es, bits), e # f
      PROVE  e.share \intersect f.share = {}
  <2>1. PICK x \in es : e = [x EXCEPT !.share = @ \ bits] /\ e.share = x.share \ bits
    BY <1>1
  <2>2. PICK y \in es : f = [y EXCEPT !.share = @ \ bits] /\ f.share = y.share \ bits
    BY <1>1
  <2>3. x # y
    BY <1>3, <2>1, <2>2
  <2>4. x.share \intersect y.share = {}
    BY <2>3 DEF SharesFit
  <2> QED
    BY <2>1, <2>2, <2>4
<1> QED
  BY <1>2, <1>3 DEF SharesFit

\* What Less is.
LEMMA LessIs ==
    ASSUME NEW e, e \in Exception, NEW b
    PROVE  Less(e, b) \in Exception /\ Less(e, b).chunk = e.chunk
           /\ Less(e, b).share = IF b = ORIGIN THEN e.share ELSE e.share \ {b}
<1>1. e \in [share : SUBSET Bit, chunk : StoreChunks]
  BY DEF Exception
<1>2. CASE b = ORIGIN
  BY <1>2 DEF Less
<1>3. CASE b # ORIGIN
  <2>1. Less(e, b) = [share |-> e.share \ {b}, chunk |-> e.chunk]
    BY <1>1, <1>3 DEF Less
  <2> QED
    BY <1>1, <1>3, <2>1 DEF Exception
<1> QED
  BY <1>2, <1>3

\* The exception for a write is shared as it should be: make_unique asks for one
\* only where the snapshots have none yet, or the snapshot shares one.
LEMMA SharesGrow ==
    ASSUME NEW es, NEW mask, SharesFit(es, mask), \A e \in es : e \in Exception,
           NEW b, b # ORIGIN => b \in mask, NEW new, NEW active, active \subseteq mask,
           b = ORIGIN => ~(active \subseteq SharedBy(es)),
           b # ORIGIN => ~ \E e \in es : e.share = {b}
    PROVE  SharesFit(WithNew(es, b, new, active), mask)
<1> DEFINE x == NewFor(es, b, new, active)
<1>1. x.share = IF b = ORIGIN THEN active \ SharedBy(es) ELSE {b}
  BY DEF NewFor
<1>2. x.share # {} /\ x.share \subseteq mask
  BY <1>1
<1>3. ASSUME NEW e \in es
      PROVE  /\ Less(e, b).share # {} /\ Less(e, b).share \subseteq mask
             /\ Less(e, b).share \intersect x.share = {}
  <2>1. Less(e, b).share = IF b = ORIGIN THEN e.share ELSE e.share \ {b}
    BY LessIs
  <2>2. e.share # {} /\ e.share \subseteq mask
    BY DEF SharesFit
  <2>3. e.share \subseteq SharedBy(es)
    BY DEF SharedBy
  <2> HIDE DEF x
  <2> QED
    BY <1>1, <2>1, <2>2, <2>3
<1>4. ASSUME NEW e \in es, NEW f \in es, Less(e, b) # Less(f, b)
      PROVE  Less(e, b).share \intersect Less(f, b).share = {}
  <2>1. /\ Less(e, b).share = IF b = ORIGIN THEN e.share ELSE e.share \ {b}
        /\ Less(f, b).share = IF b = ORIGIN THEN f.share ELSE f.share \ {b}
    BY LessIs
  <2>2. e # f
    BY <1>4
  <2>3. e.share \intersect f.share = {}
    BY <2>2 DEF SharesFit
  <2> QED
    BY <2>1, <2>3
<1>5. WithNew(es, b, new, active) = {Less(e, b) : e \in es} \union {x}
  BY DEF WithNew
<1> HIDE DEF x
<1> QED
  BY <1>2, <1>3, <1>4, <1>5 DEF SharesFit

\* The exceptions of two leaves without a chunk in common.
LEMMA SharesJoin ==
    ASSUME NEW es, NEW fs, NEW mask, SharesFit(es, mask), SharesFit(fs, mask), es = {} \/ fs = {}
    PROVE  SharesFit(es \union fs, mask)
BY DEF SharesFit

\* The exceptions of one chunk are not more than the snapshots.
LEMMA FewExceptions ==
    ASSUME NEW l, Neat(l), Distinct(l.area), NEW c, SharesFit(Found(l, c), Bit),
           Rchunks(l) \subseteq {c}
    PROVE  Len(l.area) <= Cardinality(Bit) /\ Len(l.area) \in Nat
<1> DEFINE n == Len(l.area)
           bitOf(k) == CHOOSE b \in Bit : b \in l.area[k].share
           g == [k \in 1 .. n |-> bitOf(k)]
<1>1. n \in Nat
  BY FreeIs DEF Neat
<1>2. \A k \in 1 .. n : l.area[k] \in Found(l, c)
  BY NeatFound
<1>3. ASSUME NEW k \in 1 .. n
      PROVE  bitOf(k) \in Bit /\ bitOf(k) \in l.area[k].share
  <2>1. \E b \in Bit : b \in l.area[k].share
    BY <1>2 DEF SharesFit
  <2> QED
    BY <2>1
<1>4. g \in [1 .. n -> Bit]
  BY <1>3
<1>5. ASSUME NEW j \in 1 .. n, NEW k \in 1 .. n, g[j] = g[k]
      PROVE  j = k
  <2>1. g[j] \in l.area[j].share /\ g[j] \in l.area[k].share
    BY <1>3, <1>5
  <2> HIDE DEF g
  <2>2. l.area[j] = l.area[k]
    BY <1>2, <2>1 DEF SharesFit
  <2> QED
    BY <2>2 DEF Distinct
<1>6. IsFiniteSet(Bit) /\ Cardinality(Bit) \in Nat
  BY LeafAssumption, FS_CardinalityType
<1>7. IsFiniteSet(1 .. n) /\ Cardinality(1 .. n) = n
  <2>1. IsFiniteSet(1 .. n) /\ Cardinality(1 .. n) = IF 1 > n THEN 0 ELSE n - 1 + 1
    <3>1. 1 \in Int /\ n \in Int
      BY <1>1
    <3> HIDE DEF n
    <3> QED
      BY ONLY <3>1, FS_Interval
  <2> HIDE DEF n
  <2> QED
    BY <1>1, <2>1
<1> HIDE DEF g
<1>8. g \in Injection(1 .. n, Bit)
  <2> HIDE DEF n
  <2> QED
    BY <1>4, <1>5 DEF Injection, IsInjective
<1>9. Cardinality(1 .. n) <= Cardinality(Bit)
  <2> DEFINE S == 1 .. n
  <2>1. g \in Injection(S, Bit)
    BY <1>8
  <2> HIDE DEF S
  <2>2. Cardinality(S) <= Cardinality(Bit)
    BY ONLY <1>6, <2>1, FS_Injection
  <2> QED
    BY <2>2 DEF S
<1> QED
  BY <1>1, <1>7, <1>9

\* A leaf that cannot be split has room for an exception.
LEMMA RoomForOne ==
    ASSUME NEW l, Neat(l), Distinct(l.area), \A c : SharesFit(Found(l, c), Bit), ~(Count(l) >= 2),
           NEW c
    PROVE  HasRoom(l, c)
<1> DEFINE n == Len(l.area)
           len == Len(l.map)
           k == Cardinality(Bit)
           d == CHOOSE x : x \in Rchunks(l)
<1>1. /\ Shaped(l) /\ Freespace(l) = LeafSize - 2 * n - len /\ Count(l) = len - 1
      /\ len \in Nat \ {0} /\ n \in Nat
  BY FreeIs DEF Neat
<1>2. len <= 2
  BY <1>1
<1>3. Rchunks(l) \subseteq {d}
  <2>1. Rchunks(l) = {l.map[i].rchunk : i \in 1 .. len - 1}
    BY <1>1, RchunksIs
  <2>2. \A i, j \in 1 .. len - 1 : i = j
    BY <1>1, <1>2
  <2>3. \A x, y \in Rchunks(l) : x = y
    BY <2>1, <2>2
  <2> QED
    BY <2>3
<1>4. n <= k
  BY <1>3, FewExceptions
<1>5. LeafSize \in Nat /\ LeafSize >= (1 + 2 * k) + 3 + 1 /\ k \in Nat
  BY LeafAssumption, FS_CardinalityType
<1>6. Need(l, c) <= 3 /\ Need(l, c) \in Int
  BY DEF Need, EXC, ENTRY
<1> HIDE DEF n, len, k
<1>7. LeafSize - 2 * n - len >= 3
  BY <1>1, <1>2, <1>4, <1>5
<1>8. Freespace(l) >= Need(l, c)
  BY <1>1, <1>5, <1>6, <1>7
<1> QED
  BY <1>8 DEF HasRoom
==============================================================================
