--------------------------- MODULE SnapStoreProofs ---------------------------
(***************************************************************************)
(* Proofs about the snapshot table and the copy-before-write store that    *)
(* extends it, for every number of snapshots, clients, tags, chunks and    *)
(* store chunks. Of the table: its type, the agreement of the list, the    *)
(* mask and the disk copy, the use counts, and that a snapshot in use is   *)
(* never deleted. Of the store: its type, that a snapshot reads each chunk *)
(* through one exception, that every chunk of the store is free or has one *)
(* owner, that a chunk nobody shares stays so, and that it implements      *)
(* independent volumes.                                                    *)
(***************************************************************************)
EXTENDS SnapStore, SequenceTheorems, FiniteSetTheorems, WellFoundedInduction, TLAPS

-----------------------------------------------------------------------------
(* Lists and numbers. *)

\* Removing position i shifts the later entries down by one: the memmove of
\* delete_snap.
LEMMA RemoveAtProperties ==
    ASSUME NEW S, NEW s \in Seq(S), NEW i \in DOMAIN s
    PROVE  /\ RemoveAt(s, i) \in Seq(S)
           /\ Len(RemoveAt(s, i)) = Len(s) - 1
           /\ \A j \in 1 .. Len(s) - 1 :
                RemoveAt(s, i)[j] = IF j < i THEN s[j] ELSE s[j + 1]
<1> DEFINE front == SubSeq(s, 1, i - 1)
           back  == SubSeq(s, i + 1, Len(s))
<1>1. i \in 1 .. Len(s) /\ Len(s) \in Nat
  OBVIOUS
<1>2. /\ front \in Seq(S)
      /\ Len(front) = i - 1
      /\ \A j \in 1 .. i - 1 : front[j] = s[j]
  BY <1>1, SubSeqProperties
<1>3. /\ back \in Seq(S)
      /\ Len(back) = Len(s) - i
      /\ \A j \in 1 .. Len(s) - i : back[j] = s[i + j]
  BY <1>1, SubSeqProperties
<1>4. RemoveAt(s, i) = front \o back
  BY DEF RemoveAt
<1> HIDE DEF front, back
<1> DEFINE both == front \o back
<1>5. both \in Seq(S) /\ Len(both) = Len(s) - 1
  <2>1. Len(both) = Len(front) + Len(back)
    BY <1>2, <1>3, ConcatProperties
  <2>2. both \in Seq(S)
    BY <1>2, <1>3, ConcatProperties
  <2> HIDE DEF both
  <2> QED
    BY <1>1, <1>2, <1>3, <2>1, <2>2
<1>6. \A j \in 1 .. Len(front) + Len(back) :
        both[j] = IF j <= Len(front) THEN front[j] ELSE back[j - Len(front)]
  BY <1>2, <1>3, ConcatProperties
<1>7. ASSUME NEW j \in 1 .. Len(s) - 1
      PROVE  both[j] = IF j < i THEN s[j] ELSE s[j + 1]
  <2> HIDE DEF both
  <2>1. CASE j < i
    <3>1. j \in 1 .. i - 1 /\ j <= Len(front) /\ j \in 1 .. Len(front) + Len(back)
      BY <1>1, <1>2, <1>3, <2>1
    <3>2. both[j] = front[j]
      BY <1>6, <3>1
    <3> QED
      BY <1>2, <2>1, <3>1, <3>2
  <2>2. CASE ~(j < i)
    <3>1. j - (i - 1) \in 1 .. Len(s) - i
      BY <1>1, <2>2
    <3>2. back[j - (i - 1)] = s[i + (j - (i - 1))]
      BY <1>3, <3>1
    <3>3. i + (j - (i - 1)) = j + 1
      BY <1>1
    <3>4. j \in 1 .. Len(front) + Len(back) /\ ~(j <= Len(front))
      BY <1>1, <1>2, <1>3, <2>2
    <3>5. both[j] = back[j - Len(front)]
      BY <1>6, <3>4
    <3> QED
      BY <1>2, <2>2, <3>2, <3>3, <3>5
  <2> QED
    BY <2>1, <2>2
<1> QED
  BY <1>4, <1>5, <1>7

\* The positions of the shortened list are those of the old one but the removed
\* one, renumbered.
LEMMA RemoveAtPositions ==
    ASSUME NEW S, NEW s \in Seq(S), NEW i \in DOMAIN s
    PROVE  \E old \in [DOMAIN RemoveAt(s, i) -> DOMAIN s \ {i}] :
              /\ \A j \in DOMAIN RemoveAt(s, i) : RemoveAt(s, i)[j] = s[old[j]]
              /\ \A j, k \in DOMAIN RemoveAt(s, i) : j # k => old[j] # old[k]
              /\ \A m \in DOMAIN s \ {i} :
                    \E j \in DOMAIN RemoveAt(s, i) : old[j] = m
<1> DEFINE r == RemoveAt(s, i)
           old == [j \in DOMAIN r |-> IF j < i THEN j ELSE j + 1]
<1>1. /\ r \in Seq(S)
      /\ Len(r) = Len(s) - 1
      /\ \A j \in 1 .. Len(s) - 1 : r[j] = IF j < i THEN s[j] ELSE s[j + 1]
  BY RemoveAtProperties
<1>2. DOMAIN r = 1 .. Len(s) - 1 /\ DOMAIN s = 1 .. Len(s) /\ Len(s) \in Nat
  BY <1>1
<1> HIDE DEF r
<1>3. old \in [DOMAIN r -> DOMAIN s \ {i}]
  BY <1>2
<1>4. \A j \in DOMAIN r : r[j] = s[old[j]]
  BY <1>1, <1>2
<1>5. \A j, k \in DOMAIN r : j # k => old[j] # old[k]
  BY <1>2
<1>6. ASSUME NEW m \in DOMAIN s \ {i}
      PROVE  \E j \in DOMAIN r : old[j] = m
  <2>1. CASE m < i
    <3>1. m \in DOMAIN r /\ old[m] = m
      BY <1>2, <2>1
    <3> QED
      BY <3>1
  <2>2. CASE m > i
    <3>1. m - 1 \in DOMAIN r /\ old[m - 1] = m
      BY <1>2, <2>2
    <3> QED
      BY <3>1
  <2> QED
    BY <1>2, <2>1, <2>2
<1> HIDE DEF old
<1>7. \E f \in [DOMAIN r -> DOMAIN s \ {i}] :
          /\ \A j \in DOMAIN r : r[j] = s[f[j]]
          /\ \A j, k \in DOMAIN r : j # k => f[j] # f[k]
          /\ \A m \in DOMAIN s \ {i} : \E j \in DOMAIN r : f[j] = m
  BY <1>3, <1>4, <1>5, <1>6
<1> QED
  BY <1>7 DEF r

\* A set of naturals has a least element.
LEMMA LeastNat ==
    ASSUME NEW S \in SUBSET Nat, S # {}
    PROVE  \E m \in S : \A x \in S : m <= x
<1> DEFINE below == OpToRel(<, Nat)
<1>1. IsWellFoundedOn(below, Nat)
  BY NatLessThanWellFounded
<1>2. \A x, y \in Nat : y < x => <<y, x>> \in below
  BY DEF OpToRel
<1> HIDE DEF below
<1>3. PICK x \in S : \A y \in S : ~(<<y, x>> \in below)
  BY <1>1, WFMin
<1>4. \A y \in S : ~(y < x)
  BY <1>2, <1>3, Zenon
<1>5. \A y \in S : y \in Nat /\ x \in Nat
  OBVIOUS
<1> QED
  BY <1>4, <1>5

-----------------------------------------------------------------------------
(* The list operations of the table. *)

\* Replacing one entry of a list by a snapshot leaves a list of snapshots.
LEMMA ReplaceEntry ==
    ASSUME NEW list \in Seq(Snapshot), NEW i \in DOMAIN list, NEW s \in Snapshot,
           NEW new, new = [list EXCEPT ![i] = s]
    PROVE  /\ new \in Seq(Snapshot)
           /\ DOMAIN new = DOMAIN list
           /\ new[i] = s
           /\ \A j \in DOMAIN list \ {i} : new[j] = list[j]
<1> HIDE DEF Snapshot
<1>1. new \in Seq(Snapshot) /\ Len(new) = Len(list)
  BY ExceptSeq
<1>2. DOMAIN new = 1 .. Len(new) /\ DOMAIN list = 1 .. Len(list)
  BY <1>1
<1> QED
  BY <1>1, <1>2

\* A deletion keeps tags and bits distinct, and takes exactly the bit of the
\* deleted snapshot out of the mask.
LEMMA RemoveKeepsDistinct ==
    ASSUME NEW list \in Seq(Snapshot), DistinctEntries(list), NEW i \in DOMAIN list
    PROVE  /\ RemoveAt(list, i) \in Seq(Snapshot)
           /\ DistinctEntries(RemoveAt(list, i))
           /\ MaskOf(RemoveAt(list, i)) = MaskOf(list) \ BitsOf(list[i])
           /\ TagsOf(RemoveAt(list, i)) = TagsOf(list) \ {list[i].tag}
<1> DEFINE r == RemoveAt(list, i)
<1>1. PICK old \in [DOMAIN r -> DOMAIN list \ {i}] :
         /\ \A j \in DOMAIN r : r[j] = list[old[j]]
         /\ \A j, k \in DOMAIN r : j # k => old[j] # old[k]
         /\ \A m \in DOMAIN list \ {i} : \E j \in DOMAIN r : old[j] = m
  <2> HIDE DEF Snapshot
  <2> QED
    BY RemoveAtPositions
<1>2. r \in Seq(Snapshot)
  BY RemoveAtProperties
<1> HIDE DEF r
<1>3. \A m \in DOMAIN list \ {i} :
         /\ list[m].tag # list[i].tag
         /\ ~Squashed(list[m]) => list[m].bit # list[i].bit
  BY DEF DistinctEntries
<1>4. DistinctEntries(r)
  <2>1. ASSUME NEW j \in DOMAIN r, NEW k \in DOMAIN r, j # k
        PROVE  /\ r[j].tag # r[k].tag
               /\ ~Squashed(r[j]) => r[j].bit # r[k].bit
    <3>1. /\ old[j] \in DOMAIN list /\ old[k] \in DOMAIN list /\ old[j] # old[k]
          /\ r[j] = list[old[j]] /\ r[k] = list[old[k]]
      BY <1>1, <2>1
    <3> QED
      BY <3>1 DEF DistinctEntries
  <2> QED
    BY <2>1 DEF DistinctEntries
<1>5. /\ \A j \in DOMAIN r : \E m \in DOMAIN list \ {i} : r[j] = list[m]
      /\ \A m \in DOMAIN list \ {i} : \E j \in DOMAIN r : list[m] = r[j]
  <2>1. ASSUME NEW j \in DOMAIN r
        PROVE  \E m \in DOMAIN list \ {i} : r[j] = list[m]
    BY <1>1
  <2>2. ASSUME NEW m \in DOMAIN list \ {i}
        PROVE  \E j \in DOMAIN r : list[m] = r[j]
    <3>1. PICK j \in DOMAIN r : old[j] = m
      BY <1>1
    <3> QED
      BY <1>1, <3>1
  <2> QED
    BY <2>1, <2>2
<1>6. MaskOf(r) = MaskOf(list) \ BitsOf(list[i])
  <2>1. {r[j].bit : j \in DOMAIN r} = {list[m].bit : m \in DOMAIN list \ {i}}
    <3> DEFINE new == {r[j].bit : j \in DOMAIN r}
               was == {list[m].bit : m \in DOMAIN list \ {i}}
    <3>1. ASSUME NEW j \in DOMAIN r
          PROVE  r[j].bit \in was
      BY <1>5
    <3>2. ASSUME NEW m \in DOMAIN list \ {i}
          PROVE  list[m].bit \in new
      <4>1. PICK j \in DOMAIN r : list[m] = r[j]
        BY <1>5
      <4>2. r[j].bit \in new
        OBVIOUS
      <4> QED
        BY <4>1, <4>2
    <3>3. \A x \in new : x \in was
      BY <3>1
    <3>4. \A x \in was : x \in new
      <4> HIDE DEF new
      <4> QED
        BY <3>2
    <3> HIDE DEF new, was
    <3>5. new = was
      BY <3>3, <3>4
    <3> QED
      BY <3>5 DEF new, was
  <2> QED
    BY <1>3, <2>1 DEF MaskOf, BitsOf, Squashed
<1>7. TagsOf(r) = TagsOf(list) \ {list[i].tag}
  <2>1. TagsOf(r) = {list[m].tag : m \in DOMAIN list \ {i}}
    <3> DEFINE new == {r[j].tag : j \in DOMAIN r}
               was == {list[m].tag : m \in DOMAIN list \ {i}}
    <3>1. ASSUME NEW j \in DOMAIN r
          PROVE  r[j].tag \in was
      BY <1>5
    <3>2. ASSUME NEW m \in DOMAIN list \ {i}
          PROVE  list[m].tag \in new
      <4>1. PICK j \in DOMAIN r : list[m] = r[j]
        BY <1>5
      <4>2. r[j].tag \in new
        OBVIOUS
      <4> QED
        BY <4>1, <4>2
    <3>3. \A x \in new : x \in was
      BY <3>1
    <3>4. \A x \in was : x \in new
      <4> HIDE DEF new
      <4> QED
        BY <3>2
    <3> HIDE DEF new, was
    <3>5. new = was
      BY <3>3, <3>4
    <3> QED
      BY <3>5 DEF new, was, TagsOf
  <2> QED
    BY <1>3, <2>1 DEF TagsOf
<1> QED
  BY <1>2, <1>4, <1>6, <1>7 DEF r

\* A new snapshot with a new tag and a free bit keeps both distinct.
LEMMA AppendKeepsDistinct ==
    ASSUME NEW list \in Seq(Snapshot), DistinctEntries(list),
           NEW t \in Tags \ TagsOf(list), NEW b \in Bit \ MaskOf(list)
    PROVE  LET new == Append(list, NewSnapshot(t, b))
           IN  /\ new \in Seq(Snapshot)
               /\ DistinctEntries(new)
               /\ MaskOf(new) = MaskOf(list) \union {b}
               /\ TagsOf(new) = TagsOf(list) \union {t}
               /\ DOMAIN new = DOMAIN list \union {Len(list) + 1}
               /\ new[Len(list) + 1] = NewSnapshot(t, b)
               /\ \A j \in DOMAIN list : new[j] = list[j]
<1> DEFINE new == Append(list, NewSnapshot(t, b))
           s == NewSnapshot(t, b)
           n == Len(list) + 1
<1>1. s \in Snapshot /\ s.tag = t /\ s.bit = b /\ b # SQUASHED
  BY TableAssumption DEF NewSnapshot, Snapshot, Bit, SQUASHED
<1>2. new = Append(list, s)
  OBVIOUS
<1> HIDE DEF s, new
<1>3. /\ new \in Seq(Snapshot)
      /\ DOMAIN new = 1 .. n
      /\ DOMAIN list = 1 .. Len(list)
      /\ new[n] = s
      /\ \A j \in DOMAIN list : new[j] = list[j]
  BY <1>1, <1>2, AppendProperties
<1>4. DOMAIN new = DOMAIN list \union {n} /\ n \notin DOMAIN list
  BY <1>3
<1> HIDE DEF n
<1>5. \A j \in DOMAIN list : list[j].tag # t /\ list[j].bit # b
  BY <1>1 DEF TagsOf, MaskOf
<1>6. DistinctEntries(new)
  <2>1. ASSUME NEW j \in DOMAIN new, NEW k \in DOMAIN new, j # k
        PROVE  /\ new[j].tag # new[k].tag
               /\ ~Squashed(new[j]) => new[j].bit # new[k].bit
    <3>1. CASE j \in DOMAIN list /\ k \in DOMAIN list
      <4>1. new[j] = list[j] /\ new[k] = list[k]
        BY <1>3, <3>1
      <4> QED
        BY <2>1, <3>1, <4>1 DEF DistinctEntries
    <3>2. CASE j = n
      <4>1. k \in DOMAIN list /\ new[k] = list[k] /\ new[j] = s
        BY <1>3, <1>4, <2>1, <3>2
      <4> QED
        BY <1>1, <1>5, <4>1
    <3>3. CASE k = n
      <4>1. j \in DOMAIN list /\ new[j] = list[j] /\ new[k] = s
        BY <1>3, <1>4, <2>1, <3>3
      <4> QED
        BY <1>1, <1>5, <4>1
    <3> QED
      BY <1>4, <3>1, <3>2, <3>3
  <2> QED
    BY <2>1 DEF DistinctEntries
<1>7. MaskOf(new) = MaskOf(list) \union {b}
  <2>1. {new[j].bit : j \in DOMAIN new} = {list[j].bit : j \in DOMAIN list} \union {b}
    <3>1. ASSUME NEW j \in DOMAIN new
          PROVE  new[j].bit \in {list[k].bit : k \in DOMAIN list} \union {b}
      <4>1. CASE j \in DOMAIN list
        BY <1>3, <4>1
      <4>2. CASE j = n
        BY <1>1, <1>3, <4>2
      <4> QED
        BY <1>4, <4>1, <4>2
    <3>2. ASSUME NEW k \in DOMAIN list
          PROVE  \E j \in DOMAIN new : list[k].bit = new[j].bit
      BY <1>3, <1>4
    <3>3. \E j \in DOMAIN new : b = new[j].bit
      BY <1>1, <1>3, <1>4
    <3> QED
      BY <3>1, <3>2, <3>3
  <2> QED
    BY <1>1, <2>1 DEF MaskOf
<1>8. TagsOf(new) = TagsOf(list) \union {t}
  <2>1. ASSUME NEW j \in DOMAIN new
        PROVE  new[j].tag \in {list[k].tag : k \in DOMAIN list} \union {t}
    <3>1. CASE j \in DOMAIN list
      BY <1>3, <3>1
    <3>2. CASE j = n
      BY <1>1, <1>3, <3>2
    <3> QED
      BY <1>4, <3>1, <3>2
  <2>2. ASSUME NEW k \in DOMAIN list
        PROVE  \E j \in DOMAIN new : list[k].tag = new[j].tag
    BY <1>3, <1>4
  <2>3. \E j \in DOMAIN new : t = new[j].tag
    BY <1>1, <1>3, <1>4
  <2>4. {new[j].tag : j \in DOMAIN new} = {list[k].tag : k \in DOMAIN list} \union {t}
    BY <2>1, <2>2, <2>3
  <2> QED
    BY <2>4 DEF TagsOf
<1> QED
  BY <1>3, <1>4, <1>6, <1>8, <1>7 DEF s, n, new

\* A squash keeps the names, and the other snapshots keep their bits.
LEMMA SquashKeepsDistinct ==
    ASSUME NEW list \in Seq(Snapshot), DistinctEntries(list), NEW i \in DOMAIN list,
           NEW new, new = [list EXCEPT ![i].bit = SQUASHED]
    PROVE  /\ new \in Seq(Snapshot)
           /\ DistinctEntries(new)
           /\ MaskOf(new) = MaskOf(list) \ BitsOf(list[i])
           /\ TagsOf(new) = TagsOf(list)
<1> DEFINE s == [list[i] EXCEPT !.bit = SQUASHED]
<1>1. list[i] \in Snapshot
  BY ElementOfSeq
<1>2. s \in Snapshot
  <2>1. SQUASHED \in 0 .. MaxSnapshots
    BY TableAssumption DEF SQUASHED
  <2> QED
    BY <1>1, <2>1 DEF Snapshot
<1>3. s.bit = SQUASHED /\ s.tag = list[i].tag
  BY <1>1 DEF Snapshot
<1>4. new = [list EXCEPT ![i] = s]
  OBVIOUS
<1> HIDE DEF s
<1>5. /\ new \in Seq(Snapshot)
      /\ DOMAIN new = DOMAIN list
      /\ new[i] = s
      /\ \A j \in DOMAIN list \ {i} : new[j] = list[j]
  BY <1>2, <1>4, ReplaceEntry
<1>6. DistinctEntries(new)
  BY <1>3, <1>5 DEF DistinctEntries, Squashed
<1>7. MaskOf(new) = MaskOf(list) \ BitsOf(list[i])
  BY <1>3, <1>5 DEF MaskOf, BitsOf, DistinctEntries, Squashed
<1>8. TagsOf(new) = TagsOf(list)
  BY <1>3, <1>5 DEF TagsOf
<1> QED
  BY <1>5, <1>6, <1>7, <1>8

\* A change of the priority or the use count of one entry changes no tag and
\* no bit.
LEMMA UpdateKeepsDistinct ==
    ASSUME NEW list \in Seq(Snapshot), DistinctEntries(list), NEW i \in DOMAIN list,
           NEW s \in Snapshot, s.tag = list[i].tag, s.bit = list[i].bit,
           NEW new, new = [list EXCEPT ![i] = s]
    PROVE  /\ new \in Seq(Snapshot)
           /\ DistinctEntries(new)
           /\ MaskOf(new) = MaskOf(list)
           /\ TagsOf(new) = TagsOf(list)
<1>1. /\ new \in Seq(Snapshot)
      /\ DOMAIN new = DOMAIN list
      /\ new[i] = s
      /\ \A j \in DOMAIN list \ {i} : new[j] = list[j]
  BY ReplaceEntry
<1>2. DistinctEntries(new)
  BY <1>1 DEF DistinctEntries, Squashed
<1>3. MaskOf(new) = MaskOf(list) /\ TagsOf(new) = TagsOf(list)
  BY <1>1 DEF MaskOf, TagsOf
<1> QED
  BY <1>1, <1>2, <1>3

\* find_snap finds the entry of a tag that is in the list.
LEMMA FindSnapFinds ==
    ASSUME NEW t \in TagsOf(snaps)
    PROVE  FindSnap(t) \in DOMAIN snaps /\ snaps[FindSnap(t)].tag = t
<1>1. \E i \in DOMAIN snaps : snaps[i].tag = t
  BY DEF TagsOf
<1> QED
  BY <1>1 DEF FindSnap

-----------------------------------------------------------------------------
(* What a list, its mask and the transient counts keep together. *)

\* A list of snapshots, its mask and the counts of its bits fit together.
ListInv(list, mask, tr) ==
    /\ list \in Seq(Snapshot)
    /\ tr \in [Bit -> Nat]
    /\ DistinctEntries(list)
    /\ mask = MaskOf(list)
    /\ \A b \in Bit \ mask : tr[b] = 0
    /\ \A i \in DOMAIN list :
          ~Squashed(list[i]) => tr[list[i].bit] + list[i].use <= MaxCount

Cleared(tr, bits) == [b \in Bit |-> IF b \in bits THEN 0 ELSE tr[b]]

\* The fields of an entry of a list; the bit of one that is not squashed is a
\* bit of the mask.
LEMMA EntryTypes ==
    ASSUME NEW list \in Seq(Snapshot), NEW i \in DOMAIN list
    PROVE  /\ list[i] \in Snapshot
           /\ list[i].tag \in Tags /\ list[i].prio \in Prios
           /\ list[i].use \in 0 .. MaxCount /\ list[i].use \in Nat
           /\ ~Squashed(list[i]) => list[i].bit \in Bit
<1>1. list[i] \in Snapshot
  BY ElementOfSeq
<1> QED
  BY <1>1, TableAssumption DEF Snapshot, Squashed, SQUASHED, Bit

\* The bits of a list are bits.
LEMMA MaskInBit ==
    ASSUME NEW list \in Seq(Snapshot)
    PROVE  MaskOf(list) \subseteq Bit
BY EntryTypes DEF MaskOf, Squashed

\* delete_snap keeps the three together.
LEMMA ListRemove ==
    ASSUME NEW list, NEW mask, NEW tr, ListInv(list, mask, tr), NEW i \in DOMAIN list
    PROVE  ListInv(RemoveAt(list, i), mask \ BitsOf(list[i]),
                   Cleared(tr, BitsOf(list[i])))
<1> DEFINE r == RemoveAt(list, i)
           bits == BitsOf(list[i])
           cl == Cleared(tr, bits)
<1>1. list \in Seq(Snapshot) /\ DistinctEntries(list) /\ tr \in [Bit -> Nat]
      /\ mask = MaskOf(list)
  BY DEF ListInv
<1>2. /\ r \in Seq(Snapshot)
      /\ DistinctEntries(r)
      /\ MaskOf(r) = mask \ bits
  BY <1>1, RemoveKeepsDistinct
<1>3. /\ cl \in [Bit -> Nat]
      /\ \A b \in Bit : cl[b] = 0 \/ cl[b] = tr[b]
      /\ \A b \in Bit \cap bits : cl[b] = 0
  BY <1>1 DEF Cleared
<1>4. ASSUME NEW b \in Bit \ (mask \ bits)
      PROVE  cl[b] = 0
  BY <1>3 DEF ListInv
<1>5. ASSUME NEW j \in DOMAIN r, ~Squashed(r[j])
      PROVE  cl[r[j].bit] + r[j].use <= MaxCount
  <2>1. PICK m \in DOMAIN list : r[j] = list[m]
    <3> HIDE DEF Snapshot
    <3> QED
      BY <1>1, RemoveAtPositions
  <2>2. tr[list[m].bit] + list[m].use <= MaxCount
    BY <1>5, <2>1 DEF ListInv
  <2>3. list[m].bit \in Bit /\ list[m].use \in Nat /\ list[m].use <= MaxCount
    BY <1>1, <1>5, <2>1, EntryTypes, TableAssumption
  <2> HIDE DEF cl, r
  <2>4. cl[list[m].bit] = 0 \/ cl[list[m].bit] = tr[list[m].bit]
    BY <1>3, <2>3
  <2>5. cl[list[m].bit] + list[m].use <= MaxCount
    BY <2>2, <2>3, <2>4
  <2> QED
    BY <2>1, <2>5
<1> QED
  BY <1>2, <1>3, <1>4, <1>5 DEF ListInv

\* The squash of auto_delete_snapshot keeps the three together.
LEMMA ListSquash ==
    ASSUME NEW list, NEW mask, NEW tr, ListInv(list, mask, tr), NEW i \in DOMAIN list
    PROVE  ListInv([list EXCEPT ![i].bit = SQUASHED], mask \ BitsOf(list[i]),
                   Cleared(tr, BitsOf(list[i])))
<1> DEFINE new == [list EXCEPT ![i].bit = SQUASHED]
           bits == BitsOf(list[i])
           cl == Cleared(tr, bits)
<1>1. list \in Seq(Snapshot) /\ DistinctEntries(list) /\ tr \in [Bit -> Nat]
      /\ mask = MaskOf(list)
  BY DEF ListInv
<1>2. /\ new \in Seq(Snapshot)
      /\ DistinctEntries(new)
      /\ MaskOf(new) = mask \ bits
  BY <1>1, SquashKeepsDistinct
<1>3. /\ cl \in [Bit -> Nat]
      /\ \A b \in Bit : cl[b] = 0 \/ cl[b] = tr[b]
      /\ \A b \in Bit \cap bits : cl[b] = 0
  BY <1>1 DEF Cleared
<1>4. ASSUME NEW b \in Bit \ (mask \ bits)
      PROVE  cl[b] = 0
  BY <1>3 DEF ListInv
<1>5. ASSUME NEW j \in DOMAIN new, ~Squashed(new[j])
      PROVE  cl[new[j].bit] + new[j].use <= MaxCount
  <2>1. j \in DOMAIN list
    OBVIOUS
  <2>2. Squashed(new[i])
    <3>1. list[i] \in Snapshot
      BY <1>1, EntryTypes
    <3> QED
      BY <3>1 DEF Squashed, Snapshot
  <2>3. new[j] = list[j]
    BY <1>5, <2>1, <2>2
  <2>4. tr[list[j].bit] + list[j].use <= MaxCount
    BY <1>5, <2>1, <2>3 DEF ListInv
  <2>5. list[j].bit \in Bit /\ list[j].use \in Nat /\ list[j].use <= MaxCount
    BY <1>1, <1>5, <2>1, <2>3, EntryTypes, TableAssumption
  <2> HIDE DEF cl, new
  <2>6. cl[list[j].bit] = 0 \/ cl[list[j].bit] = tr[list[j].bit]
    BY <1>3, <2>5
  <2>7. cl[list[j].bit] + list[j].use <= MaxCount
    BY <2>4, <2>5, <2>6
  <2> QED
    BY <2>3, <2>7
<1> QED
  BY <1>2, <1>3, <1>4, <1>5 DEF ListInv

\* create_snapshot's new entry keeps the three together: its bit is one nobody
\* is counted on.
LEMMA ListAppend ==
    ASSUME NEW list, NEW mask, NEW tr, ListInv(list, mask, tr),
           NEW t \in Tags \ TagsOf(list), NEW b \in Bit \ mask
    PROVE  /\ ListInv(Append(list, NewSnapshot(t, b)), mask \union {b}, tr)
           /\ TagsOf(Append(list, NewSnapshot(t, b))) = TagsOf(list) \union {t}
<1> DEFINE new == Append(list, NewSnapshot(t, b))
           n == Len(list) + 1
<1>1. list \in Seq(Snapshot) /\ DistinctEntries(list) /\ tr \in [Bit -> Nat]
      /\ mask = MaskOf(list)
      /\ b \in Bit \ MaskOf(list)
  BY DEF ListInv
<1>2. /\ new \in Seq(Snapshot)
      /\ DistinctEntries(new)
      /\ MaskOf(new) = MaskOf(list) \union {b}
      /\ TagsOf(new) = TagsOf(list) \union {t}
      /\ DOMAIN new = DOMAIN list \union {n}
      /\ new[n] = NewSnapshot(t, b)
      /\ \A j \in DOMAIN list : new[j] = list[j]
  BY <1>1, AppendKeepsDistinct
<1> HIDE DEF new, n
<1>3. ASSUME NEW j \in DOMAIN new, ~Squashed(new[j])
      PROVE  tr[new[j].bit] + new[j].use <= MaxCount
  <2>1. CASE j \in DOMAIN list
    BY <1>2, <1>3, <2>1 DEF ListInv
  <2>2. CASE j = n
    <3>1. new[j].bit = b /\ new[j].use = 0 /\ tr[b] = 0
      BY <1>2, <2>2 DEF NewSnapshot, ListInv
    <3> QED
      BY <3>1, TableAssumption
  <2> QED
    BY <1>2, <2>1, <2>2
<1>4. \A k \in Bit \ (mask \union {b}) : tr[k] = 0
  BY DEF ListInv
<1> QED
  BY <1>1, <1>2, <1>3, <1>4 DEF ListInv, new

\* An update of a priority or a use count keeps the three together, as long as
\* the sum of the two use counts fits.
LEMMA ListUpdate ==
    ASSUME NEW list, NEW mask, NEW tr, ListInv(list, mask, tr), NEW i \in DOMAIN list,
           NEW s \in Snapshot, s.tag = list[i].tag, s.bit = list[i].bit,
           ~Squashed(s) => tr[s.bit] + s.use <= MaxCount
    PROVE  /\ ListInv([list EXCEPT ![i] = s], mask, tr)
           /\ TagsOf([list EXCEPT ![i] = s]) = TagsOf(list)
<1> DEFINE new == [list EXCEPT ![i] = s]
<1>1. list \in Seq(Snapshot) /\ DistinctEntries(list)
  BY DEF ListInv
<1>2. /\ new \in Seq(Snapshot)
      /\ DistinctEntries(new)
      /\ MaskOf(new) = MaskOf(list)
      /\ TagsOf(new) = TagsOf(list)
  BY <1>1, UpdateKeepsDistinct
<1>3. ASSUME NEW j \in DOMAIN new, ~Squashed(new[j])
      PROVE  tr[new[j].bit] + new[j].use <= MaxCount
  BY <1>3 DEF ListInv
<1> QED
  BY <1>2, <1>3 DEF ListInv

-----------------------------------------------------------------------------
(* The inductive invariant, and one lemma for each action.                 *)

\* The list in memory fits its mask and counts; the list on disk could be the
\* one in memory, and names every snapshot that is.
IInv ==
    /\ ListInv(snaps, snapmask, transient)
    /\ bound \in [Clients -> Tags \union {NoTag}]
    /\ disk \in Seq(Snapshot)
    /\ DistinctEntries(disk)
    /\ TagsOf(snaps) \subseteq TagsOf(disk)

\* What InUseKept says of one step.
KeepsInUse ==
    \A i \in DOMAIN snaps :
        UseCount(snaps[i]) > 0 => snaps[i].tag \in TagsOf(snaps')

\* The inductive invariant holds the checked invariants.
LEMMA IInvImplies ==
    ASSUME IInv
    PROVE  TableTypeOK /\ TableConsistent /\ DiskConsistent
           /\ IdleBitsUncounted /\ UseCountFits
<1>1. TableTypeOK
  BY MaskInBit DEF IInv, ListInv, TableTypeOK
<1>2. TableConsistent /\ DiskConsistent /\ IdleBitsUncounted
  BY DEF IInv, ListInv, TableConsistent, DiskConsistent, IdleBitsUncounted
<1>3. ASSUME NEW i \in DOMAIN snaps
      PROVE  UseCount(snaps[i]) <= MaxCount
  <2>1. snaps[i].use \in 0 .. MaxCount
    BY EntryTypes DEF IInv, ListInv
  <2>2. CASE Squashed(snaps[i])
    BY <2>1, <2>2, TableAssumption DEF UseCount
  <2>3. CASE ~Squashed(snaps[i])
    BY <2>3 DEF UseCount, IInv, ListInv
  <2> QED
    BY <2>2, <2>3
<1> QED
  BY <1>1, <1>2, <1>3 DEF UseCountFits

\* A use count is a number no smaller than its persistent part.
LEMMA UseCountType ==
    ASSUME IInv, NEW i \in DOMAIN snaps
    PROVE  UseCount(snaps[i]) \in Nat /\ snaps[i].use <= UseCount(snaps[i])
<1>1. /\ snaps[i].use \in Nat
      /\ ~Squashed(snaps[i]) => snaps[i].bit \in Bit
  BY EntryTypes DEF IInv, ListInv
<1>2. ~Squashed(snaps[i]) => transient[snaps[i].bit] \in Nat
  BY <1>1 DEF IInv, ListInv
<1> QED
  BY <1>1, <1>2 DEF UseCount

\* delete_snap keeps the list, the mask and the counts together and loses only
\* the name of the deleted snapshot.
LEMMA DeleteSnapStep ==
    ASSUME IInv, NEW i \in DOMAIN snaps, DeleteSnap(i)
    PROVE  /\ ListInv(snaps', snapmask', transient')
           /\ TagsOf(snaps') = TagsOf(snaps) \ {snaps[i].tag}
           /\ UseCount(snaps[i]) = 0 => KeepsInUse
<1>1. ListInv(snaps, snapmask, transient)
  BY DEF IInv
<1>2. ListInv(snaps', snapmask', transient')
  BY <1>1, ListRemove DEF DeleteSnap, ClearCounts, Cleared
<1>3. TagsOf(snaps') = TagsOf(snaps) \ {snaps[i].tag}
  BY <1>1, RemoveKeepsDistinct DEF DeleteSnap, ListInv
<1>4. \A j \in DOMAIN snaps \ {i} : snaps[j].tag \in TagsOf(snaps')
  BY <1>1, <1>3 DEF ListInv, DistinctEntries, TagsOf
<1>5. UseCount(snaps[i]) = 0 => KeepsInUse
  BY <1>4 DEF KeepsInUse
<1> QED
  BY <1>2, <1>3, <1>5

\* create_snapshot, with room and by eviction of an idle snapshot.
LEMMA CreateStep ==
    ASSUME IInv, NEW t \in Tags, Create(t)
    PROVE  IInv' /\ KeepsInUse
<1>1. ListInv(snaps, snapmask, transient)
  BY DEF IInv
<1>2. CASE CreateWithRoom(t)
  <2>1. PICK b \in Bit : /\ FreeBit(b)
                         /\ snaps' = Append(snaps, NewSnapshot(t, b))
                         /\ snapmask' = snapmask \union {b}
    BY <1>2 DEF CreateWithRoom
  <2>2. t \in Tags \ TagsOf(snaps) /\ b \in Bit \ snapmask
        /\ transient' = transient /\ bound' = bound /\ disk' = snaps'
    BY <1>2, <2>1 DEF CreateWithRoom, FreeBit
  <2>3. /\ ListInv(snaps', snapmask', transient')
        /\ TagsOf(snaps') = TagsOf(snaps) \union {t}
    BY <1>1, <2>1, <2>2, ListAppend
  <2>4. IInv'
    BY <2>2, <2>3 DEF IInv, ListInv
  <2> QED
    BY <2>3, <2>4 DEF KeepsInUse, TagsOf
<1>3. CASE CreateEvicting(t)
  <2>1. PICK i \in DOMAIN snaps :
           /\ UseCount(snaps[i]) = 0
           /\ LET rest == RemoveAt(snaps, i)
                  mask == snapmask \ BitsOf(snaps[i])
              IN  IF t \in TagsOf(rest)
                  THEN /\ DeleteSnap(i)
                       /\ disk' = IF Squashed(snaps[i]) THEN disk ELSE rest
                  ELSE /\ \E b \in Bit \ mask :
                           /\ \A k \in 0 .. b - 1 : k \in mask
                           /\ snaps' = Append(rest, NewSnapshot(t, b))
                           /\ snapmask' = mask \union {b}
                       /\ transient' = ClearCounts(BitsOf(snaps[i]))
                       /\ disk' = snaps'
    BY <1>3 DEF CreateEvicting
  <2> DEFINE rest == RemoveAt(snaps, i)
             mask == snapmask \ BitsOf(snaps[i])
  <2>2. bound' = bound
    BY <1>3 DEF CreateEvicting
  <2>3. /\ ListInv(rest, mask, ClearCounts(BitsOf(snaps[i])))
        /\ TagsOf(rest) = TagsOf(snaps) \ {snaps[i].tag}
    <3>1. ListInv(rest, mask, Cleared(transient, BitsOf(snaps[i])))
      BY <1>1, ListRemove
    <3>2. ClearCounts(BitsOf(snaps[i])) = Cleared(transient, BitsOf(snaps[i]))
      BY DEF ClearCounts, Cleared
    <3>3. TagsOf(rest) = TagsOf(snaps) \ {snaps[i].tag}
      BY <1>1, RemoveKeepsDistinct DEF ListInv
    <3> HIDE DEF rest, mask
    <3> QED
      BY <3>1, <3>2, <3>3
  <2>4. \A j \in DOMAIN snaps \ {i} : snaps[j].tag \in TagsOf(rest)
    BY <1>1, <2>3 DEF ListInv, DistinctEntries, TagsOf
  <2>5. CASE t \in TagsOf(rest)
    <3>1. DeleteSnap(i) /\ disk' = IF Squashed(snaps[i]) THEN disk ELSE rest
      BY <2>1, <2>5
    <3>2. /\ ListInv(snaps', snapmask', transient')
          /\ TagsOf(snaps') = TagsOf(snaps) \ {snaps[i].tag}
          /\ KeepsInUse
      BY <2>1, <3>1, DeleteSnapStep
    <3>3. snaps' = rest
      BY <3>1 DEF DeleteSnap
    <3>4. /\ disk' \in Seq(Snapshot)
          /\ DistinctEntries(disk')
          /\ TagsOf(snaps') \subseteq TagsOf(disk')
      BY <2>3, <3>1, <3>2, <3>3 DEF IInv, ListInv
    <3> QED
      BY <2>2, <3>2, <3>4 DEF IInv
  <2>6. CASE t \notin TagsOf(rest)
    <3>1. PICK b \in Bit \ mask : /\ snaps' = Append(rest, NewSnapshot(t, b))
                                  /\ snapmask' = mask \union {b}
      BY <2>1, <2>6
    <3>2. disk' = snaps' /\ transient' = ClearCounts(BitsOf(snaps[i]))
      BY <2>1, <2>6
    <3> HIDE DEF rest, mask
    <3>3. /\ ListInv(snaps', snapmask', transient')
          /\ TagsOf(snaps') = TagsOf(rest) \union {t}
      BY <2>3, <2>6, <3>1, <3>2, ListAppend
    <3>4. IInv'
      BY <2>2, <3>2, <3>3 DEF IInv, ListInv
    <3>5. KeepsInUse
      BY <2>1, <2>4, <3>3 DEF KeepsInUse
    <3> QED
      BY <3>4, <3>5
  <2> QED
    BY <2>5, <2>6
<1> QED
  BY <1>2, <1>3 DEF Create

\* DELETE_SNAPSHOT deletes an idle snapshot only.
LEMMA DeleteStep ==
    ASSUME IInv, NEW t \in Tags, Delete(t)
    PROVE  IInv' /\ KeepsInUse
<1>1. PICK i \in DOMAIN snaps : UseCount(snaps[i]) = 0 /\ DeleteSnap(i)
  BY DEF Delete
<1>2. ListInv(snaps', snapmask', transient') /\ KeepsInUse
  BY <1>1, DeleteSnapStep
<1>3. disk' = snaps' /\ bound' = bound
  BY DEF Delete
<1> QED
  BY <1>2, <1>3 DEF IInv, ListInv

\* auto_delete_snapshot squashes a snapshot in use and deletes an idle one.
LEMMA ReleaseStep ==
    ASSUME IInv, Release
    PROVE  IInv' /\ KeepsInUse
<1>1. PICK i \in DOMAIN snaps :
         /\ \/ UseCount(snaps[i]) > 0 /\ Squash(i)
            \/ UseCount(snaps[i]) = 0 /\ DeleteSnap(i) /\ disk' = snaps'
         /\ UNCHANGED bound
  BY DEF Release
<1>2. ListInv(snaps, snapmask, transient)
  BY DEF IInv
<1>3. CASE Squash(i)
  <2>1. ListInv(snaps', snapmask', transient')
    <3>1. ListInv([snaps EXCEPT ![i].bit = SQUASHED], snapmask \ BitsOf(snaps[i]),
                  Cleared(transient, BitsOf(snaps[i])))
      BY <1>2, ListSquash
    <3>2. transient' = Cleared(transient, BitsOf(snaps[i]))
      BY <1>3 DEF Squash, ClearCounts, Cleared
    <3> QED
      BY <1>3, <3>1, <3>2 DEF Squash
  <2>2. TagsOf(snaps') = TagsOf(snaps)
    BY <1>2, <1>3, SquashKeepsDistinct DEF Squash, ListInv
  <2>3. disk' = snaps /\ bound' = bound
    BY <1>1, <1>3 DEF Squash
  <2>4. IInv'
    BY <1>2, <2>1, <2>2, <2>3 DEF IInv, ListInv
  <2> QED
    BY <2>2, <2>4 DEF KeepsInUse, TagsOf
<1>4. CASE UseCount(snaps[i]) = 0 /\ DeleteSnap(i) /\ disk' = snaps'
  <2>1. ListInv(snaps', snapmask', transient') /\ KeepsInUse
    BY <1>4, DeleteSnapStep
  <2> QED
    BY <1>1, <1>4, <2>1 DEF IInv, ListInv
<1> QED
  BY <1>1, <1>3, <1>4

\* A step that changes only counts and clients keeps every snapshot.
LEMMA SameListKeeps ==
    ASSUME TagsOf(snaps') = TagsOf(snaps)
    PROVE  KeepsInUse
BY DEF KeepsInUse, TagsOf

\* IDENTIFY counts the client on a bit of the mask, and checks that the sum of
\* the use counts still fits.
LEMMA IdentifyStep ==
    ASSUME IInv, NEW c \in Clients, NEW t \in Tags, Identify(c, t)
    PROVE  IInv' /\ KeepsInUse
<1> DEFINE i == FindSnap(t)
           s == snaps[i]
<1>1. i \in DOMAIN snaps
  BY FindSnapFinds DEF Identify
<1>2. /\ ~Squashed(s)
      /\ UseCount(s) + 1 <= MaxCount
      /\ transient' = [transient EXCEPT ![s.bit] = @ + 1]
      /\ UNCHANGED <<snaps, snapmask, disk>>
      /\ bound' = [bound EXCEPT ![c] = t]
  BY DEF Identify
<1> HIDE DEF i
<1>3. /\ snaps \in Seq(Snapshot) /\ DistinctEntries(snaps)
      /\ transient \in [Bit -> Nat] /\ snapmask = MaskOf(snaps)
  BY DEF IInv, ListInv
<1>4. s.bit \in Bit /\ s.use \in Nat /\ transient[s.bit] \in Nat
  BY <1>1, <1>2, <1>3, EntryTypes
<1>5. transient' \in [Bit -> Nat]
  BY <1>2, <1>3, <1>4
<1>6. s.bit \in snapmask
  BY <1>1, <1>2, <1>3 DEF MaskOf, Squashed
<1>7. \A b \in Bit \ snapmask : transient'[b] = 0
  BY <1>2, <1>3, <1>6 DEF IInv, ListInv
<1>8. ASSUME NEW j \in DOMAIN snaps, ~Squashed(snaps[j])
      PROVE  transient'[snaps[j].bit] + snaps[j].use <= MaxCount
  <2>1. snaps[j].bit \in Bit
    BY <1>3, <1>8, EntryTypes
  <2>2. CASE j = i
    <3>1. transient'[s.bit] = transient[s.bit] + 1
      BY <1>2, <1>3, <1>4
    <3>2. UseCount(s) = transient[s.bit] + s.use
      BY <1>2 DEF UseCount
    <3> QED
      BY <1>2, <1>4, <2>2, <3>1, <3>2, TableAssumption
  <2>3. CASE j # i
    <3>1. snaps[j].bit # s.bit
      BY <1>1, <1>3, <1>8, <2>3 DEF DistinctEntries
    <3>2. transient'[snaps[j].bit] = transient[snaps[j].bit]
      BY <1>2, <1>3, <2>1, <3>1
    <3> QED
      BY <1>8, <3>2 DEF IInv, ListInv
  <2> QED
    BY <2>2, <2>3
<1>9. ListInv(snaps', snapmask', transient')
  BY <1>2, <1>3, <1>5, <1>7, <1>8 DEF ListInv
<1>10. bound' \in [Clients -> Tags \union {NoTag}]
  BY <1>2 DEF IInv
<1> QED
  BY <1>2, <1>9, <1>10, SameListKeeps DEF IInv

\* A lost connection gives back a count that was taken, or none when the
\* snapshot was squashed in between.
LEMMA DisconnectStep ==
    ASSUME IInv, NEW c \in Clients, Disconnect(c)
    PROVE  IInv' /\ KeepsInUse
<1> DEFINE i == FindSnap(bound[c])
           s == snaps[i]
<1>1. i \in DOMAIN snaps
  BY FindSnapFinds DEF Disconnect
<1>2. /\ IF Squashed(s)
         THEN UNCHANGED transient
         ELSE /\ transient[s.bit] > 0
              /\ transient' = [transient EXCEPT ![s.bit] = @ - 1]
      /\ UNCHANGED <<snaps, snapmask, disk>>
      /\ bound' = [bound EXCEPT ![c] = NoTag]
  BY DEF Disconnect
<1> HIDE DEF i
<1>3. /\ snaps \in Seq(Snapshot) /\ DistinctEntries(snaps)
      /\ transient \in [Bit -> Nat] /\ snapmask = MaskOf(snaps)
  BY DEF IInv, ListInv
<1>4. ListInv(snaps', snapmask', transient')
  <2>1. CASE Squashed(s)
    BY <1>2, <2>1 DEF IInv
  <2>2. CASE ~Squashed(s)
    <3>1. /\ s.bit \in Bit /\ transient[s.bit] > 0
          /\ transient' = [transient EXCEPT ![s.bit] = @ - 1]
      BY <1>1, <1>2, <1>3, <2>2, EntryTypes
    <3>2. transient' \in [Bit -> Nat]
      BY <1>3, <3>1
    <3>3. \A b \in Bit : transient'[b] <= transient[b]
      BY <1>3, <3>1
    <3>4. ASSUME NEW b \in Bit \ snapmask
          PROVE  transient'[b] = 0
      <4>1. transient[b] = 0
        BY DEF IInv, ListInv
      <4> QED
        BY <3>2, <3>3, <4>1
    <3>5. ASSUME NEW j \in DOMAIN snaps, ~Squashed(snaps[j])
          PROVE  transient'[snaps[j].bit] + snaps[j].use <= MaxCount
      <4>1. snaps[j].bit \in Bit /\ snaps[j].use \in Nat
        BY <1>3, <3>5, EntryTypes
      <4>2. transient[snaps[j].bit] + snaps[j].use <= MaxCount
        BY <3>5 DEF IInv, ListInv
      <4>3. /\ transient'[snaps[j].bit] <= transient[snaps[j].bit]
            /\ transient'[snaps[j].bit] \in Nat /\ transient[snaps[j].bit] \in Nat
        BY <1>3, <3>2, <3>3, <4>1
      <4> QED
        BY <4>1, <4>2, <4>3, TableAssumption
    <3> QED
      BY <1>2, <1>3, <3>2, <3>4, <3>5 DEF ListInv
  <2> QED
    BY <2>1, <2>2
<1>5. bound' \in [Clients -> Tags \union {NoTag}]
  BY <1>2 DEF IInv
<1> QED
  BY <1>2, <1>4, <1>5, SameListKeeps DEF IInv

\* PRIORITY changes no count, no tag and no bit.
LEMMA SetPriorityStep ==
    ASSUME IInv, NEW t \in Tags, NEW p \in Prios, SetPriority(t, p)
    PROVE  IInv' /\ KeepsInUse
<1> DEFINE i == FindSnap(t)
           s == [snaps[i] EXCEPT !.prio = p]
<1>1. i \in DOMAIN snaps
  BY FindSnapFinds DEF SetPriority
<1>2. /\ snaps' = [snaps EXCEPT ![i].prio = p]
      /\ UNCHANGED <<snapmask, transient, bound, disk>>
  BY DEF SetPriority
<1> HIDE DEF i
<1>3. ListInv(snaps, snapmask, transient)
  BY DEF IInv
<1>4. snaps[i] \in Snapshot
  BY <1>1, <1>3, EntryTypes DEF ListInv
<1>5. /\ s \in Snapshot
      /\ s.tag = snaps[i].tag /\ s.bit = snaps[i].bit /\ s.use = snaps[i].use
  BY <1>4 DEF Snapshot
<1>6. snaps' = [snaps EXCEPT ![i] = s]
  BY <1>2
<1>7. ~Squashed(s) => transient[s.bit] + s.use <= MaxCount
  BY <1>1, <1>3, <1>5 DEF ListInv, Squashed
<1> HIDE DEF s
<1>8. /\ ListInv(snaps', snapmask', transient')
      /\ TagsOf(snaps') = TagsOf(snaps)
  <2>1. /\ ListInv([snaps EXCEPT ![i] = s], snapmask, transient)
        /\ TagsOf([snaps EXCEPT ![i] = s]) = TagsOf(snaps)
    BY <1>1, <1>3, <1>5, <1>7, ListUpdate
  <2>2. snapmask' = snapmask /\ transient' = transient
    BY <1>2
  <2> QED
    BY <1>6, <2>1, <2>2
<1> QED
  BY <1>2, <1>8, SameListKeeps DEF IInv

\* USECOUNT checks the sum when it adds and the persistent count when it
\* subtracts, and the sum fits either way.
LEMMA AddUseCountStep ==
    ASSUME IInv, NEW t \in Tags, NEW d \in {-1, 1}, AddUseCount(t, d)
    PROVE  IInv' /\ KeepsInUse
<1> DEFINE i == FindSnap(t)
           s == [snaps[i] EXCEPT !.use = @ + d]
<1>1. i \in DOMAIN snaps
  BY FindSnapFinds DEF AddUseCount
<1>2. /\ IF d >= 0 THEN UseCount(snaps[i]) + d <= MaxCount
                   ELSE snaps[i].use + d >= 0
      /\ snaps' = [snaps EXCEPT ![i].use = @ + d]
      /\ UNCHANGED <<snapmask, transient, bound, disk>>
  BY DEF AddUseCount
<1> HIDE DEF i
<1>3. ListInv(snaps, snapmask, transient)
  BY DEF IInv
<1>4. snaps[i] \in Snapshot /\ snaps[i].use \in 0 .. MaxCount
  BY <1>1, <1>3, EntryTypes DEF ListInv
<1>5. UseCount(snaps[i]) \in Nat /\ snaps[i].use <= UseCount(snaps[i])
  BY <1>1, UseCountType
<1>6. snaps[i].use + d \in 0 .. MaxCount
  BY <1>2, <1>4, <1>5, TableAssumption
<1>7. /\ s \in Snapshot
      /\ s.tag = snaps[i].tag /\ s.bit = snaps[i].bit /\ s.use = snaps[i].use + d
  BY <1>4, <1>6 DEF Snapshot
<1>8. snaps' = [snaps EXCEPT ![i] = s]
  BY <1>2
<1>9. ASSUME ~Squashed(s)
      PROVE  transient[s.bit] + s.use <= MaxCount
  <2>1. ~Squashed(snaps[i])
    BY <1>7, <1>9 DEF Squashed
  <2>2. /\ UseCount(snaps[i]) = transient[snaps[i].bit] + snaps[i].use
        /\ transient[snaps[i].bit] + snaps[i].use <= MaxCount
        /\ transient[snaps[i].bit] \in Nat
    <3>1. snaps[i].bit \in Bit
      BY <1>1, <1>3, <2>1, EntryTypes DEF ListInv
    <3> QED
      BY <1>1, <1>3, <2>1, <3>1 DEF UseCount, ListInv
  <2> HIDE DEF s
  <2> QED
    BY <1>2, <1>4, <1>7, <2>2, TableAssumption
<1> HIDE DEF s
<1>10. /\ ListInv(snaps', snapmask', transient')
       /\ TagsOf(snaps') = TagsOf(snaps)
  <2>1. /\ ListInv([snaps EXCEPT ![i] = s], snapmask, transient)
        /\ TagsOf([snaps EXCEPT ![i] = s]) = TagsOf(snaps)
    BY <1>1, <1>3, <1>7, <1>9, ListUpdate
  <2>2. snapmask' = snapmask /\ transient' = transient
    BY <1>2
  <2> QED
    BY <1>8, <2>1, <2>2
<1> QED
  BY <1>2, <1>10, SameListKeeps DEF IInv

\* A server that reads a list of snapshots counts nobody.
LEMMA StartFits ==
    ASSUME NEW list \in Seq(Snapshot), DistinctEntries(list)
    PROVE  ListInv(list, MaskOf(list), [b \in Bit |-> 0])
<1>1. ASSUME NEW i \in DOMAIN list, ~Squashed(list[i])
      PROVE  [b \in Bit |-> 0][list[i].bit] + list[i].use <= MaxCount
  <2>1. list[i].bit \in Bit /\ list[i].use \in 0 .. MaxCount
    BY <1>1, EntryTypes
  <2> QED
    BY <2>1, TableAssumption
<1> QED
  BY <1>1 DEF ListInv

\* The restarted server finds the list in memory, saved by cleanup, or the last
\* one it saved before the crash.
LEMMA RestartStep ==
    ASSUME IInv, ShutDown \/ Crash
    PROVE  IInv' /\ KeepsInUse
<1>1. PICK list \in {snaps, disk} : Start(list) /\ disk' = list
  BY DEF ShutDown, Crash
<1>2. /\ list \in Seq(Snapshot) /\ DistinctEntries(list)
      /\ TagsOf(snaps) \subseteq TagsOf(list)
  BY DEF IInv, ListInv
<1>3. ListInv(snaps', snapmask', transient')
  BY <1>1, <1>2, StartFits DEF Start
<1>4. snaps' = list /\ bound' \in [Clients -> Tags \union {NoTag}]
  BY <1>1 DEF Start
<1>5. IInv'
  BY <1>1, <1>2, <1>3, <1>4 DEF IInv
<1>6. \A i \in DOMAIN snaps : snaps[i].tag \in TagsOf(snaps')
  BY <1>2, <1>4 DEF TagsOf
<1> QED
  BY <1>5, <1>6 DEF KeepsInUse

-----------------------------------------------------------------------------
(* The theorems. *)

\* The empty list of a new device satisfies the invariant.
LEMMA InitEstablishes == TableInit => IInv
<1> SUFFICES ASSUME TableInit
             PROVE  IInv
  OBVIOUS
<1>1. snaps \in Seq(Snapshot) /\ DistinctEntries(snaps) /\ MaskOf(snaps) = {}
  BY DEF TableInit, DistinctEntries, MaskOf
<1>2. ListInv(snaps, snapmask, transient)
  BY <1>1, StartFits DEF TableInit
<1> QED
  BY <1>1, <1>2 DEF TableInit, IInv

\* Every step, and a step that changes nothing, keeps the invariant and every
\* snapshot in use.
LEMMA NextPreserves ==
    ASSUME IInv, [TableNext]_tableVars
    PROVE  IInv' /\ KeepsInUse
<1>1. ASSUME NEW t \in Tags, Create(t) \/ Delete(t)
      PROVE  IInv' /\ KeepsInUse
  BY <1>1, CreateStep, DeleteStep
<1>2. ASSUME NEW c \in Clients, NEW t \in Tags, Identify(c, t)
      PROVE  IInv' /\ KeepsInUse
  BY <1>2, IdentifyStep
<1>3. ASSUME NEW c \in Clients, Disconnect(c)
      PROVE  IInv' /\ KeepsInUse
  BY <1>3, DisconnectStep
<1>4. ASSUME NEW t \in Tags, NEW p \in Prios, SetPriority(t, p)
      PROVE  IInv' /\ KeepsInUse
  BY <1>4, SetPriorityStep
<1>5. ASSUME NEW t \in Tags, NEW d \in {-1, 1}, AddUseCount(t, d)
      PROVE  IInv' /\ KeepsInUse
  BY <1>5, AddUseCountStep
<1>6. CASE Release
  BY <1>6, ReleaseStep
<1>7. CASE ShutDown \/ Crash
  BY <1>7, RestartStep
<1>8. CASE UNCHANGED tableVars
  <2>1. IInv'
    BY <1>8 DEF tableVars, IInv
  <2>2. TagsOf(snaps') = TagsOf(snaps)
    BY <1>8 DEF tableVars
  <2> QED
    BY <2>1, <2>2, SameListKeeps
<1> QED
  BY <1>1, <1>2, <1>3, <1>4, <1>5, <1>6, <1>7, <1>8 DEF TableNext

\* The inductive invariant holds in every reachable state of the table.
THEOREM IInvHolds == TableSpec => []IInv
<1>1. IInv /\ [TableNext]_tableVars => IInv'
  BY NextPreserves
<1> QED
  BY InitEstablishes, <1>1, PTL DEF TableSpec

\* Type correctness of the snapshot table: use counts stay u16 numbers and
\* every bit is a bit of the 64-bit sharing maps.
THEOREM TypeCorrect == TableSpec => []TableTypeOK
BY IInvHolds, IInvImplies, PTL

\* The mask and the list agree and no two snapshots share a name or a bit,
\* through creation, eviction, squashing, deletion and restart.
THEOREM ListAndMaskAgree == TableSpec => []TableConsistent
BY IInvHolds, IInvImplies, PTL

\* A restart at any moment finds every snapshot that was in memory.
THEOREM DiskNamesSnapshots == TableSpec => []DiskConsistent
BY IInvHolds, IInvImplies, PTL

\* A reused bit starts with no clients counted on it.
THEOREM FreshBitsUnused == TableSpec => []IdleBitsUncounted
BY IInvHolds, IInvImplies, PTL

\* usecount() returns the sum of the two use counts, never its remainder.
THEOREM UseCountNeverWraps == TableSpec => []UseCountFits
BY IInvHolds, IInvImplies, PTL

\* No step, a crash included, takes a snapshot in use out of the list.
THEOREM SnapshotsInUseStay == TableSpec => InUseKept
<1>1. IInv /\ [TableNext]_tableVars => [KeepsInUse]_tableVars
  BY NextPreserves
<1>2. [][KeepsInUse]_tableVars => InUseKept
  BY PTL DEF KeepsInUse, InUseKept
<1> QED
  BY IInvHolds, <1>1, <1>2, PTL DEF TableSpec

-----------------------------------------------------------------------------
(* NoPhantomUse: a snapshot counts no more clients than are connected to it. *)

Users(bnd, t) == {c \in Clients : bnd[c] = t}

\* NoPhantomUse of a list, the counts of its bits and the bindings of clients.
NoPhantom(list, tr, bnd) ==
    \A i \in DOMAIN list :
        ~Squashed(list[i]) =>
            tr[list[i].bit] <= Cardinality(Users(bnd, list[i].tag))

\* NoPhantomUse with the invariant that makes it inductive.
UseInv == IInv /\ NoPhantom(snaps, transient, bound)

\* The number of clients of a snapshot is a number.
LEMMA UsersFinite ==
    ASSUME NEW bnd, NEW t
    PROVE  IsFiniteSet(Users(bnd, t)) /\ Cardinality(Users(bnd, t)) \in Nat
<1>1. Users(bnd, t) \in SUBSET Clients
  BY DEF Users
<1> QED
  BY <1>1, ClientsAssumption, FS_Subset, FS_CardinalityType

\* Clearing counts leaves no phantom users.
LEMMA ClearedKeeps ==
    ASSUME NEW list \in Seq(Snapshot), NEW tr \in [Bit -> Nat], NEW bnd, NEW bits,
           NoPhantom(list, tr, bnd)
    PROVE  NoPhantom(list, Cleared(tr, bits), bnd)
<1>1. ASSUME NEW i \in DOMAIN list, ~Squashed(list[i])
      PROVE  Cleared(tr, bits)[list[i].bit] <= Cardinality(Users(bnd, list[i].tag))
  <2>1. list[i].bit \in Bit
    BY <1>1, EntryTypes
  <2>2. /\ tr[list[i].bit] <= Cardinality(Users(bnd, list[i].tag))
        /\ Cardinality(Users(bnd, list[i].tag)) \in Nat
    BY <1>1, UsersFinite DEF NoPhantom
  <2> QED
    BY <2>1, <2>2 DEF Cleared
<1> QED
  BY <1>1 DEF NoPhantom

\* A deletion leaves no phantom users.
LEMMA RemoveKeepsUse ==
    ASSUME NEW list \in Seq(Snapshot), NEW tr \in [Bit -> Nat], NEW bnd,
           NoPhantom(list, tr, bnd), NEW i \in DOMAIN list
    PROVE  NoPhantom(RemoveAt(list, i), Cleared(tr, BitsOf(list[i])), bnd)
<1> DEFINE r == RemoveAt(list, i)
           cl == Cleared(tr, BitsOf(list[i]))
<1>1. NoPhantom(list, cl, bnd)
  BY ClearedKeeps
<1>2. \A j \in DOMAIN r : \E m \in DOMAIN list : r[j] = list[m]
  <2> HIDE DEF Snapshot
  <2> QED
    BY RemoveAtPositions
<1> HIDE DEF r, cl
<1>3. NoPhantom(r, cl, bnd)
  BY <1>1, <1>2 DEF NoPhantom
<1> QED
  BY <1>3 DEF r, cl

\* A new snapshot has no users: nobody is counted on its bit.
LEMMA AppendKeepsUse ==
    ASSUME NEW list, NEW mask, NEW tr, ListInv(list, mask, tr), NEW bnd,
           NoPhantom(list, tr, bnd),
           NEW t \in Tags \ TagsOf(list), NEW b \in Bit \ mask
    PROVE  NoPhantom(Append(list, NewSnapshot(t, b)), tr, bnd)
<1> DEFINE new == Append(list, NewSnapshot(t, b))
           n == Len(list) + 1
<1>1. /\ list \in Seq(Snapshot) /\ DistinctEntries(list)
      /\ b \in Bit \ MaskOf(list) /\ tr[b] = 0
  BY DEF ListInv
<1>2. /\ DOMAIN new = DOMAIN list \union {n}
      /\ new[n] = NewSnapshot(t, b)
      /\ \A j \in DOMAIN list : new[j] = list[j]
  BY <1>1, AppendKeepsDistinct
<1> HIDE DEF new, n
<1>3. ASSUME NEW j \in DOMAIN new, ~Squashed(new[j])
      PROVE  tr[new[j].bit] <= Cardinality(Users(bnd, new[j].tag))
  <2>1. CASE j \in DOMAIN list
    BY <1>2, <1>3, <2>1 DEF NoPhantom
  <2>2. CASE j = n
    <3>1. new[j].bit = b
      BY <1>2, <2>2 DEF NewSnapshot
    <3>2. Cardinality(Users(bnd, new[j].tag)) \in Nat
      BY UsersFinite
    <3> QED
      BY <1>1, <3>1, <3>2
  <2> QED
    BY <1>2, <2>1, <2>2
<1>4. NoPhantom(new, tr, bnd)
  BY <1>3 DEF NoPhantom
<1> QED
  BY <1>4 DEF new

\* A change of priority or persistent use count touches no client.
LEMMA UpdateKeepsUse ==
    ASSUME NEW list \in Seq(Snapshot), NEW tr, NEW bnd, NoPhantom(list, tr, bnd),
           NEW i \in DOMAIN list,
           NEW s, s.tag = list[i].tag, s.bit = list[i].bit
    PROVE  NoPhantom([list EXCEPT ![i] = s], tr, bnd)
BY DEF NoPhantom, Squashed

\* create_snapshot, with room and by eviction.
LEMMA CreateUse ==
    ASSUME UseInv, NEW t \in Tags, Create(t)
    PROVE  NoPhantom(snaps', transient', bound')
<1>1. /\ ListInv(snaps, snapmask, transient)
      /\ snaps \in Seq(Snapshot) /\ transient \in [Bit -> Nat]
      /\ NoPhantom(snaps, transient, bound)
  BY DEF UseInv, IInv, ListInv
<1>2. CASE CreateWithRoom(t)
  <2>1. PICK b \in Bit : FreeBit(b) /\ snaps' = Append(snaps, NewSnapshot(t, b))
    BY <1>2 DEF CreateWithRoom
  <2>2. /\ t \in Tags \ TagsOf(snaps) /\ b \in Bit \ snapmask
        /\ transient' = transient /\ bound' = bound
    BY <1>2, <2>1 DEF CreateWithRoom, FreeBit
  <2> QED
    BY <1>1, <2>1, <2>2, AppendKeepsUse
<1>3. CASE CreateEvicting(t)
  <2>1. PICK i \in DOMAIN snaps :
           LET rest == RemoveAt(snaps, i)
               mask == snapmask \ BitsOf(snaps[i])
           IN  IF t \in TagsOf(rest)
               THEN DeleteSnap(i)
               ELSE /\ \E b \in Bit \ mask : snaps' = Append(rest, NewSnapshot(t, b))
                    /\ transient' = ClearCounts(BitsOf(snaps[i]))
    BY <1>3 DEF CreateEvicting
  <2> DEFINE rest == RemoveAt(snaps, i)
             mask == snapmask \ BitsOf(snaps[i])
             cl == Cleared(transient, BitsOf(snaps[i]))
  <2>2. bound' = bound /\ ClearCounts(BitsOf(snaps[i])) = cl
    BY <1>3 DEF CreateEvicting, ClearCounts, Cleared
  <2>3. ListInv(rest, mask, cl) /\ NoPhantom(rest, cl, bound)
    BY <1>1, ListRemove, RemoveKeepsUse
  <2>4. transient' = cl
    BY <2>1, <2>2 DEF DeleteSnap
  <2>5. CASE t \in TagsOf(rest)
    BY <2>1, <2>2, <2>3, <2>4, <2>5 DEF DeleteSnap
  <2>6. CASE t \notin TagsOf(rest)
    <3>1. PICK b \in Bit \ mask : snaps' = Append(rest, NewSnapshot(t, b))
      BY <2>1, <2>6
    <3> HIDE DEF rest, mask, cl
    <3>2. NoPhantom(Append(rest, NewSnapshot(t, b)), cl, bound)
      BY <2>3, <2>6, AppendKeepsUse
    <3> QED
      BY <2>2, <2>4, <3>1, <3>2
  <2> QED
    BY <2>5, <2>6
<1> QED
  BY <1>2, <1>3 DEF Create

\* DELETE_SNAPSHOT and the release of auto_delete_snapshot.
LEMMA DeleteUse ==
    ASSUME UseInv, (\E t \in Tags : Delete(t)) \/ Release
    PROVE  NoPhantom(snaps', transient', bound')
<1>1. /\ snaps \in Seq(Snapshot) /\ transient \in [Bit -> Nat]
      /\ NoPhantom(snaps, transient, bound)
  BY DEF UseInv, IInv, ListInv
<1>2. bound' = bound
  BY DEF Delete, Release
<1>3. PICK i \in DOMAIN snaps : DeleteSnap(i) \/ Squash(i)
  BY DEF Delete, Release
<1> DEFINE cl == Cleared(transient, BitsOf(snaps[i]))
<1>4. transient' = cl
  BY <1>3 DEF DeleteSnap, Squash, ClearCounts, Cleared
<1>5. CASE DeleteSnap(i)
  <2>1. NoPhantom(RemoveAt(snaps, i), cl, bound)
    BY <1>1, RemoveKeepsUse
  <2> QED
    BY <1>2, <1>4, <1>5, <2>1 DEF DeleteSnap
<1>6. CASE Squash(i)
  <2>1. NoPhantom(snaps, cl, bound)
    BY <1>1, ClearedKeeps
  <2> HIDE DEF cl
  <2>2. snaps[i] \in Snapshot
    BY <1>1, EntryTypes
  <2>3. ASSUME NEW j \in DOMAIN snaps', ~Squashed(snaps'[j])
        PROVE  j \in DOMAIN snaps /\ snaps'[j] = snaps[j]
    <3>1. snaps' = [snaps EXCEPT ![i].bit = SQUASHED]
      BY <1>6 DEF Squash
    <3>2. Squashed(snaps'[i])
      BY <2>2, <3>1 DEF Squashed, Snapshot
    <3> QED
      BY <2>3, <3>1, <3>2
  <2>4. NoPhantom(snaps', cl, bound)
    BY <2>1, <2>3 DEF NoPhantom
  <2> QED
    BY <1>2, <1>4, <2>4
<1> QED
  BY <1>3, <1>5, <1>6

\* IDENTIFY adds one client and one count to the same snapshot.
LEMMA IdentifyUse ==
    ASSUME UseInv, NEW c \in Clients, NEW t \in Tags, Identify(c, t)
    PROVE  NoPhantom(snaps', transient', bound')
<1> DEFINE i == FindSnap(t)
           s == snaps[i]
<1>1. i \in DOMAIN snaps /\ s.tag = t
  BY FindSnapFinds DEF Identify
<1>2. /\ ~Squashed(s) /\ bound[c] = NoTag
      /\ transient' = [transient EXCEPT ![s.bit] = @ + 1]
      /\ snaps' = snaps
      /\ bound' = [bound EXCEPT ![c] = t]
  BY DEF Identify
<1> HIDE DEF i
<1>3. /\ snaps \in Seq(Snapshot) /\ DistinctEntries(snaps)
      /\ transient \in [Bit -> Nat]
      /\ bound \in [Clients -> Tags \union {NoTag}]
      /\ NoPhantom(snaps, transient, bound)
  BY DEF UseInv, IInv, ListInv
<1>4. s.bit \in Bit
  BY <1>1, <1>2, <1>3, EntryTypes
<1>5. Users(bound', t) = Users(bound, t) \union {c} /\ c \notin Users(bound, t)
  BY <1>2, <1>3, TableAssumption DEF Users
<1>6. \A u \in Tags \ {t} : Users(bound', u) = Users(bound, u)
  BY <1>2, <1>3, TableAssumption DEF Users
<1>7. ASSUME NEW j \in DOMAIN snaps, ~Squashed(snaps[j])
      PROVE  transient'[snaps[j].bit] <= Cardinality(Users(bound', snaps[j].tag))
  <2>1. snaps[j].bit \in Bit /\ snaps[j].tag \in Tags
    BY <1>3, <1>7, EntryTypes
  <2>2. transient[snaps[j].bit] <= Cardinality(Users(bound, snaps[j].tag))
    BY <1>3, <1>7 DEF NoPhantom
  <2>3. CASE j = i
    <3>1. transient'[s.bit] = transient[s.bit] + 1 /\ transient[s.bit] \in Nat
      BY <1>2, <1>3, <1>4
    <3>2. Cardinality(Users(bound', t)) = Cardinality(Users(bound, t)) + 1
      BY <1>5, UsersFinite, FS_AddElement
    <3>3. Cardinality(Users(bound, t)) \in Nat
      BY UsersFinite
    <3> QED
      BY <1>1, <2>2, <2>3, <3>1, <3>2, <3>3
  <2>4. CASE j # i
    <3>1. snaps[j].bit # s.bit /\ snaps[j].tag # t
      BY <1>1, <1>3, <1>7, <2>4 DEF DistinctEntries
    <3>2. transient'[snaps[j].bit] = transient[snaps[j].bit]
      BY <1>2, <1>3, <2>1, <3>1
    <3> QED
      BY <1>6, <2>1, <2>2, <3>1, <3>2
  <2> QED
    BY <2>3, <2>4
<1> QED
  BY <1>2, <1>7 DEF NoPhantom

\* A lost connection takes the client and its count away together; a squash has
\* cleared the count already.
LEMMA DisconnectUse ==
    ASSUME UseInv, NEW c \in Clients, Disconnect(c)
    PROVE  NoPhantom(snaps', transient', bound')
<1> DEFINE t == bound[c]
           i == FindSnap(t)
           s == snaps[i]
<1>1. i \in DOMAIN snaps /\ s.tag = t
  BY FindSnapFinds DEF Disconnect
<1>2. /\ IF Squashed(s)
         THEN UNCHANGED transient
         ELSE /\ transient[s.bit] > 0
              /\ transient' = [transient EXCEPT ![s.bit] = @ - 1]
      /\ snaps' = snaps
      /\ bound' = [bound EXCEPT ![c] = NoTag]
  BY DEF Disconnect
<1> HIDE DEF i
<1>3. /\ snaps \in Seq(Snapshot) /\ DistinctEntries(snaps)
      /\ transient \in [Bit -> Nat]
      /\ bound \in [Clients -> Tags \union {NoTag}]
      /\ NoPhantom(snaps, transient, bound)
  BY DEF UseInv, IInv, ListInv
<1>4. t \in Tags
  BY <1>1, <1>3, EntryTypes
<1>5. Users(bound', t) = Users(bound, t) \ {c} /\ c \in Users(bound, t)
  BY <1>2, <1>3, <1>4, TableAssumption DEF Users
<1>6. \A u \in Tags \ {t} : Users(bound', u) = Users(bound, u)
  BY <1>2, <1>3, TableAssumption DEF Users
<1> HIDE DEF t
<1>7. ASSUME NEW j \in DOMAIN snaps, ~Squashed(snaps[j])
      PROVE  transient'[snaps[j].bit] <= Cardinality(Users(bound', snaps[j].tag))
  <2>1. snaps[j].bit \in Bit /\ snaps[j].tag \in Tags
    BY <1>3, <1>7, EntryTypes
  <2>2. transient[snaps[j].bit] <= Cardinality(Users(bound, snaps[j].tag))
    BY <1>3, <1>7 DEF NoPhantom
  <2>3. CASE j = i
    <3>1. /\ transient'[s.bit] = transient[s.bit] - 1
          /\ transient[s.bit] \in Nat
      BY <1>2, <1>3, <1>7, <2>1, <2>3
    <3>2. Cardinality(Users(bound', t)) = Cardinality(Users(bound, t)) - 1
      BY <1>5, UsersFinite, FS_RemoveElement
    <3>3. Cardinality(Users(bound, t)) \in Nat
      BY UsersFinite
    <3> QED
      BY <1>1, <2>2, <2>3, <3>1, <3>2, <3>3
  <2>4. CASE j # i
    <3>1. snaps[j].tag # t /\ (~Squashed(s) => snaps[j].bit # s.bit)
      BY <1>1, <1>3, <1>7, <2>4 DEF DistinctEntries
    <3>2. transient'[snaps[j].bit] = transient[snaps[j].bit]
      BY <1>2, <1>3, <2>1, <3>1
    <3> QED
      BY <1>6, <2>1, <2>2, <3>1, <3>2
  <2> QED
    BY <2>3, <2>4
<1> QED
  BY <1>2, <1>7 DEF NoPhantom

\* PRIORITY and USECOUNT touch no client.
LEMMA EditUse ==
    ASSUME UseInv, NEW t \in Tags,
           \/ \E p \in Prios : SetPriority(t, p)
           \/ \E d \in {-1, 1} : AddUseCount(t, d)
    PROVE  NoPhantom(snaps', transient', bound')
<1> DEFINE i == FindSnap(t)
<1>1. i \in DOMAIN snaps
  BY FindSnapFinds DEF SetPriority, AddUseCount
<1>2. /\ \/ \E p : snaps' = [snaps EXCEPT ![i].prio = p]
         \/ \E d : snaps' = [snaps EXCEPT ![i].use = @ + d]
      /\ transient' = transient /\ bound' = bound
  BY DEF SetPriority, AddUseCount
<1> HIDE DEF i
<1>3. snaps \in Seq(Snapshot) /\ NoPhantom(snaps, transient, bound)
  BY DEF UseInv, IInv, ListInv
<1>4. snaps[i] \in Snapshot
  BY <1>1, <1>3, EntryTypes
<1>5. /\ DOMAIN snaps' = DOMAIN snaps
      /\ \A j \in DOMAIN snaps : /\ snaps'[j].tag = snaps[j].tag
                                 /\ snaps'[j].bit = snaps[j].bit
  <2>1. CASE \E p : snaps' = [snaps EXCEPT ![i].prio = p]
    BY <1>1, <1>4, <2>1 DEF Snapshot
  <2>2. CASE \E d : snaps' = [snaps EXCEPT ![i].use = @ + d]
    BY <1>1, <1>4, <2>2 DEF Snapshot
  <2> QED
    BY <1>2, <2>1, <2>2
<1> QED
  BY <1>2, <1>3, <1>5 DEF NoPhantom, Squashed

\* A restarted server has no clients and counts none.
LEMMA RestartUse ==
    ASSUME UseInv, ShutDown \/ Crash
    PROVE  NoPhantom(snaps', transient', bound')
<1>1. PICK list \in {snaps, disk} : Start(list)
  BY DEF ShutDown, Crash
<1>2. list \in Seq(Snapshot)
  BY DEF UseInv, IInv, ListInv
<1>3. ASSUME NEW j \in DOMAIN list, ~Squashed(list[j])
      PROVE  [b \in Bit |-> 0][list[j].bit] <= Cardinality(Users(bound', list[j].tag))
  BY <1>2, <1>3, EntryTypes, UsersFinite
<1> QED
  BY <1>1, <1>3 DEF Start, NoPhantom

\* A snapshot counts no more clients than are bound to it, through squashes,
\* deletions, reused tags and bits, lost connections and restarts; so a
\* snapshot whose clients are gone can be deleted.
THEOREM NoPhantomUsers == TableSpec => []NoPhantomUse
<1>1. TableInit => NoPhantom(snaps, transient, bound)
  BY DEF TableInit, NoPhantom
<1>2. ASSUME UseInv, [TableNext]_tableVars
      PROVE  UseInv'
  <2>1. IInv'
    BY <1>2, NextPreserves DEF UseInv
  <2>2. NoPhantom(snaps', transient', bound')
    <3>1. CASE UNCHANGED tableVars
      BY <1>2, <3>1 DEF UseInv, tableVars
    <3>2. CASE TableNext
      BY <1>2, <3>2, CreateUse, DeleteUse, IdentifyUse, DisconnectUse, EditUse,
         RestartUse DEF TableNext
    <3> QED
      BY <1>2, <3>1, <3>2
  <2> QED
    BY <2>1, <2>2 DEF UseInv
<1>3. UseInv => NoPhantomUse
  BY DEF UseInv, NoPhantom, NoPhantomUse, Users
<1>4. TableInit => UseInv
  BY <1>1, InitEstablishes DEF UseInv
<1> QED
  BY <1>2, <1>3, <1>4, PTL DEF TableSpec

-----------------------------------------------------------------------------
(* The scan of find_victim. It is a fold, whose value is a function chosen *)
(* for an equation: what it computes is guessed (Best), shown to satisfy   *)
(* the equation, and then to be all that does.                             *)

\* A set of positions has a last one.
LEMMA LastPosition ==
    ASSUME NEW n \in Nat, NEW S \in SUBSET (1 .. n), S # {}
    PROVE  Max(S) \in S /\ \A y \in S : y <= Max(S)
<1> DEFINE back == {n - y : y \in S}
<1>1. back \in SUBSET Nat /\ back # {}
  OBVIOUS
<1> HIDE DEF back
<1>2. PICK m \in back : \A z \in back : m <= z
  BY <1>1, LeastNat
<1>3. PICK x \in S : m = n - x
  BY <1>2 DEF back
<1>4. \A y \in S : n - y \in back /\ y \in 1 .. n
  BY DEF back
<1>5. \A y \in S : x >= y
  BY <1>2, <1>3, <1>4
<1>6. /\ Max(S) \in S
      /\ \A y \in S : Max(S) >= y
  BY <1>5 DEF Max
<1> QED
  BY <1>6

\* Use count and priority in one number.
WeightOf(c, p) == (IF c > 0 THEN 256 ELSE 0) + p + 128

Weight(k) == WeightOf(UseCount(snaps[k]), snaps[k].prio)

\* One step of the scan.
Better(best, i) ==
    IF Squashed(snaps[i]) THEN best
    ELSE IF Squashed(snaps[best]) \/ Beats(i, best) THEN i ELSE best

Positions == [i \in DOMAIN snaps |-> i]

Scans(f) == f = [s \in SUBSET DOMAIN Positions |->
                    IF s = {} THEN 1
                    ELSE LET x == Max(s) IN Better(f[s \ {x}], Positions[x])]

\* The scan of find_victim is such a function.
LEMMA VictimIsScan == FindVictim = (CHOOSE f : Scans(f))[DOMAIN Positions]
  BY DEF FindVictim, FoldLeftDomain, FoldLeft, MapThenFoldSet, Scans, Positions, Better

\* The first of the lightest.
First(S, k) ==
    /\ k \in S
    /\ \A j \in S : Weight(k) < Weight(j) \/ (Weight(k) = Weight(j) /\ k <= j)

Candidates(s) == {k \in s \union {1} : ~Squashed(snaps[k])}

Best(s) == IF Candidates(s) = {} THEN 1 ELSE CHOOSE k \in Candidates(s) : First(Candidates(s), k)

\* The number orders by busy first, then by priority.
LEMMA WeightOrders ==
    ASSUME NEW p \in -128 .. 127, NEW q \in -128 .. 127, NEW c \in Nat, NEW d \in Nat
    PROVE  /\ WeightOf(c, p) \in Nat /\ WeightOf(d, q) \in Nat
           /\ (~(c > 0) /\ d > 0) \/ ((c > 0 <=> d > 0) /\ p < q)
                 <=> WeightOf(c, p) < WeightOf(d, q)
  BY DEF WeightOf

\* An entry beats another one when it is lighter.
LEMMA Weights ==
    ASSUME IInv, NEW i \in DOMAIN snaps, NEW j \in DOMAIN snaps
    PROVE  /\ Weight(i) \in Nat /\ Weight(j) \in Nat
           /\ Beats(i, j) <=> Weight(i) < Weight(j)
<1>1. /\ snaps[i].prio \in -128 .. 127 /\ snaps[j].prio \in -128 .. 127
      /\ UseCount(snaps[i]) \in Nat /\ UseCount(snaps[j]) \in Nat
  BY EntryTypes, UseCountType, TableAssumption DEF IInv, ListInv
<1> DEFINE bi == UseCount(snaps[i]) > 0
           bj == UseCount(snaps[j]) > 0
<1>2. Beats(i, j) <=> (~bi /\ bj) \/ ((bi <=> bj) /\ snaps[i].prio < snaps[j].prio)
  <2>1. bi \in BOOLEAN /\ bj \in BOOLEAN
    OBVIOUS
  <2> QED
    BY <2>1, Zenon DEF Beats
<1>3. /\ Weight(i) \in Nat /\ Weight(j) \in Nat
      /\ (~bi /\ bj) \/ ((bi <=> bj) /\ snaps[i].prio < snaps[j].prio)
            <=> Weight(i) < Weight(j)
  BY <1>1, WeightOrders DEF Weight
<1> HIDE DEF bi, bj
<1> QED
  BY <1>2, <1>3

\* Among some entries there is a first of the lightest.
LEMMA FirstExists ==
    ASSUME IInv, NEW S \in SUBSET DOMAIN snaps, S # {}
    PROVE  \E k \in S : First(S, k)
<1> DEFINE weights == {Weight(j) : j \in S}
<1>1. weights \in SUBSET Nat /\ weights # {}
  BY Weights
<1>2. PICK w \in weights : \A v \in weights : w <= v
  <2> HIDE DEF weights
  <2> QED
    BY <1>1, LeastNat
<1> DEFINE lightest == {j \in S : Weight(j) = w}
<1>3. lightest \in SUBSET Nat /\ lightest # {}
  <2>1. DOMAIN snaps \subseteq Nat
    BY DEF IInv, ListInv
  <2> QED
    BY <1>2, <2>1
<1>4. PICK k \in lightest : \A j \in lightest : k <= j
  <2> HIDE DEF lightest
  <2> QED
    BY <1>3, LeastNat
<1>5. ASSUME NEW j \in S
      PROVE  Weight(k) < Weight(j) \/ (Weight(k) = Weight(j) /\ k <= j)
  <2>1. Weight(k) = w /\ w <= Weight(j) /\ Weight(j) \in Nat /\ w \in Nat
    BY <1>1, <1>2, <1>4, Weights
  <2>2. Weight(j) = w => k <= j
    BY <1>4
  <2> QED
    BY <2>1, <2>2
<1>6. k \in S
  BY <1>4
<1> QED
  BY <1>5, <1>6 DEF First

\* There is only one.
LEMMA FirstUnique ==
    ASSUME IInv, NEW S \in SUBSET DOMAIN snaps, NEW j, NEW k, First(S, j), First(S, k)
    PROVE  j = k
<1>1. j \in DOMAIN snaps /\ k \in DOMAIN snaps /\ j \in S /\ k \in S
  BY DEF First
<1>2. j \in Nat /\ k \in Nat /\ Weight(j) \in Nat /\ Weight(k) \in Nat
  <2>1. DOMAIN snaps \subseteq Nat
    BY DEF IInv, ListInv
  <2> QED
    BY <1>1, <2>1, Weights
<1> QED
  BY <1>1, <1>2 DEF First

\* What Best returns.
LEMMA BestIs ==
    ASSUME IInv, snaps # <<>>, NEW s \in SUBSET DOMAIN snaps
    PROVE  /\ Candidates(s) \in SUBSET DOMAIN snaps
           /\ Candidates(s) = {} => Best(s) = 1
           /\ Candidates(s) # {} => First(Candidates(s), Best(s))
           /\ \A k : First(Candidates(s), k) => Best(s) = k
<1>1. 1 \in DOMAIN snaps
  BY DEF IInv, ListInv
<1>2. Candidates(s) \in SUBSET DOMAIN snaps
  BY <1>1 DEF Candidates
<1>3. Candidates(s) = {} => Best(s) = 1
  BY DEF Best
<1>4. Candidates(s) # {} => First(Candidates(s), Best(s))
  BY <1>2, FirstExists DEF Best
<1>5. \A k : First(Candidates(s), k) => Candidates(s) # {}
  BY DEF First
<1> QED
  BY <1>2, <1>3, <1>4, <1>5, FirstUnique

\* A step of the scan takes it from the best of the entries before to the best.
LEMMA BestStep ==
    ASSUME IInv, snaps # <<>>, NEW s \in SUBSET DOMAIN snaps, NEW x \in s,
           \A y \in s : y <= x
    PROVE  Best(s) = Better(Best(s \ {x}), x)
<1> DEFINE was == s \ {x}
           b == Best(was)
<1>1. 1 \in DOMAIN snaps /\ x \in DOMAIN snaps /\ DOMAIN snaps \subseteq Nat /\ 1 <= x
  BY DEF IInv, ListInv
<1>2. was \in SUBSET DOMAIN snaps
  OBVIOUS
<1>3. \A y \in Candidates(was) : y <= x /\ y \in DOMAIN snaps
  BY <1>1 DEF Candidates
<1>4. Squashed(snaps[x]) => Candidates(s) = Candidates(was)
  BY <1>1 DEF Candidates
<1>5. ~Squashed(snaps[x]) => Candidates(s) = Candidates(was) \union {x}
  BY <1>1 DEF Candidates
<1>6. CASE Squashed(snaps[x])
  BY <1>4, <1>6 DEF Best, Better
<1>7. CASE ~Squashed(snaps[x]) /\ Candidates(was) = {}
  <2>1. b = 1 /\ Squashed(snaps[1])
    BY <1>2, <1>7, BestIs DEF Candidates
  <2>2. First(Candidates(s), x)
    BY <1>1, <1>5, <1>7, Weights DEF First
  <2>3. Best(s) = x
    BY <2>2, BestIs
  <2> QED
    BY <1>7, <2>1, <2>3 DEF Better
<1>8. CASE ~Squashed(snaps[x]) /\ Candidates(was) # {}
  <2>1. First(Candidates(was), b)
    BY <1>2, <1>8, BestIs
  <2>2. b \in Candidates(was) /\ ~Squashed(snaps[b]) /\ b \in DOMAIN snaps
    BY <1>3, <2>1 DEF First, Candidates
  <2> HIDE DEF b, was
  <2>3. /\ Weight(b) \in Nat /\ Weight(x) \in Nat
        /\ Beats(x, b) <=> Weight(x) < Weight(b)
        /\ \A j \in Candidates(was) : Weight(j) \in Nat /\ j \in Nat /\ j <= x
        /\ x \in Nat /\ b \in Nat
    BY <1>1, <1>3, <2>2, Weights
  <2>4. CASE Beats(x, b)
    <3>1. First(Candidates(s), x)
      BY <1>5, <1>8, <2>1, <2>3, <2>4 DEF First
    <3>2. Best(s) = x
      BY <3>1, BestIs
    <3> QED
      BY <1>8, <2>4, <3>2 DEF Better, b, was
  <2>5. CASE ~Beats(x, b)
    <3>1. First(Candidates(s), b)
      BY <1>5, <1>8, <2>1, <2>2, <2>3, <2>5 DEF First
    <3>2. Best(s) = b
      BY <3>1, BestIs
    <3> QED
      BY <1>8, <2>2, <2>5, <3>2 DEF Better, b, was
  <2> QED
    BY <2>4, <2>5
<1> QED
  BY <1>6, <1>7, <1>8

\* The scan goes over the positions of the list.
LEMMA DomainOfPositions == DOMAIN Positions = DOMAIN snaps /\ \A i \in DOMAIN snaps : Positions[i] = i
  BY DEF Positions

\* Best satisfies the equation.
LEMMA BestScans ==
    ASSUME IInv, snaps # <<>>
    PROVE  Scans([s \in SUBSET DOMAIN snaps |-> Best(s)])
<1> DEFINE best == [s \in SUBSET DOMAIN snaps |-> Best(s)]
           rhs(s) == IF s = {} THEN 1
                     ELSE LET x == Max(s) IN Better(best[s \ {x}], Positions[x])
<1>1. ASSUME NEW s \in SUBSET DOMAIN snaps
      PROVE  Best(s) = rhs(s)
  <2>1. CASE s = {}
    <3>1. Candidates(s) \in SUBSET {1}
      BY <2>1 DEF Candidates
    <3>2. Best(s) = 1
      BY <3>1, BestIs DEF First
    <3> QED
      BY <2>1, <3>2
  <2>2. CASE s # {}
    <3> DEFINE x == Max(s)
    <3>1. x \in s /\ \A y \in s : y <= x
      <4>1. DOMAIN snaps = 1 .. Len(snaps) /\ Len(snaps) \in Nat
        BY DEF IInv, ListInv
      <4> QED
        BY <2>2, <4>1, LastPosition
    <3> HIDE DEF x
    <3>2. Best(s) = Better(Best(s \ {x}), x)
      BY <3>1, BestStep
    <3>3. best[s \ {x}] = Best(s \ {x}) /\ Positions[x] = x
      BY <3>1, DomainOfPositions
    <3> QED
      BY <2>2, <3>2, <3>3 DEF x
  <2> QED
    BY <2>1, <2>2
<1>2. best = [s \in SUBSET DOMAIN Positions |-> rhs(s)]
  <2> HIDE DEF rhs
  <2> QED
    BY <1>1, DomainOfPositions
<1> QED
  BY <1>2 DEF Scans

\* Nothing else does.
LEMMA ScanIsBest ==
    ASSUME IInv, snaps # <<>>, NEW f, Scans(f), NEW s \in SUBSET DOMAIN snaps
    PROVE  f[s] = Best(s)
<1> DEFINE wrong == {m \in Nat : \E t \in SUBSET DOMAIN snaps : t \subseteq 1 .. m /\ f[t] # Best(t)}
<1>0. DOMAIN snaps = 1 .. Len(snaps) /\ Len(snaps) \in Nat
  BY DEF IInv, ListInv
<1>1. \A t \in SUBSET DOMAIN snaps :
         f[t] = IF t = {} THEN 1
                ELSE LET x == Max(t) IN Better(f[t \ {x}], Positions[x])
  BY DomainOfPositions DEF Scans
<1>2. ASSUME wrong # {}
      PROVE  FALSE
  <2>1. PICK m \in wrong : \A k \in wrong : m <= k
    <3> HIDE DEF wrong
    <3>1. wrong \in SUBSET Nat
      BY DEF wrong
    <3> QED
      BY <1>2, <3>1, LeastNat
  <2>2. PICK t \in SUBSET DOMAIN snaps : t \subseteq 1 .. m /\ f[t] # Best(t)
    OBVIOUS
  <2>3. CASE t = {}
    <3>1. Candidates(t) \in SUBSET {1}
      BY <2>3 DEF Candidates
    <3>2. Best(t) = 1
      BY <3>1, BestIs DEF First
    <3> QED
      BY <1>1, <2>2, <2>3, <3>2
  <2>4. CASE t # {}
    <3> DEFINE x == Max(t)
               rest == t \ {x}
    <3>1. x \in t /\ \A y \in t : y <= x
      BY <1>0, <2>4, LastPosition
    <3>2. f[t] = Better(f[rest], x)
      BY <1>1, <2>4, <3>1, DomainOfPositions
    <3> HIDE DEF x
    <3>3. Best(t) = Better(Best(rest), x)
      BY <3>1, BestStep
    <3>4. x \in 1 .. m /\ m \in Nat
      BY <2>2, <3>1
    <3>5. rest \subseteq 1 .. x - 1 /\ rest \in SUBSET DOMAIN snaps
      BY <1>0, <2>2, <3>1, <3>4
    <3>6. x - 1 \in Nat /\ ~(m <= x - 1)
      BY <3>4
    <3> HIDE DEF rest
    <3>7. f[rest] = Best(rest)
      BY <2>1, <3>5, <3>6
    <3> QED
      BY <2>2, <3>2, <3>3, <3>7
  <2> QED
    BY <2>3, <2>4
<1>3. ASSUME f[s] # Best(s)
      PROVE  Len(snaps) \in wrong
  BY <1>0, <1>3
<1> QED
  BY <1>2, <1>3

\* So find_victim finds the best of all entries.
LEMMA VictimIsBest ==
    ASSUME IInv, snaps # <<>>
    PROVE  FindVictim = Best(DOMAIN snaps)
<1> DEFINE scan == CHOOSE f : Scans(f)
<1>1. Scans(scan)
  <2>1. \E f : Scans(f)
    BY BestScans
  <2> QED
    BY <2>1
<1>2. FindVictim = scan[DOMAIN snaps]
  BY VictimIsScan, DomainOfPositions
<1> HIDE DEF scan
<1> QED
  BY <1>1, <1>2, ScanIsBest

\* The release of a snapshot takes the one the comment of find_victim names.
THEOREM VictimIsRight == TableSpec => []VictimRule
<1>1. IInv => VictimRule
  <2> SUFFICES ASSUME IInv, snaps # <<>>
               PROVE  VictimRule
    BY DEF VictimRule
  <2> DEFINE D == DOMAIN snaps
             live == {k \in D : ~Squashed(snaps[k])}
             v == FindVictim
  <2>1. Candidates(D) = live
    <3>1. 1 \in D
      BY DEF IInv, ListInv
    <3> QED
      BY <3>1 DEF Candidates
  <2>2. live # {} => First(live, v)
    BY <2>1, VictimIsBest, BestIs
  <2>3. ASSUME live # {}, NEW k \in live
        PROVE  /\ v \in live
               /\ ~Beats(k, v)
               /\ ~Beats(v, k) => v <= k
               /\ v \in Nat /\ k \in Nat
    <3>1. v \in live /\ (Weight(v) < Weight(k) \/ (Weight(v) = Weight(k) /\ v <= k))
      BY <2>2, <2>3 DEF First
    <3>2. /\ Weight(v) \in Nat /\ Weight(k) \in Nat
          /\ Beats(k, v) <=> Weight(k) < Weight(v)
          /\ Beats(v, k) <=> Weight(v) < Weight(k)
      BY <3>1, Weights
    <3>3. DOMAIN snaps \subseteq Nat
      BY DEF IInv, ListInv
    <3> QED
      BY <3>1, <3>2, <3>3
  <2>4. ASSUME live # {}, NEW k \in live
        PROVE  LET busy(i) == IF UseCount(snaps[i]) > 0 THEN 1 ELSE 0
               IN  ~ \/ busy(k) < busy(v)
                     \/ busy(k) = busy(v) /\ snaps[k].prio < snaps[v].prio
                     \/ /\ busy(k) = busy(v)
                        /\ snaps[k].prio = snaps[v].prio
                        /\ k < v
    <3>1. /\ UseCount(snaps[k]) \in Nat /\ UseCount(snaps[v]) \in Nat
          /\ snaps[k].prio \in -128 .. 127 /\ snaps[v].prio \in -128 .. 127
      BY <2>3, <2>4, EntryTypes, UseCountType, TableAssumption DEF IInv, ListInv
    <3> QED
      BY <2>3, <2>4, <3>1 DEF Beats
  <2>5. live # {} => v \in live
    BY <2>2 DEF First
  <2> QED
    BY <2>4, <2>5 DEF VictimRule
<1> QED
  BY <1>1, IInvHolds, PTL

-----------------------------------------------------------------------------
(* The store. *)

\* The tree and the bitmap: no share mask is empty, two exceptions share a bit
\* only on different chunks, and each chunk of the store is free or has exactly
\* one owner. DeleteTreeRange frees the chunks of the exceptions it drops, so
\* that masks and owners have to be known together.
TreeInv ==
    /\ exc \in [Chunks -> SUBSET Exception]
    /\ free \subseteq StoreChunks
    /\ \A c \in Chunks : \A e \in exc[c] : e.share # {} /\ e.chunk \notin free
    /\ \A c \in Chunks : \A e, f \in exc[c] : e # f => e.share \intersect f.share = {}
    /\ \A c, d \in Chunks : \A e \in exc[c], f \in exc[d] :
           e.chunk = f.chunk => c = d /\ e = f
    /\ \A s \in StoreChunks : s \in free \/ \E c \in Chunks : \E e \in exc[c] : e.chunk = s

\* The data, the request and the writes in flight.
DataInv ==
    /\ org \in [Chunks -> Data]
    /\ store \in [StoreChunks -> Data \union {Blank}]
    /\ req \in Request \union {NoReq}
    /\ granted \subseteq Grant

\* An empty list has been saved: the server that stops on find_victim's
\* assertion starts with an empty list again.
EmptySaved == snaps = <<>> => disk = <<>>

\* The inductive invariant of the store.
SInv == IInv /\ TreeInv /\ DataInv /\ EmptySaved

-----------------------------------------------------------------------------
(* Exceptions. *)

\* An exception without some of its bits.
Cut(e, bits) == [e EXCEPT !.share = @ \ bits]

\* An exception without some bits is one, with the same chunk.
LEMMA CutFields ==
    ASSUME NEW e \in Exception, NEW bits
    PROVE  /\ Cut(e, bits) \in Exception
           /\ Cut(e, bits).share = e.share \ bits
           /\ Cut(e, bits).chunk = e.chunk
BY DEF Cut, Exception

\* The exceptions of a chunk before and after bits are taken out of them.
LEMMA KeptEntries ==
    ASSUME NEW c \in Chunks, NEW bits, exc[c] \subseteq Exception
    PROVE  /\ Kept(c, bits) \subseteq Exception
           /\ \A f \in Kept(c, bits) : \E e \in exc[c] :
                 /\ f = Cut(e, bits)
                 /\ f.share = e.share \ bits
                 /\ f.chunk = e.chunk
                 /\ ~(e.share \subseteq bits)
           /\ \A e \in exc[c] : ~(e.share \subseteq bits) =>
                 \E f \in Kept(c, bits) :
                    f.share = e.share \ bits /\ f.chunk = e.chunk
<1>1. Kept(c, bits) = {Cut(e, bits) : e \in {x \in exc[c] : ~(x.share \subseteq bits)}}
  BY DEF Kept, Cut
<1> QED
  BY <1>1, CutFields

\* delete_tree_range keeps the masks of a chunk disjoint and frees the chunks
\* it drops, and no others.
LEMMA DeleteKeepsTree ==
    ASSUME TreeInv, NEW bits, DeleteTreeRange(bits)
    PROVE  TreeInv'
<1>1. /\ exc' = [c \in Chunks |-> Kept(c, bits)]
      /\ free' = free \union Freed(bits)
  BY DEF DeleteTreeRange
<1>2. \A c \in Chunks : exc[c] \subseteq Exception
  BY DEF TreeInv
<1>3. ASSUME NEW c \in Chunks
      PROVE  /\ exc'[c] \subseteq Exception
             /\ \A f \in exc'[c] : \E e \in exc[c] :
                   /\ f = Cut(e, bits)
                   /\ f.share = e.share \ bits
                   /\ f.chunk = e.chunk
                   /\ ~(e.share \subseteq bits)
             /\ \A e \in exc[c] : ~(e.share \subseteq bits) =>
                   \E f \in exc'[c] : f.chunk = e.chunk
  <2>1. exc'[c] = Kept(c, bits)
    BY <1>1
  <2> QED
    BY <1>2, <2>1, KeptEntries
<1>4. exc' \in [Chunks -> SUBSET Exception]
  BY <1>1, <1>3
<1>5. \A s : s \in Freed(bits) <=>
             \E c \in Chunks : \E e \in exc[c] : e.share \subseteq bits /\ e.chunk = s
  BY DEF Freed
<1>6. free' \subseteq StoreChunks
  <2>1. \A c \in Chunks : \A e \in exc[c] : e.chunk \in StoreChunks
    BY <1>2 DEF Exception
  <2> QED
    BY <1>1, <1>5, <2>1 DEF TreeInv
<1>7. ASSUME NEW c \in Chunks, NEW f \in exc'[c]
      PROVE  f.share # {} /\ f.chunk \notin free'
  <2>1. PICK e \in exc[c] : /\ f.share = e.share \ bits
                            /\ f.chunk = e.chunk
                            /\ ~(e.share \subseteq bits)
    BY <1>3
  <2>2. f.chunk \notin free
    BY <2>1 DEF TreeInv
  <2>3. f.chunk \notin Freed(bits)
    BY <1>5, <2>1 DEF TreeInv
  <2> QED
    BY <1>1, <2>1, <2>2, <2>3
<1>8. ASSUME NEW c \in Chunks, NEW f \in exc'[c], NEW g \in exc'[c], f # g
      PROVE  f.share \intersect g.share = {}
  <2>1. PICK e \in exc[c] : /\ f = Cut(e, bits)
                            /\ f.share = e.share \ bits
    BY <1>3
  <2>2. PICK h \in exc[c] : /\ g = Cut(h, bits)
                            /\ g.share = h.share \ bits
    BY <1>3
  <2>3. e # h
    BY <1>8, <2>1, <2>2
  <2>4. e.share \intersect h.share = {}
    BY <2>3 DEF TreeInv
  <2> QED
    BY <2>1, <2>2, <2>4
<1>9. ASSUME NEW c \in Chunks, NEW d \in Chunks, NEW f \in exc'[c], NEW g \in exc'[d],
             f.chunk = g.chunk
      PROVE  c = d /\ f = g
  <2>1. PICK e \in exc[c] : /\ f = Cut(e, bits)
                            /\ f.chunk = e.chunk
    BY <1>3
  <2>2. PICK h \in exc[d] : /\ g = Cut(h, bits)
                            /\ g.chunk = h.chunk
    BY <1>3
  <2>3. c = d /\ e = h
    BY <1>9, <2>1, <2>2 DEF TreeInv
  <2> QED
    BY <2>1, <2>2, <2>3
<1>10. ASSUME NEW s \in StoreChunks, s \notin free'
       PROVE  \E c \in Chunks : \E f \in exc'[c] : f.chunk = s
  <2>1. PICK c \in Chunks : \E e \in exc[c] : e.chunk = s
    BY <1>1, <1>10 DEF TreeInv
  <2>2. PICK e \in exc[c] : e.chunk = s
    BY <2>1
  <2>3. ~(e.share \subseteq bits)
    BY <1>1, <1>5, <1>10, <2>2
  <2> QED
    BY <1>3, <2>2, <2>3
<1> QED
  BY <1>4, <1>6, <1>7, <1>8, <1>9, <1>10 DEF TreeInv

\* A bit that an exception of the chunk carries is looked up there.
LEMMA LookupIs ==
    ASSUME TreeInv, NEW c \in Chunks, NEW e \in exc[c], NEW b \in e.share
    PROVE  Lookup(c, b) = e.chunk
<1>1. \A f \in exc[c] : b \in f.share => f = e
  BY DEF TreeInv
<1>2. {f \in exc[c] : b \in f.share} = {e}
  BY <1>1
<1>3. (CHOOSE f \in {e} : TRUE) = e
  OBVIOUS
<1> QED
  BY <1>2, <1>3 DEF Lookup

\* The address a lookup returns is in the store.
LEMMA LookupType ==
    ASSUME TreeInv, NEW c \in Chunks, NEW b
    PROVE  Lookup(c, b) \in StoreChunks \union {NONE}
<1> DEFINE es == {e \in exc[c] : b \in e.share}
<1>1. CASE es = {}
  BY <1>1 DEF Lookup
<1>2. CASE es # {}
  <2>1. PICK e \in exc[c] : b \in e.share
    BY <1>2
  <2>2. e.chunk \in StoreChunks
    BY DEF TreeInv, Exception
  <2> QED
    BY <2>1, <2>2, LookupIs
<1> QED
  BY <1>1, <1>2

\* What add_exception_to_leaf does to a chunk that is not unique: the
\* exceptions it had keep their chunks and lose at most the bit of the request,
\* none of them becomes empty, and the new one takes bits that no other
\* carries.
Adds(c, b, new, share, lost) ==
    /\ AddException(c, b, new) = {Cut(e, lost) : e \in exc[c]}
                                 \union {[share |-> share, chunk |-> new]}
    /\ share # {}
    /\ \A e \in exc[c] : /\ e.share \ lost # {}
                         /\ (e.share \ lost) \intersect share = {}
    /\ b = ORIGIN => lost = {} /\ share = snapmask \ Sharing(exc[c])
    /\ b # ORIGIN => lost = {b} /\ share = {b}

\* An exception is added in this way, for the origin as for a snapshot.
LEMMA AddedEntries ==
    ASSUME TreeInv, NEW c \in Chunks, NEW b \in Bit \union {ORIGIN}, NEW new,
           snapmask \subseteq Bit, ~Unique(c, b)
    PROVE  \E share, lost \in SUBSET Bit : Adds(c, b, new, share, lost)
<1>1. CASE b = ORIGIN
  <2> DEFINE share == snapmask \ Sharing(exc[c])
  <2>1. share # {} /\ share \in SUBSET Bit
    BY <1>1 DEF Unique, OriginChunkUnique
  <2>2. \A e \in exc[c] : e.share \intersect share = {} /\ e.share # {}
    BY DEF TreeInv, Sharing
  <2>3. \A e \in exc[c] : Cut(e, {}) = e
    <3>1. \A e \in Exception : Cut(e, {}) = e
      BY DEF Cut, Exception
    <3> QED
      BY <3>1 DEF TreeInv
  <2>4. AddException(c, b, new) = exc[c] \union {[share |-> share, chunk |-> new]}
    BY <1>1 DEF AddException
  <2>5. {Cut(e, {}) : e \in exc[c]} = exc[c]
    BY <2>3
  <2>6. Adds(c, b, new, share, {})
    BY <1>1, <2>1, <2>2, <2>4, <2>5 DEF Adds
  <2> QED
    BY <2>1, <2>6
<1>2. CASE b # ORIGIN
  <2>1. b \in Bit /\ \A e \in exc[c] : e.share # {b}
    BY <1>2 DEF Unique, SnapshotChunkUnique
  <2>2. AddException(c, b, new) = {Cut(e, {b}) : e \in exc[c]}
                                  \union {[share |-> {b}, chunk |-> new]}
    BY <1>2 DEF AddException, Cut
  <2>3. \A e \in exc[c] : e.share \ {b} # {} /\ (e.share \ {b}) \intersect {b} = {}
    BY <2>1 DEF TreeInv
  <2>4. {b} \in SUBSET Bit /\ {b} # {}
    BY <2>1
  <2>5. Adds(c, b, new, {b}, {b})
    BY <1>2, <2>2, <2>3, <2>4 DEF Adds
  <2> QED
    BY <2>4, <2>5
<1> QED
  BY <1>1, <1>2

\* make_unique's copyout: the new exception owns the chunk taken from the
\* bitmap.
LEMMA AddKeepsTree ==
    ASSUME TreeInv, snapmask \subseteq Bit, NEW c \in Chunks,
           NEW b \in Bit \union {ORIGIN}, NEW new \in free, ~Unique(c, b),
           exc' = [exc EXCEPT ![c] = AddException(c, b, new)],
           free' = free \ {new}
    PROVE  TreeInv'
<1>1. /\ exc \in [Chunks -> SUBSET Exception]
      /\ new \in StoreChunks
  BY DEF TreeInv
<1>0. PICK share, lost \in SUBSET Bit : Adds(c, b, new, share, lost)
  BY AddedEntries
<1>2. /\ AddException(c, b, new) = {Cut(e, lost) : e \in exc[c]}
                                   \union {[share |-> share, chunk |-> new]}
      /\ share # {}
      /\ \A e \in exc[c] : /\ e.share \ lost # {}
                           /\ (e.share \ lost) \intersect share = {}
  BY <1>0 DEF Adds
<1> DEFINE added == [share |-> share, chunk |-> new]
<1>3. added \in Exception /\ added.share = share /\ added.chunk = new
  BY <1>1 DEF Exception
<1>4. exc'[c] = {Cut(e, lost) : e \in exc[c]} \union {added}
  BY <1>1, <1>2
<1>5. \A d \in Chunks \ {c} : exc'[d] = exc[d]
  BY <1>1
<1> HIDE DEF added
<1>6. \A e \in exc[c] : /\ Cut(e, lost) \in Exception
                        /\ Cut(e, lost).share = e.share \ lost
                        /\ Cut(e, lost).chunk = e.chunk
  BY <1>1, CutFields
<1>7. exc' \in [Chunks -> SUBSET Exception]
  <2>1. AddException(c, b, new) \subseteq Exception
    BY <1>2, <1>3, <1>6 DEF added
  <2> QED
    BY <1>1, <2>1
<1>8. ASSUME NEW d \in Chunks, NEW g \in exc'[d], g # added \/ d # c
      PROVE  \E e \in exc[d] : /\ g = IF d = c THEN Cut(e, lost) ELSE e
                               /\ g.chunk = e.chunk
                               /\ g.share \subseteq e.share
                               /\ d = c => g.share = e.share \ lost
  BY <1>4, <1>5, <1>6, <1>8
<1>9. ASSUME NEW d \in Chunks, NEW g \in exc'[d]
      PROVE  g.share # {} /\ g.chunk \notin free'
  <2>1. CASE d = c /\ g = added
    BY <1>2, <1>3, <2>1
  <2>2. CASE g # added \/ d # c
    <3>1. PICK e \in exc[d] : /\ g.chunk = e.chunk
                              /\ d = c => g.share = e.share \ lost
                              /\ d # c => g = e
      BY <1>8, <2>2
    <3>2. e.chunk \notin free /\ e.share # {}
      BY DEF TreeInv
    <3> QED
      BY <1>2, <3>1, <3>2
  <2> QED
    BY <2>1, <2>2
<1>10. ASSUME NEW d \in Chunks, NEW g \in exc'[d], NEW h \in exc'[d], g # h
       PROVE  g.share \intersect h.share = {}
  <2>1. CASE d # c
    BY <1>5, <1>10, <2>1 DEF TreeInv
  <2>2. CASE d = c /\ g # added /\ h # added
    <3>1. PICK e \in exc[c] : g = Cut(e, lost) /\ g.share \subseteq e.share
      BY <1>8, <2>2
    <3>2. PICK f \in exc[c] : h = Cut(f, lost) /\ h.share \subseteq f.share
      BY <1>8, <2>2
    <3>3. e.share \intersect f.share = {}
      BY <1>10, <3>1, <3>2 DEF TreeInv
    <3> QED
      BY <3>1, <3>2, <3>3
  <2>3. ASSUME d = c, NEW k \in exc'[c], k # added
        PROVE  k.share \intersect added.share = {}
    BY <1>2, <1>3, <1>8, <2>3
  <2> QED
    BY <1>10, <2>1, <2>2, <2>3
<1>11. ASSUME NEW d \in Chunks, NEW k \in Chunks, NEW g \in exc'[d], NEW h \in exc'[k],
              g.chunk = h.chunk
       PROVE  d = k /\ g = h
  <2>1. ASSUME NEW m \in Chunks, NEW x \in exc'[m], x # added \/ m # c
        PROVE  x.chunk # new
    BY <1>8, <2>1 DEF TreeInv
  <2>2. CASE (d = c /\ g = added) \/ (k = c /\ h = added)
    BY <1>3, <1>11, <2>1, <2>2
  <2>3. CASE (g # added \/ d # c) /\ (h # added \/ k # c)
    <3>1. PICK e \in exc[d] : /\ g = IF d = c THEN Cut(e, lost) ELSE e
                              /\ g.chunk = e.chunk
      BY <1>8, <2>3
    <3>2. PICK f \in exc[k] : /\ h = IF k = c THEN Cut(f, lost) ELSE f
                              /\ h.chunk = f.chunk
      BY <1>8, <2>3
    <3>3. d = k /\ e = f
      BY <1>11, <3>1, <3>2 DEF TreeInv
    <3> QED
      BY <3>1, <3>2, <3>3
  <2> QED
    BY <2>2, <2>3
<1>12. ASSUME NEW s \in StoreChunks, s \notin free'
       PROVE  \E d \in Chunks : \E g \in exc'[d] : g.chunk = s
  <2>1. CASE s = new
    BY <1>3, <1>4, <2>1
  <2>2. CASE s # new
    <3>1. PICK d \in Chunks : \E e \in exc[d] : e.chunk = s
      BY <1>12, <2>2 DEF TreeInv
    <3> QED
      BY <1>4, <1>5, <1>6, <3>1
  <2> QED
    BY <2>1, <2>2
<1>13. free' \subseteq StoreChunks
  BY DEF TreeInv
<1> QED
  BY <1>7, <1>9, <1>10, <1>11, <1>12, <1>13 DEF TreeInv

-----------------------------------------------------------------------------
(* The steps of the store as steps of the table. *)

\* A step of the store makes one step of the table, or none.
LEMMA StepOfTable ==
    ASSUME [Next]_vars
    PROVE  [TableNext]_tableVars
<1>1. ASSUME NEW c \in Chunks, NEW d \in Data, QueryOriginWrite(c, d)
      PROVE  UNCHANGED tableVars
  BY <1>1 DEF QueryOriginWrite
<1>2. ASSUME NEW cl \in Clients, NEW c \in Chunks, NEW d \in Data,
             QuerySnapshotWrite(cl, c, d)
      PROVE  UNCHANGED tableVars
  BY <1>2 DEF QuerySnapshotWrite
<1>3. CASE ServerStep
  <2>1. EnsureFreeChunks => Release
    BY DEF EnsureFreeChunks
  <2>2. VictimAssertFails => Crash
    BY DEF VictimAssertFails
  <2>3. WriteFails \/ GrantUnique => UNCHANGED tableVars
    BY DEF WriteFails, GrantUnique
  <2>4. \A new \in StoreChunks : GrantCopied(new) => UNCHANGED tableVars
    BY DEF GrantCopied
  <2> QED
    BY <1>3, <2>1, <2>2, <2>3, <2>4 DEF ServerStep, TableNext
<1>4. ASSUME NEW w \in granted, Land(w)
      PROVE  UNCHANGED tableVars
  BY <1>4 DEF Land
<1>5. ASSUME NEW t \in Tags, CreateSnapshot(t) \/ DeleteSnapshot(t)
      PROVE  TableNext
  BY <1>5 DEF CreateSnapshot, DeleteSnapshot, TableNext
<1>6. ASSUME NEW c \in Clients, NEW t \in Tags, ConnectClient(c, t)
      PROVE  TableNext
  BY <1>6 DEF ConnectClient, TableNext
<1>7. ASSUME NEW c \in Clients, DisconnectClient(c)
      PROVE  TableNext
  BY <1>7 DEF DisconnectClient, TableNext
<1>8. ASSUME NEW t \in Tags, NEW d \in {-1, 1}, HoldSnapshot(t, d)
      PROVE  TableNext
  BY <1>8 DEF HoldSnapshot, TableNext
<1>9. ASSUME NEW t \in Tags, NEW p \in Prios, PrioritizeSnapshot(t, p)
      PROVE  TableNext
  BY <1>9 DEF PrioritizeSnapshot, TableNext
<1>10. CASE RestartServer
  BY <1>10 DEF RestartServer, TableNext
<1>11. CASE UNCHANGED vars
  BY <1>11 DEF vars
<1> QED
  BY <1>1, <1>2, <1>3, <1>4, <1>5, <1>6, <1>7, <1>8, <1>9, <1>10, <1>11 DEF Next

\* The list becomes empty on disk in the step in which it becomes empty.
LEMMA EmptyListSaved ==
    ASSUME IInv, EmptySaved, [TableNext]_tableVars
    PROVE  EmptySaved'
<1> USE DEF EmptySaved
<1>1. snaps \in Seq(Snapshot)
  BY DEF IInv, ListInv
<1>2. ASSUME NEW t \in Tags, Create(t)
      PROVE  EmptySaved'
  <2>1. CASE CreateWithRoom(t)
    BY <2>1 DEF CreateWithRoom
  <2>2. CASE CreateEvicting(t)
    <3>1. PICK i \in DOMAIN snaps :
             IF t \in TagsOf(RemoveAt(snaps, i))
             THEN DeleteSnap(i)
             ELSE disk' = snaps'
      BY <2>2 DEF CreateEvicting
    <3>2. CASE t \in TagsOf(RemoveAt(snaps, i))
      <4>1. t \in TagsOf(snaps')
        BY <3>1, <3>2 DEF DeleteSnap
      <4>2. TagsOf(<<>>) = {}
        BY DEF TagsOf
      <4> QED
        BY <4>1, <4>2
    <3> QED
      BY <3>1, <3>2
  <2> QED
    BY <1>2, <2>1, <2>2 DEF Create
<1>3. ASSUME NEW t \in Tags, Delete(t)
      PROVE  EmptySaved'
  BY <1>3 DEF Delete
<1>4. ASSUME NEW c \in Clients, NEW t \in Tags, Identify(c, t)
      PROVE  EmptySaved'
  BY <1>4 DEF Identify
<1>5. ASSUME NEW c \in Clients, Disconnect(c)
      PROVE  EmptySaved'
  BY <1>5 DEF Disconnect
<1>6. ASSUME NEW i \in DOMAIN snaps, DOMAIN snaps' = DOMAIN snaps
      PROVE  EmptySaved'
  BY <1>6
<1>7. ASSUME NEW t \in Tags, NEW p \in Prios, SetPriority(t, p)
      PROVE  EmptySaved'
  <2>1. DOMAIN snaps' = DOMAIN snaps
    BY <1>7 DEF SetPriority
  <2>2. FindSnap(t) \in DOMAIN snaps
    BY <1>7, FindSnapFinds DEF SetPriority
  <2> QED
    BY <1>6, <2>1, <2>2
<1>8. ASSUME NEW t \in Tags, NEW d \in {-1, 1}, AddUseCount(t, d)
      PROVE  EmptySaved'
  <2>1. DOMAIN snaps' = DOMAIN snaps
    BY <1>8 DEF AddUseCount
  <2>2. FindSnap(t) \in DOMAIN snaps
    BY <1>8, FindSnapFinds DEF AddUseCount
  <2> QED
    BY <1>6, <2>1, <2>2
<1>9. CASE Release
  <2>1. PICK i \in DOMAIN snaps : Squash(i) \/ (DeleteSnap(i) /\ disk' = snaps')
    BY <1>9 DEF Release
  <2>2. Squash(i) => DOMAIN snaps' = DOMAIN snaps
    BY DEF Squash
  <2> QED
    BY <1>6, <2>1, <2>2
<1>10. CASE ShutDown \/ Crash
  BY <1>10 DEF ShutDown, Crash, Start
<1>11. CASE UNCHANGED tableVars
  BY <1>11 DEF tableVars
<1> QED
  BY <1>2, <1>3, <1>4, <1>5, <1>7, <1>8, <1>9, <1>10, <1>11 DEF TableNext

-----------------------------------------------------------------------------
(* The steps of the store. *)

\* The request of a write carries a bit of the mask range or ORIGIN.
LEMMA RequestTypes ==
    ASSUME DataInv, req # NoReq
    PROVE  /\ req.tag \in Tags \union {NoTag}
           /\ req.bit \in Bit \union {ORIGIN}
           /\ req.chunk \in Chunks
           /\ req.data \in Data
<1>1. req \in Request
  BY DEF DataInv
<1> QED
  BY <1>1 DEF Request

\* The tree and the bitmap survive every step: copyouts, deletions, releases in
\* the middle of a write, evictions and restarts.
LEMMA StepKeepsTree ==
    ASSUME SInv, [Next]_vars
    PROVE  TreeInv'
<1>1. TreeInv /\ DataInv
  BY DEF SInv
<1>2. snapmask \subseteq Bit
  BY MaskInBit DEF SInv, IInv, ListInv
<1>3. CASE UNCHANGED <<exc, free>>
  BY <1>1, <1>3 DEF TreeInv
<1>4. ASSUME NEW new \in StoreChunks, GrantCopied(new)
      PROVE  TreeInv'
  <2>1. /\ req # NoReq
        /\ new \in free
        /\ ~Unique(req.chunk, req.bit)
        /\ exc' = [exc EXCEPT ![req.chunk] = AddException(req.chunk, req.bit, new)]
        /\ free' = free \ {new}
    BY <1>4 DEF GrantCopied
  <2> QED
    BY <1>1, <1>2, <2>1, RequestTypes, AddKeepsTree
<1>5. CASE ServerStep
  <2>1. EnsureFreeChunks => TreeInv'
    BY <1>1, DeleteKeepsTree DEF EnsureFreeChunks, PurgeDropped
  <2>2. WriteFails \/ VictimAssertFails \/ GrantUnique => UNCHANGED <<exc, free>>
    BY DEF WriteFails, VictimAssertFails, GrantUnique
  <2> QED
    BY <1>3, <1>4, <1>5, <2>1, <2>2 DEF ServerStep
<1>6. ASSUME NEW t \in Tags, CreateSnapshot(t) \/ DeleteSnapshot(t)
      PROVE  TreeInv'
  <2>1. CreateSnapshot(t) => TreeInv'
    BY <1>1, DeleteKeepsTree DEF CreateSnapshot
  <2>2. DeleteSnapshot(t) => TreeInv'
    BY <1>1, DeleteKeepsTree DEF DeleteSnapshot, PurgeDropped
  <2> QED
    BY <1>6, <2>1, <2>2
<1>7. \A c \in Chunks, d \in Data : QueryOriginWrite(c, d) => UNCHANGED <<exc, free>>
  BY DEF QueryOriginWrite
<1>8. \A cl \in Clients, c \in Chunks, d \in Data :
         QuerySnapshotWrite(cl, c, d) => UNCHANGED <<exc, free>>
  BY DEF QuerySnapshotWrite
<1>9. \A w \in granted : Land(w) => UNCHANGED <<exc, free>>
  BY DEF Land
<1>10. \A c \in Clients, t \in Tags : ConnectClient(c, t) => UNCHANGED <<exc, free>>
  BY DEF ConnectClient, storeVars
<1>11. \A c \in Clients : DisconnectClient(c) => UNCHANGED <<exc, free>>
  BY DEF DisconnectClient, storeVars
<1>12. \A t \in Tags, d \in {-1, 1} : HoldSnapshot(t, d) => UNCHANGED <<exc, free>>
  BY DEF HoldSnapshot, storeVars
<1>13. \A t \in Tags, p \in Prios : PrioritizeSnapshot(t, p) => UNCHANGED <<exc, free>>
  BY DEF PrioritizeSnapshot, storeVars
<1>14. RestartServer \/ UNCHANGED vars => UNCHANGED <<exc, free>>
  BY DEF RestartServer, vars, storeVars
<1> QED
  BY <1>3, <1>5, <1>6, <1>7, <1>8, <1>9, <1>10, <1>11, <1>12, <1>13, <1>14 DEF Next

\* The data, the request and the grants keep their types.
LEMMA StepKeepsData ==
    ASSUME SInv, [Next]_vars
    PROVE  DataInv'
<1>1. TreeInv /\ DataInv /\ IInv
  BY DEF SInv
<1>2. /\ org \in [Chunks -> Data]
      /\ store \in [StoreChunks -> Data \union {Blank}]
      /\ req \in Request \union {NoReq}
      /\ granted \subseteq Grant
  BY <1>1 DEF DataInv
<1>3. CASE UNCHANGED <<org, store, req, granted>>
  BY <1>2, <1>3 DEF DataInv
<1>4. CASE UNCHANGED <<org, store, granted>> /\ req' \in {NoReq, req}
  BY <1>2, <1>4 DEF DataInv
<1>5. ASSUME NEW c \in Chunks, NEW d \in Data, QueryOriginWrite(c, d)
      PROVE  DataInv'
  <2>1. req' \in Request
    BY <1>5 DEF QueryOriginWrite, Request
  <2> QED
    BY <1>2, <1>5, <2>1 DEF QueryOriginWrite, DataInv
<1>6. ASSUME NEW cl \in Clients, NEW c \in Chunks, NEW d \in Data,
             QuerySnapshotWrite(cl, c, d)
      PROVE  DataInv'
  <2> DEFINE s == snaps[FindSnap(bound[cl])]
  <2>1. ~Squashed(s) /\ req' = [tag |-> s.tag, bit |-> s.bit, chunk |-> c, data |-> d]
    BY <1>6 DEF QuerySnapshotWrite
  <2>2. bound[cl] \in TagsOf(snaps)
    BY <1>6 DEF QuerySnapshotWrite
  <2>3. FindSnap(bound[cl]) \in DOMAIN snaps
    BY <2>2, FindSnapFinds
  <2>4. s.tag \in Tags /\ s.bit \in Bit
    BY <1>1, <2>1, <2>3, EntryTypes DEF IInv, ListInv
  <2> HIDE DEF s
  <2>5. req' \in Request
    BY <2>1, <2>4 DEF Request
  <2> QED
    BY <1>2, <1>6, <2>5 DEF QuerySnapshotWrite, DataInv
<1>7. CASE GrantUnique
  <2>1. req # NoReq
    BY <1>7 DEF GrantUnique
  <2>2. Lookup(req.chunk, req.bit) \in StoreChunks \union {NONE}
    BY <1>1, <2>1, RequestTypes, LookupType
  <2>3. granted' \subseteq Grant
    <3>1. [tag |-> req.tag, chunk |-> req.chunk, data |-> req.data,
           addr |-> IF req.bit = ORIGIN THEN NONE ELSE Lookup(req.chunk, req.bit)] \in Grant
      BY <1>1, <2>1, <2>2, RequestTypes DEF Grant
    <3> QED
      BY <1>2, <1>7, <3>1 DEF GrantUnique
  <2> QED
    BY <1>2, <1>7, <2>3 DEF GrantUnique, DataInv
<1>8. ASSUME NEW new \in StoreChunks, GrantCopied(new)
      PROVE  DataInv'
  <2>1. req # NoReq
    BY <1>8 DEF GrantCopied
  <2>2. /\ req.tag \in Tags \union {NoTag} /\ req.chunk \in Chunks /\ req.data \in Data
        /\ Lookup(req.chunk, req.bit) \in StoreChunks \union {NONE}
    BY <1>1, <2>1, RequestTypes, LookupType
  <2>3. Source(req.chunk, req.bit) \in Data \union {Blank}
    BY <1>2, <2>2 DEF Source
  <2>4. store' \in [StoreChunks -> Data \union {Blank}]
    BY <1>2, <1>8, <2>3 DEF GrantCopied
  <2>5. granted' \subseteq Grant
    <3>1. [tag |-> req.tag, chunk |-> req.chunk, data |-> req.data,
           addr |-> IF req.bit = ORIGIN THEN NONE ELSE new] \in Grant
      BY <2>2 DEF Grant
    <3> QED
      BY <1>2, <1>8, <3>1 DEF GrantCopied
  <2> QED
    BY <1>2, <1>8, <2>4, <2>5 DEF GrantCopied, DataInv
<1>9. CASE ServerStep
  <2>1. EnsureFreeChunks \/ WriteFails \/ VictimAssertFails =>
            UNCHANGED <<org, store, granted>> /\ req' \in {NoReq, req}
    BY DEF EnsureFreeChunks, WriteFails, VictimAssertFails
  <2> QED
    BY <1>4, <1>7, <1>8, <1>9, <2>1 DEF ServerStep
<1>10. ASSUME NEW w \in granted, Land(w)
       PROVE  DataInv'
  <2>1. w \in Grant
    BY <1>2
  <2>2. w.data \in Data
    BY <2>1 DEF Grant
  <2>3. org' \in [Chunks -> Data] /\ store' \in [StoreChunks -> Data \union {Blank}]
    BY <1>2, <1>10, <2>2 DEF Land
  <2> QED
    BY <1>2, <1>10, <2>3 DEF Land, DataInv
<1>11. ASSUME NEW t \in Tags, CreateSnapshot(t) \/ DeleteSnapshot(t)
       PROVE  DataInv'
  BY <1>3, <1>11 DEF CreateSnapshot, DeleteSnapshot
<1>12. \A c \in Clients, t \in Tags :
          ConnectClient(c, t) => UNCHANGED <<org, store, req, granted>>
  BY DEF ConnectClient, storeVars
<1>13. \A c \in Clients : DisconnectClient(c) => UNCHANGED <<org, store, req, granted>>
  BY DEF DisconnectClient, storeVars
<1>14. \A t \in Tags, d \in {-1, 1} :
          HoldSnapshot(t, d) => UNCHANGED <<org, store, req, granted>>
  BY DEF HoldSnapshot, storeVars
<1>15. \A t \in Tags, p \in Prios :
          PrioritizeSnapshot(t, p) => UNCHANGED <<org, store, req, granted>>
  BY DEF PrioritizeSnapshot, storeVars
<1>16. RestartServer \/ UNCHANGED vars => UNCHANGED <<org, store, req, granted>>
  BY DEF RestartServer, vars, storeVars
<1> QED
  BY <1>3, <1>5, <1>6, <1>9, <1>10, <1>11, <1>12, <1>13, <1>14, <1>15, <1>16 DEF Next

\* A new device satisfies the invariant.
LEMMA StoreInit == Init => SInv
<1> SUFFICES ASSUME Init
             PROVE  SInv
  OBVIOUS
<1>1. IInv
  BY InitEstablishes DEF Init
<1>2. TreeInv /\ DataInv /\ EmptySaved
  BY DEF Init, TableInit, TreeInv, DataInv, EmptySaved
<1> QED
  BY <1>1, <1>2 DEF SInv

\* Every step keeps the invariant.
LEMMA StoreStep ==
    ASSUME SInv, [Next]_vars
    PROVE  SInv'
<1>1. [TableNext]_tableVars
  BY StepOfTable
<1>2. IInv /\ EmptySaved
  BY DEF SInv
<1>3. IInv' /\ EmptySaved'
  BY <1>1, <1>2, NextPreserves, EmptyListSaved
<1> QED
  BY <1>3, StepKeepsTree, StepKeepsData DEF SInv

\* The inductive invariant holds in every reachable state of the store.
THEOREM SInvHolds == Spec => []SInv
<1>1. SInv /\ [Next]_vars => SInv'
  BY StoreStep
<1> QED
  BY StoreInit, <1>1, PTL DEF Spec

-----------------------------------------------------------------------------
(* What the invariant says of a state. *)

\* The chunks of the store are counted right: no owner for a free one, one for
\* any other.
LEMMA TreeAccounted ==
    ASSUME TreeInv
    PROVE  StoreAccounted
<1> DEFINE entries == {<<c, e>> : c \in Chunks, e \in UNION {exc[k] : k \in Chunks}}
           of(s) == {x \in entries : x[2] \in exc[x[1]] /\ x[2].chunk = s}
<1>1. ASSUME NEW s \in StoreChunks
      PROVE  Cardinality(of(s)) = IF s \in free THEN 0 ELSE 1
  <2>1. \A x \in of(s) : \E c \in Chunks : \E e \in exc[c] :
           x = <<c, e>> /\ e.chunk = s
    OBVIOUS
  <2>2. \A c \in Chunks : \A e \in exc[c] : e.chunk = s => <<c, e>> \in of(s)
    OBVIOUS
  <2> HIDE DEF of
  <2>3. CASE s \in free
    <3>1. of(s) = {}
      BY <2>1, <2>3 DEF TreeInv
    <3> QED
      BY <2>3, <3>1, FS_EmptySet
  <2>4. CASE s \notin free
    <3>1. PICK c \in Chunks : \E e \in exc[c] : e.chunk = s
      BY <2>4 DEF TreeInv
    <3>2. PICK e \in exc[c] : e.chunk = s
      BY <3>1
    <3>3. \A x \in of(s) : x = <<c, e>>
      BY <2>1, <3>2 DEF TreeInv
    <3>4. of(s) = {<<c, e>>}
      BY <2>2, <3>2, <3>3
    <3> QED
      BY <2>4, <3>4, FS_Singleton
  <2> QED
    BY <2>3, <2>4
<1> QED
  BY <1>1 DEF StoreAccounted

\* The invariant holds the checked invariants.
LEMMA SInvImplies ==
    ASSUME SInv
    PROVE  StoreTypeOK /\ ShareExclusive /\ StoreAccounted
<1>1. TableTypeOK
  BY IInvImplies DEF SInv
<1>2. StoreTypeOK
  BY <1>1 DEF SInv, TreeInv, DataInv, StoreTypeOK
<1>3. ShareExclusive
  BY DEF SInv, TreeInv, ShareExclusive
<1> QED
  BY <1>2, <1>3, TreeAccounted DEF SInv

-----------------------------------------------------------------------------
(* Unsharing is permanent. *)

\* All bits but some are carried on, and an exception that one of them has for
\* itself keeps its chunk.
KeepsBits(old, now, bits) ==
    /\ Sharing(old) \ bits \subseteq Sharing(now)
    /\ \A b \in Bit \ bits : \A e \in old :
          e.share = {b} => \E f \in now : f.share = {b} /\ f.chunk = e.chunk

\* delete_tree_range disturbs the bits it takes out only.
LEMMA SharingAfterDelete ==
    ASSUME TreeInv, NEW bits, DeleteTreeRange(bits), NEW c \in Chunks
    PROVE  KeepsBits(exc[c], exc'[c], bits)
<1>1. exc'[c] = Kept(c, bits)
  BY DEF DeleteTreeRange
<1>2. \A e \in exc[c] : ~(e.share \subseteq bits) =>
          \E f \in exc'[c] : f.share = e.share \ bits /\ f.chunk = e.chunk
  BY <1>1, KeptEntries DEF TreeInv
<1>3. Sharing(exc[c]) \ bits \subseteq Sharing(exc'[c])
  <2>1. ASSUME NEW b \in Sharing(exc[c]), b \notin bits
        PROVE  b \in Sharing(exc'[c])
    <3>1. PICK e \in exc[c] : b \in e.share
      BY DEF Sharing
    <3>2. PICK f \in exc'[c] : f.share = e.share \ bits
      BY <1>2, <2>1, <3>1
    <3> QED
      BY <2>1, <3>1, <3>2 DEF Sharing
  <2> QED
    BY <2>1
<1>4. ASSUME NEW b \in Bit \ bits, NEW e \in exc[c], e.share = {b}
      PROVE  \E f \in exc'[c] : f.share = {b} /\ f.chunk = e.chunk
  <2>1. PICK f \in exc'[c] : f.share = e.share \ bits /\ f.chunk = e.chunk
    BY <1>2, <1>4
  <2> QED
    BY <1>4, <2>1
<1> QED
  BY <1>3, <1>4 DEF KeepsBits

\* A copy for one bit disturbs no exception that another has for itself.
LEMMA SharingAfterAdd ==
    ASSUME TreeInv, snapmask \subseteq Bit, NEW c \in Chunks,
           NEW b \in Bit \union {ORIGIN}, NEW new, ~Unique(c, b)
    PROVE  KeepsBits(exc[c], AddException(c, b, new), {})
<1>1. PICK share, lost \in SUBSET Bit : Adds(c, b, new, share, lost)
  BY AddedEntries
<1> DEFINE added == [share |-> share, chunk |-> new]
<1>2. AddException(c, b, new) = {Cut(e, lost) : e \in exc[c]} \union {added}
  BY <1>1 DEF Adds
<1>3. added.share = share
  OBVIOUS
<1>4. lost \subseteq share
  BY <1>1 DEF Adds
<1> HIDE DEF added
<1>5. \A e \in exc[c] : /\ Cut(e, lost) \in AddException(c, b, new)
                        /\ Cut(e, lost).share = e.share \ lost
                        /\ Cut(e, lost).chunk = e.chunk
  BY <1>2, CutFields DEF TreeInv
<1>6. ASSUME NEW k \in Sharing(exc[c])
      PROVE  k \in Sharing(AddException(c, b, new))
  <2>1. PICK e \in exc[c] : k \in e.share
    BY DEF Sharing
  <2>2. CASE k \in lost
    BY <1>2, <1>3, <1>4, <2>2 DEF Sharing
  <2>3. CASE k \notin lost
    <3>1. k \in Cut(e, lost).share
      BY <1>5, <2>1, <2>3
    <3> QED
      BY <1>5, <3>1 DEF Sharing
  <2> QED
    BY <2>2, <2>3
<1>7. ASSUME NEW k \in Bit, NEW e \in exc[c], e.share = {k}
      PROVE  Cut(e, lost).share = {k}
  <2>1. e.share \ lost # {}
    BY <1>1 DEF Adds
  <2> QED
    BY <1>5, <1>7, <2>1
<1> QED
  BY <1>5, <1>6, <1>7 DEF KeepsBits

\* LookupIs in the state after a step.
LEMMA LookupIsAfter ==
    ASSUME TreeInv', NEW c \in Chunks, NEW e \in exc'[c], NEW b \in e.share
    PROVE  Lookup(c, b)' = e.chunk
<1>1. \A f \in exc'[c] : b \in f.share => f = e
  BY DEF TreeInv
<1>2. {f \in exc'[c] : b \in f.share} = {e}
  BY <1>1
<1>3. (CHOOSE f \in {e} : TRUE) = e
  OBVIOUS
<1> QED
  BY <1>2, <1>3 DEF Lookup

\* Every exception of bit b alone is still there after the step.
StillAlone(b) ==
    \A c \in Chunks : \A e \in exc[c] :
        e.share = {b} => \E f \in exc'[c] : f.share = {b} /\ f.chunk = e.chunk

\* A chunk that is unique to a snapshot keeps its address then.
LEMMA AloneKeepsAddress ==
    ASSUME TreeInv, TreeInv', NEW b, StillAlone(b), NEW c \in Chunks,
           SnapshotChunkUnique(c, b)
    PROVE  SnapshotChunkUnique(c, b)' /\ Lookup(c, b)' = Lookup(c, b)
<1>1. PICK e \in exc[c] : e.share = {b}
  BY DEF SnapshotChunkUnique
<1>2. PICK f \in exc'[c] : f.share = {b} /\ f.chunk = e.chunk
  BY <1>1 DEF StillAlone
<1>3. Lookup(c, b) = e.chunk
  BY <1>1, LookupIs
<1>4. Lookup(c, b)' = f.chunk
  BY <1>2, LookupIsAfter
<1>5. SnapshotChunkUnique(c, b)'
  BY <1>2 DEF SnapshotChunkUnique
<1> QED
  BY <1>2, <1>3, <1>4, <1>5

\* What the tree does in one step for UniqueStaysUnique to hold: unique chunks
\* of the origin stay so, and exceptions that a bit has for itself stay.
KeepsUnique ==
    /\ \A c \in Chunks :
          OriginChunkUnique(c) =>
              OriginChunkUnique(c)' \/ \E t \in Tags : CreateSnapshot(t)
    /\ \A i \in DOMAIN snaps, j \in DOMAIN snaps', b \in Bit :
          /\ snaps[i].bit = b
          /\ snaps'[j].bit = b
          /\ snaps[i].tag = snaps'[j].tag
          /\ ~CreateSnapshot(snaps[i].tag)
          => StillAlone(b)

\* The step UniqueStaysUnique allows.
UniqueStep ==
    /\ \A c \in Chunks :
          OriginChunkUnique(c) =>
              OriginChunkUnique(c)' \/ \E t \in Tags : CreateSnapshot(t)
    /\ \A i \in DOMAIN snaps, j \in DOMAIN snaps', b \in Bit :
          /\ snaps[i].bit = b
          /\ snaps'[j].bit = b
          /\ snaps[i].tag = snaps'[j].tag
          /\ ~CreateSnapshot(snaps[i].tag)
          => \A c \in Chunks :
                SnapshotChunkUnique(c, b) =>
                    /\ SnapshotChunkUnique(c, b)'
                    /\ Lookup(c, b)' = Lookup(c, b)

\* A step that leaves the tree alone and adds no bit to the mask.
LEMMA SameTreeKeepsUnique ==
    ASSUME exc' = exc, snapmask' \subseteq snapmask
    PROVE  KeepsUnique
BY DEF KeepsUnique, StillAlone, OriginChunkUnique, Sharing

\* A step that takes out of the tree what it takes out of the mask: the bit of
\* a snapshot that stays is not among them.
LEMMA PurgeKeepsUnique ==
    ASSUME SInv, IInv', PurgeDropped, snapmask' \subseteq snapmask
    PROVE  KeepsUnique
<1>1. PICK bits : bits = snapmask \ snapmask'
  OBVIOUS
<1>2. TreeInv /\ DeleteTreeRange(bits)
  BY <1>1 DEF SInv, PurgeDropped
<1>3. ASSUME NEW c \in Chunks, OriginChunkUnique(c)
      PROVE  OriginChunkUnique(c)'
  <2>1. Sharing(exc[c]) \ bits \subseteq Sharing(exc'[c])
    BY <1>2, SharingAfterDelete DEF KeepsBits
  <2>2. snapmask' \subseteq Sharing(exc'[c])
    BY <1>1, <1>3, <2>1 DEF OriginChunkUnique
  <2> QED
    BY <2>2 DEF OriginChunkUnique, Sharing
<1>4. ASSUME NEW j \in DOMAIN snaps', snaps'[j].bit \in Bit
      PROVE  StillAlone(snaps'[j].bit)
  <2>1. snaps'[j].bit \in snapmask'
    BY <1>4, TableAssumption DEF IInv, ListInv, MaskOf, Bit, SQUASHED
  <2>2. PICK b : b = snaps'[j].bit
    OBVIOUS
  <2>3. b \in Bit \ bits
    BY <1>1, <1>4, <2>1, <2>2
  <2>4. StillAlone(b)
    BY <1>2, <2>3, SharingAfterDelete DEF StillAlone, KeepsBits
  <2> QED
    BY <2>2, <2>4
<1> QED
  BY <1>3, <1>4 DEF KeepsUnique

\* A copyout for another bit, or for another chunk.
LEMMA CopyKeepsUnique ==
    ASSUME SInv, NEW new \in StoreChunks, GrantCopied(new)
    PROVE  KeepsUnique
<1> DEFINE k == req.chunk
<1>1. /\ req # NoReq /\ ~Unique(k, req.bit)
      /\ exc' = [exc EXCEPT ![k] = AddException(k, req.bit, new)]
      /\ snapmask' = snapmask
  BY DEF GrantCopied, tableVars
<1>2. k \in Chunks /\ req.bit \in Bit \union {ORIGIN}
  BY <1>1, RequestTypes DEF SInv
<1>3. TreeInv /\ snapmask \subseteq Bit
  BY MaskInBit DEF SInv, IInv, ListInv
<1>4. KeepsBits(exc[k], AddException(k, req.bit, new), {})
  BY <1>1, <1>2, <1>3, SharingAfterAdd
<1> HIDE DEF k
<1>5. /\ exc'[k] = AddException(k, req.bit, new)
      /\ \A c \in Chunks \ {k} : exc'[c] = exc[c]
  BY <1>1, <1>2, <1>3 DEF TreeInv
<1>6. ASSUME NEW c \in Chunks, OriginChunkUnique(c)
      PROVE  OriginChunkUnique(c)'
  <2>1. Sharing(exc[c]) \subseteq Sharing(exc'[c])
    <3>1. CASE c = k
      BY <1>4, <1>5, <3>1 DEF KeepsBits
    <3>2. CASE c # k
      BY <1>5, <3>2 DEF Sharing
    <3> QED
      BY <3>1, <3>2
  <2>2. snapmask' \subseteq Sharing(exc'[c])
    BY <1>1, <1>6, <2>1 DEF OriginChunkUnique
  <2> QED
    BY <2>2 DEF OriginChunkUnique, Sharing
<1>7. ASSUME NEW b \in Bit
      PROVE  StillAlone(b)
  BY <1>4, <1>5 DEF StillAlone, KeepsBits
<1> QED
  BY <1>6, <1>7 DEF KeepsUnique

\* Creation takes the bit of the evicted snapshot out of the tree; a snapshot
\* of another name that is in the list before and after is not the evicted one.
LEMMA CreateKeepsUnique ==
    ASSUME SInv, NEW t \in Tags, CreateSnapshot(t)
    PROVE  KeepsUnique
<1>1. IInv /\ TreeInv
  BY DEF SInv
<1>2. /\ snaps \in Seq(Snapshot) /\ DistinctEntries(snaps)
      /\ TagsOf(snaps) \subseteq Tags
  BY <1>1, EntryTypes DEF IInv, ListInv, TagsOf
<1>3. PICK bits : bits = IF Len(snaps) < MaxSnapshots THEN {} ELSE BitsOf(snaps[FindUnused])
  OBVIOUS
<1>4. DeleteTreeRange(bits) /\ Create(t)
  BY <1>3 DEF CreateSnapshot
<1>5. ASSUME NEW b \in Bit \ bits
      PROVE  StillAlone(b)
  BY <1>1, <1>4, SharingAfterDelete DEF StillAlone, KeepsBits
<1>6. ASSUME NEW i \in DOMAIN snaps, NEW j \in DOMAIN snaps', NEW b \in Bit,
             snaps[i].bit = b, snaps[i].tag = snaps'[j].tag, snaps[i].tag # t
      PROVE  StillAlone(b)
  <2>1. CASE Len(snaps) < MaxSnapshots
    BY <1>3, <1>5, <2>1
  <2>2. CASE Len(snaps) >= MaxSnapshots
    <3>1. CreateEvicting(t)
      BY <1>4, <2>2, <1>2, TableAssumption DEF Create, CreateWithRoom
    <3>2. PICK u \in DOMAIN snaps :
             /\ u = FindUnused
             /\ \/ snaps' = RemoveAt(snaps, u)
                \/ \E k \in Bit : snaps' = Append(RemoveAt(snaps, u), NewSnapshot(t, k))
      BY <3>1 DEF CreateEvicting, DeleteSnap
    <3>3. bits = BitsOf(snaps[u])
      BY <1>2, <1>3, <2>2, <3>2, TableAssumption
    <3> DEFINE rest == RemoveAt(snaps, u)
    <3>4. /\ rest \in Seq(Snapshot)
          /\ TagsOf(rest) = TagsOf(snaps) \ {snaps[u].tag}
      BY <1>2, RemoveKeepsDistinct
    <3>5. snaps'[j].tag \in TagsOf(rest)
      <4> HIDE DEF rest
      <4>1. CASE snaps' = rest
        BY <4>1 DEF TagsOf
      <4>2. ASSUME NEW k \in Bit, snaps' = Append(rest, NewSnapshot(t, k))
            PROVE  snaps'[j].tag \in TagsOf(rest)
        <5>1. snaps'[j] = NewSnapshot(t, k) \/ (j \in DOMAIN rest /\ snaps'[j] = rest[j])
          BY <3>4, <4>2
        <5>2. NewSnapshot(t, k).tag = t
          BY DEF NewSnapshot
        <5> QED
          BY <1>6, <5>1, <5>2 DEF TagsOf
      <4> QED
        BY <3>2, <4>1, <4>2 DEF rest
    <3>6. i # u
      BY <1>6, <3>4, <3>5
    <3>7. ~Squashed(snaps[i])
      BY <1>6, TableAssumption DEF Squashed, SQUASHED, Bit
    <3>8. b \notin bits
      BY <1>2, <1>6, <3>3, <3>6, <3>7 DEF DistinctEntries, BitsOf
    <3> QED
      BY <1>5, <3>8
  <2> QED
    BY <1>2, <2>1, <2>2, TableAssumption
<1>7. ASSUME NEW i \in DOMAIN snaps, ~CreateSnapshot(snaps[i].tag)
      PROVE  snaps[i].tag # t
  <2>1. PICK n : n = snaps[i].tag
    OBVIOUS
  <2>2. ~CreateSnapshot(n)
    BY <1>7, <2>1
  <2> QED
    BY <2>1, <2>2
<1> QED
  BY <1>6, <1>7 DEF KeepsUnique

\* No step makes a chunk shared again that was not, until a snapshot is
\* created, and none moves one that a snapshot has for itself.
LEMMA StepKeepsUnique ==
    ASSUME SInv, SInv', [Next]_vars
    PROVE  KeepsUnique
<1>1. IInv /\ IInv' /\ EmptySaved /\ snapmask = MaskOf(snaps)
  BY DEF SInv, IInv, ListInv
<1>2. CASE exc' = exc /\ snapmask' = snapmask
  BY <1>2, SameTreeKeepsUnique
<1>3. CASE EnsureFreeChunks
  <2>1. PICK i \in DOMAIN snaps : Squash(i) \/ DeleteSnap(i)
    BY <1>3 DEF EnsureFreeChunks, Release
  <2>2. snapmask' \subseteq snapmask
    BY <2>1 DEF Squash, DeleteSnap
  <2> QED
    BY <1>1, <1>3, <2>2, PurgeKeepsUnique DEF EnsureFreeChunks
<1>4. CASE VictimAssertFails
  <2>1. disk = <<>> /\ snapmask' = MaskOf(disk) /\ exc' = exc
    BY <1>1, <1>4 DEF VictimAssertFails, Crash, Start, EmptySaved
  <2>2. MaskOf(<<>>) = {}
    BY DEF MaskOf
  <2> QED
    BY <2>1, <2>2, SameTreeKeepsUnique
<1>5. CASE ServerStep
  <2>1. WriteFails \/ GrantUnique => exc' = exc /\ snapmask' = snapmask
    BY DEF WriteFails, GrantUnique, tableVars
  <2> QED
    BY <1>2, <1>3, <1>4, <1>5, <2>1, CopyKeepsUnique DEF ServerStep
<1>6. ASSUME NEW t \in Tags, DeleteSnapshot(t)
      PROVE  KeepsUnique
  <2>1. snapmask' \subseteq snapmask
    BY <1>6 DEF DeleteSnapshot, Delete, DeleteSnap
  <2> QED
    BY <1>1, <1>6, <2>1, PurgeKeepsUnique DEF DeleteSnapshot
<1>7. CASE RestartServer
  <2>1. exc' = exc /\ snapmask' = snapmask
    BY <1>1, <1>7 DEF RestartServer, ShutDown, Start, storeVars
  <2> QED
    BY <1>2, <2>1
<1>8. \A c \in Chunks, d \in Data :
         QueryOriginWrite(c, d) => exc' = exc /\ snapmask' = snapmask
  BY DEF QueryOriginWrite, tableVars
<1>9. \A cl \in Clients, c \in Chunks, d \in Data :
         QuerySnapshotWrite(cl, c, d) => exc' = exc /\ snapmask' = snapmask
  BY DEF QuerySnapshotWrite, tableVars
<1>10. \A w \in granted : Land(w) => exc' = exc /\ snapmask' = snapmask
  BY DEF Land, tableVars
<1>11. \A c \in Clients, t \in Tags :
          ConnectClient(c, t) => exc' = exc /\ snapmask' = snapmask
  BY DEF ConnectClient, Identify, storeVars
<1>12. \A c \in Clients : DisconnectClient(c) => exc' = exc /\ snapmask' = snapmask
  BY DEF DisconnectClient, Disconnect, storeVars
<1>13. \A t \in Tags, d \in {-1, 1} :
          HoldSnapshot(t, d) => exc' = exc /\ snapmask' = snapmask
  BY DEF HoldSnapshot, AddUseCount, storeVars
<1>14. \A t \in Tags, p \in Prios :
          PrioritizeSnapshot(t, p) => exc' = exc /\ snapmask' = snapmask
  BY DEF PrioritizeSnapshot, SetPriority, storeVars
<1>15. UNCHANGED vars => exc' = exc /\ snapmask' = snapmask
  BY DEF vars, tableVars, storeVars
<1> QED
  BY <1>2, <1>5, <1>6, <1>7, <1>8, <1>9, <1>10, <1>11, <1>12, <1>13, <1>14, <1>15,
     CreateKeepsUnique DEF Next

-----------------------------------------------------------------------------
(* The theorems. *)

\* Type correctness of the store.
THEOREM StoreTyped == Spec => []StoreTypeOK
BY SInvHolds, SInvImplies, PTL

\* A snapshot reads a chunk through one exception at most, whatever copyouts,
\* evictions and releases in the middle of a write came before.
THEOREM SharesExclusive == Spec => []ShareExclusive
BY SInvHolds, SInvImplies, PTL

\* No chunk of the store is lost and none has two owners.
THEOREM ChunksAccounted == Spec => []StoreAccounted
BY SInvHolds, SInvImplies, PTL

\* The table inside the store is the table of SnapTable: the theorems about the
\* table hold of the store.
THEOREM StoreRunsTable == Spec => TableSpec
<1>1. Init => TableInit
  BY DEF Init
<1>2. [Next]_vars => [TableNext]_tableVars
  BY StepOfTable
<1> QED
  BY <1>1, <1>2, PTL DEF Spec, TableSpec

\* A chunk that a snapshot, or the origin, does not share stays unshared and
\* where it is, which is what clients rely on when they cache its address.
THEOREM UnsharingIsPermanent == Spec => UniqueStaysUnique
<1>1. SInv /\ SInv' /\ [Next]_vars => [UniqueStep]_vars
  <2> SUFFICES ASSUME SInv, SInv', [Next]_vars
               PROVE  UniqueStep
    OBVIOUS
  <2>1. KeepsUnique
    BY StepKeepsUnique
  <2>2. TreeInv /\ TreeInv'
    BY DEF SInv
  <2> QED
    BY <2>1, <2>2, AloneKeepsAddress DEF KeepsUnique, UniqueStep
<1>2. [][UniqueStep]_vars => UniqueStaysUnique
  BY PTL DEF UniqueStep, UniqueStaysUnique
<1> QED
  BY SInvHolds, <1>1, <1>2, PTL DEF Spec

-----------------------------------------------------------------------------
(***************************************************************************)
(* The store implements independent volumes when no client writes to a     *)
(* snapshot, stores that run full in the middle of a write included.       *)
(*                                                                         *)
(* The theorem has two conditions because the code needs them: a write to  *)
(* a snapshot may leave an exception under the bit of a snapshot that was  *)
(* squashed for it, and chunk 0 of a separate snapshot store, which can be *)
(* allocated, is taken for "no exception" when it is looked up.            *)
(***************************************************************************)

\* No client writes to a snapshot: requests and grants are for the origin, and
\* the exceptions carry bits of the mask only.
OriginInv ==
    /\ req # NoReq => req.bit = ORIGIN /\ req.tag = NoTag
    /\ \A w \in granted : w.tag = NoTag /\ w.addr = NONE
    /\ \A c \in Chunks : Sharing(exc[c]) \subseteq snapmask

\* The names and bits of a list.
Pairs(list) == {<<list[i].tag, list[i].bit>> : i \in DOMAIN list}

\* The snapshots that are not squashed are those with a bit, which is a bit of
\* the mask and tells them apart.
PairsFact ==
    /\ \A t, b : <<t, b>> \in Pairs(snaps) => /\ BitOf(t) = b
                                              /\ t \in Tags
                                              /\ b \in Bit <=> t \in Live
    /\ \A t \in Live : /\ <<t, BitOf(t)>> \in Pairs(snaps)
                       /\ BitOf(t) \in Bit /\ BitOf(t) \in snapmask
                       /\ t \in Tags

\* The list, the names and the mask are consistent in every reachable state.
LEMMA PairsHold == IInv => PairsFact
<1> SUFFICES ASSUME IInv
             PROVE  PairsFact
  OBVIOUS
<1>1. /\ snaps \in Seq(Snapshot) /\ DistinctEntries(snaps) /\ snapmask = MaskOf(snaps)
  BY DEF IInv, ListInv
<1>2. ASSUME NEW i \in DOMAIN snaps
      PROVE  /\ BitOf(snaps[i].tag) = snaps[i].bit
             /\ snaps[i].tag \in Tags
             /\ snaps[i].bit \in Bit <=> ~Squashed(snaps[i])
             /\ snaps[i].bit \in Bit => snaps[i].bit \in snapmask
  <2>1. FindSnap(snaps[i].tag) \in DOMAIN snaps
        /\ snaps[FindSnap(snaps[i].tag)].tag = snaps[i].tag
    BY FindSnapFinds DEF TagsOf
  <2>2. FindSnap(snaps[i].tag) = i
    BY <1>1, <2>1 DEF DistinctEntries
  <2>3. snaps[i].bit \in Bit <=> ~Squashed(snaps[i])
    BY <1>1, EntryTypes, TableAssumption DEF Squashed, SQUASHED, Bit
  <2> QED
    BY <1>1, <2>2, <2>3, EntryTypes DEF BitOf, MaskOf, Squashed
<1>3. \A t \in Live : \E i \in DOMAIN snaps : t = snaps[i].tag /\ ~Squashed(snaps[i])
  BY DEF Live
<1>4. \A i \in DOMAIN snaps : ~Squashed(snaps[i]) => snaps[i].tag \in Live
  BY DEF Live
<1>5. ASSUME NEW i \in DOMAIN snaps, snaps[i].tag \in Live
      PROVE  ~Squashed(snaps[i])
  BY <1>1, <1>3, <1>5 DEF DistinctEntries
<1> QED
  BY <1>2, <1>3, <1>4, <1>5 DEF PairsFact, Pairs

\* The same after a step.
LEMMA PairsHoldAfter == ASSUME IInv' PROVE PairsFact'
BY PairsHold, PTL

\* A lookup says whether a bit has an exception, and where.
LookupFact ==
    \A c \in Chunks, b \in Bit :
        /\ Lookup(c, b) = NONE <=> b \notin Sharing(exc[c])
        /\ \A e \in exc[c] : b \in e.share => Lookup(c, b) = e.chunk

\* It does when NONE is no chunk of the store.
LEMMA LookupHolds ==
    ASSUME NONE \notin StoreChunks
    PROVE  TreeInv => LookupFact
<1> SUFFICES ASSUME TreeInv, NEW c \in Chunks, NEW b \in Bit
             PROVE  /\ Lookup(c, b) = NONE <=> b \notin Sharing(exc[c])
                    /\ \A e \in exc[c] : b \in e.share => Lookup(c, b) = e.chunk
  BY DEF LookupFact
<1>1. \A e \in exc[c] : b \in e.share => Lookup(c, b) = e.chunk
  BY LookupIs
<1>2. \A e \in exc[c] : e.chunk # NONE
  BY DEF TreeInv, Exception
<1>3. b \in Sharing(exc[c]) <=> \E e \in exc[c] : b \in e.share
  BY DEF Sharing
<1>4. b \notin Sharing(exc[c]) => Lookup(c, b) = NONE
  BY <1>3 DEF Lookup
<1> QED
  BY <1>1, <1>2, <1>3, <1>4

\* The same after a step.
LEMMA LookupHoldsAfter ==
    ASSUME NONE \notin StoreChunks, TreeInv'
    PROVE  LookupFact'
BY LookupHolds, PTL

-----------------------------------------------------------------------------
(* What a step does to the names and bits. *)

\* A deletion takes one pair out,
LEMMA PairsRemove ==
    ASSUME NEW list \in Seq(Snapshot), DistinctEntries(list), NEW i \in DOMAIN list
    PROVE  Pairs(RemoveAt(list, i)) = Pairs(list) \ {<<list[i].tag, list[i].bit>>}
<1> DEFINE r == RemoveAt(list, i)
           all == DOMAIN list \ {i}
<1>1. PICK old \in [DOMAIN r -> all] :
         /\ \A j \in DOMAIN r : r[j] = list[old[j]]
         /\ \A m \in all : \E j \in DOMAIN r : old[j] = m
  BY RemoveAtPositions
<1> HIDE DEF r
<1>2. Pairs(r) = {<<list[m].tag, list[m].bit>> : m \in all}
  BY <1>1 DEF Pairs
<1>3. \A m \in all : <<list[m].tag, list[m].bit>> # <<list[i].tag, list[i].bit>>
  BY DEF DistinctEntries
<1>4. {<<list[m].tag, list[m].bit>> : m \in all}
          = Pairs(list) \ {<<list[i].tag, list[i].bit>>}
  BY <1>3 DEF Pairs
<1> QED
  BY <1>2, <1>4 DEF r

\* a squash marks one,
LEMMA PairsSquash ==
    ASSUME NEW list \in Seq(Snapshot), DistinctEntries(list), NEW i \in DOMAIN list
    PROVE  Pairs([list EXCEPT ![i].bit = SQUASHED])
              = (Pairs(list) \ {<<list[i].tag, list[i].bit>>})
                   \union {<<list[i].tag, SQUASHED>>}
<1> DEFINE new == [list EXCEPT ![i].bit = SQUASHED]
<1>1. list[i] \in Snapshot
  BY EntryTypes
<1>2. /\ DOMAIN new = DOMAIN list
      /\ new[i].tag = list[i].tag /\ new[i].bit = SQUASHED
      /\ \A j \in DOMAIN list \ {i} : new[j] = list[j]
  BY <1>1 DEF Snapshot
<1> HIDE DEF new
<1>3. \A j \in DOMAIN list \ {i} : list[j].tag # list[i].tag
  BY DEF DistinctEntries
<1>4. Pairs(new) = {<<list[j].tag, list[j].bit>> : j \in DOMAIN list \ {i}}
                      \union {<<list[i].tag, SQUASHED>>}
  BY <1>2 DEF Pairs
<1>5. {<<list[j].tag, list[j].bit>> : j \in DOMAIN list \ {i}}
          = Pairs(list) \ {<<list[i].tag, list[i].bit>>}
  BY <1>3 DEF Pairs
<1> QED
  BY <1>4, <1>5 DEF new

\* a creation adds one,
LEMMA PairsAppend ==
    ASSUME NEW list \in Seq(Snapshot), NEW t, NEW b
    PROVE  Pairs(Append(list, NewSnapshot(t, b))) = Pairs(list) \union {<<t, b>>}
<1> DEFINE new == Append(list, NewSnapshot(t, b))
           n == Len(list) + 1
<1>1. /\ DOMAIN new = DOMAIN list \union {n}
      /\ new[n] = NewSnapshot(t, b)
      /\ \A j \in DOMAIN list : new[j] = list[j]
  <2> DEFINE s == NewSnapshot(t, b)
  <2> HIDE DEF s
  <2>1. /\ DOMAIN Append(list, s) = DOMAIN list \union {n}
        /\ Append(list, s)[n] = s
        /\ \A j \in DOMAIN list : Append(list, s)[j] = list[j]
    OBVIOUS
  <2> QED
    BY <2>1 DEF s
<1> HIDE DEF new, n
<1>2. new[n].tag = t /\ new[n].bit = b
  BY <1>1 DEF NewSnapshot
<1>3. Pairs(new) = Pairs(list) \union {<<t, b>>}
  BY <1>1, <1>2 DEF Pairs
<1> QED
  BY <1>3 DEF new

\* and a change of priority or use count leaves them alone.
LEMMA PairsSame ==
    ASSUME NEW list, NEW new, DOMAIN new = DOMAIN list,
           \A j \in DOMAIN list : new[j].tag = list[j].tag /\ new[j].bit = list[j].bit
    PROVE  Pairs(new) = Pairs(list)
BY DEF Pairs

\* A snapshot that is live before and after a step keeps its bit when the step
\* adds no pair with its name.
LEMMA SurvivorsKeepBit ==
    ASSUME PairsFact, PairsFact', NEW t \in Live', <<t, BitOf(t)'>> \in Pairs(snaps)
    PROVE  t \in Live /\ BitOf(t)' = BitOf(t)
BY DEF PairsFact

-----------------------------------------------------------------------------
(* What a step does to the content of a snapshot. *)

\* A lookup of a bit that is not taken out of the tree finds what it found.
LEMMA DeleteKeepsLookup ==
    ASSUME NONE \notin StoreChunks, TreeInv, TreeInv', NEW bits, DeleteTreeRange(bits),
           NEW b \in Bit \ bits, NEW c \in Chunks
    PROVE  Lookup(c, b)' = Lookup(c, b)
<1>1. /\ exc'[c] = Kept(c, bits)
      /\ exc[c] \subseteq Exception
  BY DEF DeleteTreeRange, TreeInv
<1>2. LookupFact /\ LookupFact'
  BY LookupHolds, LookupHoldsAfter
<1>3. CASE b \in Sharing(exc[c])
  <2>1. PICK e \in exc[c] : b \in e.share
    BY <1>3 DEF Sharing
  <2>2. PICK f \in exc'[c] : f.share = e.share \ bits /\ f.chunk = e.chunk
    BY <1>1, <2>1, KeptEntries
  <2>3. Lookup(c, b)' = f.chunk
    BY <2>1, <2>2, LookupIsAfter
  <2> QED
    BY <1>2, <2>1, <2>2, <2>3 DEF LookupFact
<1>4. CASE b \notin Sharing(exc[c])
  <2>1. \A f \in exc'[c] : \E e \in exc[c] : f.share = e.share \ bits
    BY <1>1, KeptEntries
  <2>2. b \notin Sharing(exc'[c])
    BY <1>4, <2>1 DEF Sharing
  <2>3. Lookup(c, b)' = NONE
    BY <1>2, <2>2 DEF LookupFact
  <2> QED
    BY <1>2, <1>4, <2>3 DEF LookupFact
<1> QED
  BY <1>3, <1>4

\* The content of a snapshot after a step, and its chunks that a write in
\* flight may still reach.
LEMMA ViewAfter ==
    ASSUME NEW t \in Live', NEW b, b = BitOf(t)'
    PROVE  /\ Views'[t] = [c \in Chunks |->
                 IF Lookup(c, b)' = NONE THEN org'[c] ELSE store'[Lookup(c, b)']]
           /\ Unsettled'[t] = {c \in OriginInFlight' : Lookup(c, b)' = NONE}
BY DEF Views, Unsettled, Lookup

\* The same before a step.
LEMMA ViewBefore ==
    ASSUME NEW t \in Live, NEW b, b = BitOf(t)
    PROVE  /\ Views[t] = [c \in Chunks |->
                 IF Lookup(c, b) = NONE THEN org[c] ELSE store[Lookup(c, b)]]
           /\ Unsettled[t] = {c \in OriginInFlight : Lookup(c, b) = NONE}
BY DEF Views, Unsettled

\* The devices and the writes in flight stay, and so does what the lookups of a
\* bit find: the snapshot with that bit shows what it showed.
LEMMA SameView ==
    ASSUME DataInv, UNCHANGED <<org, store, granted>>, NEW t \in Live, t \in Live',
           NEW b, b = BitOf(t), b = BitOf(t)',
           \A c \in Chunks : Lookup(c, b)' = Lookup(c, b)
    PROVE  Views'[t] = Views[t] /\ Unsettled'[t] = Unsettled[t]
<1>1. org' = org /\ store' = store /\ granted' = granted
  OBVIOUS
<1>2. Views'[t] = [c \in Chunks |->
          IF Lookup(c, b)' = NONE THEN org'[c] ELSE store'[Lookup(c, b)']]
  BY ViewAfter
<1>3. Views[t] = [c \in Chunks |->
          IF Lookup(c, b) = NONE THEN org[c] ELSE store[Lookup(c, b)]]
  BY ViewBefore
<1>4. Unsettled'[t] = {c \in OriginInFlight' : Lookup(c, b)' = NONE}
  BY ViewAfter
<1>5. Unsettled[t] = {c \in OriginInFlight : Lookup(c, b) = NONE}
  BY ViewBefore
<1>6. Views'[t] = Views[t]
  BY <1>1, <1>2, <1>3
<1>7. Unsettled'[t] = Unsettled[t]
  <2>1. OriginInFlight' = OriginInFlight
    BY <1>1 DEF OriginInFlight
  <2>2. OriginInFlight \subseteq Chunks
    BY DEF DataInv, Grant, OriginInFlight
  <2> QED
    BY <1>4, <1>5, <2>1, <2>2
<1> QED
  BY <1>6, <1>7

-----------------------------------------------------------------------------
(* Requests, grants and masks when no client writes to a snapshot. *)

\* The bits that are taken out of the tree are gone from every chunk.
LEMMA DeleteSharing ==
    ASSUME TreeInv, NEW bits, DeleteTreeRange(bits), NEW c \in Chunks
    PROVE  Sharing(exc'[c]) \subseteq Sharing(exc[c]) \ bits
<1>1. exc'[c] = Kept(c, bits) /\ exc[c] \subseteq Exception
  BY DEF DeleteTreeRange, TreeInv
<1>2. \A f \in exc'[c] : \E e \in exc[c] : f.share = e.share \ bits
  BY <1>1, KeptEntries
<1> QED
  BY <1>2 DEF Sharing

\* The bits that a creation takes out of the tree are those it takes out of the
\* mask.
LEMMA CreateMask ==
    ASSUME IInv, NEW t \in Tags, CreateSnapshot(t)
    PROVE  \E bits : DeleteTreeRange(bits) /\ snapmask \ bits \subseteq snapmask'
<1>1. Len(snaps) \in Nat
  BY DEF IInv, ListInv
<1>2. PICK bits : bits = IF Len(snaps) < MaxSnapshots THEN {} ELSE BitsOf(snaps[FindUnused])
  OBVIOUS
<1>3. DeleteTreeRange(bits) /\ Create(t)
  BY <1>2 DEF CreateSnapshot
<1>4. CASE CreateWithRoom(t)
  BY <1>3, <1>4 DEF CreateWithRoom
<1>5. CASE CreateEvicting(t)
  <2>1. bits = BitsOf(snaps[FindUnused])
    BY <1>1, <1>2, <1>5, TableAssumption DEF CreateEvicting
  <2>2. snapmask \ BitsOf(snaps[FindUnused]) \subseteq snapmask'
    BY <1>5 DEF CreateEvicting, DeleteSnap
  <2> QED
    BY <1>3, <2>1, <2>2
<1> QED
  BY <1>3, <1>4, <1>5 DEF Create

\* Without snapshot writes every step keeps requests, grants and masks so.
LEMMA OriginStep ==
    ASSUME WritableTags = {}, SInv, OriginInv, [Next]_vars
    PROVE  OriginInv'
<1>1. /\ IInv /\ TreeInv /\ DataInv /\ EmptySaved
      /\ snapmask = MaskOf(snaps) /\ snapmask \subseteq Bit
  BY MaskInBit DEF SInv, IInv, ListInv
<1>2. /\ req # NoReq => req.bit = ORIGIN /\ req.tag = NoTag
      /\ \A w \in granted : w.tag = NoTag /\ w.addr = NONE
      /\ \A c \in Chunks : Sharing(exc[c]) \subseteq snapmask
  BY DEF OriginInv
<1>3. CASE UNCHANGED <<exc, req, granted>> /\ snapmask' = snapmask
  BY <1>2, <1>3 DEF OriginInv, Sharing
<1>4. ASSUME req' \in {NoReq, req}, granted' = granted,
             NEW bits, DeleteTreeRange(bits), snapmask \ bits \subseteq snapmask'
      PROVE  OriginInv'
  <2>1. \A c \in Chunks : Sharing(exc'[c]) \subseteq snapmask'
    BY <1>1, <1>2, <1>4, DeleteSharing
  <2> QED
    BY <1>2, <1>4, <2>1 DEF OriginInv, Sharing
<1>5. ASSUME PurgeDropped, req' \in {NoReq, req}, granted' = granted
      PROVE  OriginInv'
  <2>1. PICK bits : bits = snapmask \ snapmask'
    OBVIOUS
  <2>2. DeleteTreeRange(bits) /\ snapmask \ bits \subseteq snapmask'
    BY <1>5, <2>1 DEF PurgeDropped
  <2> QED
    BY <1>4, <1>5, <2>2
<1>6. ASSUME NEW c \in Chunks, NEW d \in Data, QueryOriginWrite(c, d)
      PROVE  OriginInv'
  <2>1. req'.bit = ORIGIN /\ req'.tag = NoTag
    BY <1>6 DEF QueryOriginWrite
  <2>2. exc' = exc /\ granted' = granted /\ snapmask' = snapmask
    BY <1>6 DEF QueryOriginWrite, tableVars
  <2> QED
    BY <1>2, <2>1, <2>2 DEF OriginInv, Sharing
<1>7. \A cl \in Clients, c \in Chunks, d \in Data : ~QuerySnapshotWrite(cl, c, d)
  BY DEF QuerySnapshotWrite
<1>8. CASE EnsureFreeChunks
  BY <1>5, <1>8 DEF EnsureFreeChunks
<1>9. CASE WriteFails
  BY <1>2, <1>9 DEF WriteFails, tableVars, OriginInv, Sharing
<1>10. CASE VictimAssertFails
  <2>1. MaskOf(<<>>) = {}
    BY DEF MaskOf
  <2>2. snapmask = {} /\ snapmask' = {}
    BY <1>1, <1>10, <2>1 DEF VictimAssertFails, Crash, Start, EmptySaved
  <2> QED
    BY <1>2, <1>10, <2>2 DEF VictimAssertFails, OriginInv, Sharing
<1>11. CASE GrantUnique
  <2>1. \A w \in granted' : w.tag = NoTag /\ w.addr = NONE
    BY <1>2, <1>11 DEF GrantUnique
  <2> QED
    BY <1>2, <1>11, <2>1 DEF GrantUnique, tableVars, OriginInv, Sharing
<1>12. ASSUME NEW new \in StoreChunks, GrantCopied(new)
       PROVE  OriginInv'
  <2>1. req # NoReq /\ req.bit = ORIGIN /\ req.chunk \in Chunks
    BY <1>1, <1>2, <1>12, RequestTypes DEF GrantCopied
  <2>2. \A w \in granted' : w.tag = NoTag /\ w.addr = NONE
    BY <1>2, <1>12, <2>1 DEF GrantCopied
  <2>3. /\ exc' = [exc EXCEPT ![req.chunk] = AddException(req.chunk, req.bit, new)]
        /\ snapmask' = snapmask /\ req' = NoReq
    BY <1>12 DEF GrantCopied, tableVars
  <2>4. Sharing(AddException(req.chunk, req.bit, new)) \subseteq snapmask
    BY <1>2, <2>1 DEF AddException, Sharing
  <2>5. ASSUME NEW c \in Chunks
        PROVE  Sharing(exc'[c]) \subseteq snapmask'
    <3>1. exc'[c] = IF c = req.chunk THEN AddException(req.chunk, req.bit, new) ELSE exc[c]
      BY <1>1, <2>1, <2>3 DEF TreeInv
    <3> QED
      BY <1>2, <2>3, <2>4, <3>1 DEF Sharing
  <2> QED
    BY <2>2, <2>3, <2>5 DEF OriginInv, Sharing
<1>13. ASSUME NEW w \in granted, Land(w)
       PROVE  OriginInv'
  <2>1. granted' \subseteq granted /\ exc' = exc /\ req' = req /\ snapmask' = snapmask
    BY <1>13 DEF Land, tableVars
  <2> QED
    BY <1>2, <2>1 DEF OriginInv, Sharing
<1>14. ASSUME NEW t \in Tags, CreateSnapshot(t)
       PROVE  OriginInv'
  <2>1. PICK bits : DeleteTreeRange(bits) /\ snapmask \ bits \subseteq snapmask'
    BY <1>1, <1>14, CreateMask
  <2> QED
    BY <1>4, <1>14, <2>1 DEF CreateSnapshot
<1>15. ASSUME NEW t \in Tags, DeleteSnapshot(t)
       PROVE  OriginInv'
  BY <1>5, <1>15 DEF DeleteSnapshot
<1>16. \A c \in Clients, t \in Tags : ConnectClient(c, t) =>
          UNCHANGED <<exc, req, granted>> /\ snapmask' = snapmask
  BY DEF ConnectClient, Identify, storeVars
<1>17. \A c \in Clients : DisconnectClient(c) =>
          UNCHANGED <<exc, req, granted>> /\ snapmask' = snapmask
  BY DEF DisconnectClient, Disconnect, storeVars
<1>18. \A t \in Tags, d \in {-1, 1} : HoldSnapshot(t, d) =>
          UNCHANGED <<exc, req, granted>> /\ snapmask' = snapmask
  BY DEF HoldSnapshot, AddUseCount, storeVars
<1>19. \A t \in Tags, p \in Prios : PrioritizeSnapshot(t, p) =>
          UNCHANGED <<exc, req, granted>> /\ snapmask' = snapmask
  BY DEF PrioritizeSnapshot, SetPriority, storeVars
<1>20. RestartServer \/ UNCHANGED vars =>
          UNCHANGED <<exc, req, granted>> /\ snapmask' = snapmask
  BY <1>1 DEF RestartServer, ShutDown, Start, vars, tableVars, storeVars
<1> QED
  BY <1>3, <1>6, <1>7, <1>8, <1>9, <1>10, <1>11, <1>12, <1>13, <1>14, <1>15,
     <1>16, <1>17, <1>18, <1>19, <1>20 DEF Next, ServerStep

-----------------------------------------------------------------------------
(* Steps that add no snapshot. *)

\* No snapshot comes, and the bits that remain find what they found.
NoneComes ==
    /\ UNCHANGED <<org, store, granted>>
    /\ \A c \in Chunks, b \in Bit \intersect snapmask' : Lookup(c, b)' = Lookup(c, b)
    /\ \A t, b : b \in Bit /\ <<t, b>> \in Pairs(snaps') => <<t, b>> \in Pairs(snaps)

\* The snapshots that remain show what they showed.
LEMMA Survivors ==
    ASSUME SInv, SInv', NoneComes
    PROVE  /\ Live' \subseteq Live
           /\ \A t \in Live' : Views'[t] = Views[t] /\ Unsettled'[t] = Unsettled[t]
           /\ Writes' = Writes
<1>1. PairsFact /\ PairsFact' /\ DataInv
  BY PairsHold, PairsHoldAfter DEF SInv
<1>2. UNCHANGED <<org, store, granted>>
  BY DEF NoneComes
<1>3. ASSUME NEW t \in Live'
      PROVE  t \in Live /\ Views'[t] = Views[t] /\ Unsettled'[t] = Unsettled[t]
  <2>1. PICK b : b = BitOf(t)'
    OBVIOUS
  <2>2. b \in Bit /\ b \in snapmask' /\ <<t, b>> \in Pairs(snaps')
    BY <1>1, <2>1 DEF PairsFact, Pairs
  <2>3. <<t, b>> \in Pairs(snaps) /\ \A c \in Chunks : Lookup(c, b)' = Lookup(c, b)
    BY <2>2 DEF NoneComes
  <2>4. t \in Live /\ BitOf(t) = b
    BY <1>1, <2>2, <2>3 DEF PairsFact
  <2> QED
    BY <1>1, <1>2, <2>1, <2>3, <2>4, SameView
<1>4. Writes' = Writes
  BY <1>2 DEF Writes
<1> QED
  BY <1>3, <1>4

\* All remain: the volume does not change.
LEMMA StutterMaps ==
    ASSUME SInv, SInv', NoneComes, Live \subseteq Live'
    PROVE  UNCHANGED Volume!vars
<1>1. /\ Live' = Live
      /\ \A t \in Live' : Views'[t] = Views[t] /\ Unsettled'[t] = Unsettled[t]
      /\ Writes' = Writes
  BY Survivors
<1>2. org' = org
  BY DEF NoneComes
<1>3. Views' = Views
  <2>1. /\ Views' = [t \in Live' |-> Views'[t]]
        /\ Views = [t \in Live |-> Views[t]]
    BY DEF Views
  <2> QED
    BY <1>1, <2>1
<1>4. Unsettled' = Unsettled
  <2>1. /\ Unsettled' = [t \in Live' |-> Unsettled'[t]]
        /\ Unsettled = [t \in Live |-> Unsettled[t]]
    BY DEF Unsettled
  <2> QED
    BY <1>1, <2>1
<1> QED
  BY <1>1, <1>2, <1>3, <1>4 DEF Volume!vars

\* One goes.
LEMMA DropMaps ==
    ASSUME SInv, SInv', NoneComes, NEW g \in Tags, Live' = Live \ {g}
    PROVE  Volume!Drop(g) \/ UNCHANGED Volume!vars
<1>1. /\ \A t \in Live' : Views'[t] = Views[t] /\ Unsettled'[t] = Unsettled[t]
      /\ Writes' = Writes
  BY Survivors
<1>2. org' = org
  BY DEF NoneComes
<1>3. CASE g \notin Live
  BY <1>3, StutterMaps
<1>4. CASE g \in Live
  <2>1. DOMAIN Views = Live
    BY DEF Views
  <2>2. Views' = [s \in Live \ {g} |-> Views[s]]
    <3>1. Views' = [t \in Live' |-> Views'[t]]
      BY DEF Views
    <3> QED
      BY <1>1, <3>1
  <2>3. Unsettled' = [s \in Live \ {g} |-> Unsettled[s]]
    <3>1. Unsettled' = [t \in Live' |-> Unsettled'[t]]
      BY DEF Unsettled
    <3> QED
      BY <1>1, <3>1
  <2> QED
    BY <1>1, <1>2, <1>4, <2>1, <2>2, <2>3 DEF Volume!Drop
<1> QED
  BY <1>3, <1>4

\* Neither the tree nor the names and bits change: the volume does not either.
LEMMA QuietMaps ==
    ASSUME SInv, SInv', UNCHANGED <<exc, org, store, granted>>, Pairs(snaps') = Pairs(snaps)
    PROVE  UNCHANGED Volume!vars
<1>1. PairsFact /\ PairsFact'
  BY PairsHold, PairsHoldAfter DEF SInv
<1>2. NoneComes
  <2>1. \A c \in Chunks, b \in Bit : Lookup(c, b)' = Lookup(c, b)
    BY DEF Lookup
  <2> QED
    BY <2>1 DEF NoneComes
<1>3. Live \subseteq Live'
  BY <1>1 DEF PairsFact
<1> QED
  BY <1>2, <1>3, StutterMaps

\* A deletion or a squash of entry i.
LEMMA RemovalMaps ==
    ASSUME NONE \notin StoreChunks, SInv, SInv', UNCHANGED <<org, store, granted>>,
           NEW bits, DeleteTreeRange(bits), bits \intersect snapmask' = {},
           NEW g, NEW b0, <<g, b0>> \in Pairs(snaps),
           \/ Pairs(snaps') = Pairs(snaps) \ {<<g, b0>>}
           \/ Pairs(snaps') = (Pairs(snaps) \ {<<g, b0>>}) \union {<<g, SQUASHED>>}
    PROVE  \/ \E t \in Tags : Volume!Drop(t)
           \/ UNCHANGED Volume!vars
<1>1. PairsFact /\ PairsFact' /\ TreeInv /\ TreeInv'
  BY PairsHold, PairsHoldAfter DEF SInv
<1>2. SQUASHED \notin Bit
  BY TableAssumption DEF SQUASHED, Bit
<1>3. NoneComes
  <2>1. \A c \in Chunks, b \in Bit \intersect snapmask' : Lookup(c, b)' = Lookup(c, b)
    BY <1>1, DeleteKeepsLookup
  <2>2. \A t, b : b \in Bit /\ <<t, b>> \in Pairs(snaps') => <<t, b>> \in Pairs(snaps)
    BY <1>2
  <2> QED
    BY <2>1, <2>2 DEF NoneComes
<1>4. g \in Tags
  BY <1>1 DEF PairsFact
<1>5. Live' = Live \ {g}
  <2>1. ASSUME NEW t \in Live'
        PROVE  t \in Live /\ t # g
    <3>1. <<t, BitOf(t)'>> \in Pairs(snaps') /\ BitOf(t)' \in Bit
      BY <1>1 DEF PairsFact
    <3>2. PICK b : b = BitOf(t)'
      OBVIOUS
    <3>3. <<t, b>> \in Pairs(snaps) /\ b \in Bit /\ <<t, b>> # <<g, b0>>
      BY <1>2, <3>1, <3>2
    <3>4. t \in Live /\ BitOf(t) = b
      BY <1>1, <3>3 DEF PairsFact
    <3>5. t = g => BitOf(t) = b0
      BY <1>1 DEF PairsFact
    <3> QED
      BY <3>3, <3>4, <3>5
  <2>2. ASSUME NEW t \in Live, t # g
        PROVE  t \in Live'
    <3>1. <<t, BitOf(t)>> \in Pairs(snaps) /\ BitOf(t) \in Bit
      BY <1>1 DEF PairsFact
    <3>2. PICK b : b = BitOf(t)
      OBVIOUS
    <3>3. <<t, b>> \in Pairs(snaps') /\ b \in Bit
      BY <2>2, <3>1, <3>2
    <3> QED
      BY <1>1, <3>3 DEF PairsFact
  <2> QED
    BY <2>1, <2>2
<1> QED
  BY <1>3, <1>4, <1>5, DropMaps

\* delete_snap of entry i, with the bits that leave the mask.
LEMMA DeletedEntry ==
    ASSUME IInv, NEW i \in DOMAIN snaps, DeleteSnap(i) \/ Squash(i)
    PROVE  LET g == snaps[i].tag
               b0 == snaps[i].bit
           IN  /\ <<g, b0>> \in Pairs(snaps)
               /\ \/ Pairs(snaps') = Pairs(snaps) \ {<<g, b0>>}
                  \/ Pairs(snaps') = (Pairs(snaps) \ {<<g, b0>>}) \union {<<g, SQUASHED>>}
<1>1. snaps \in Seq(Snapshot) /\ DistinctEntries(snaps)
  BY DEF IInv, ListInv
<1>2. <<snaps[i].tag, snaps[i].bit>> \in Pairs(snaps)
  BY DEF Pairs
<1>3. CASE DeleteSnap(i)
  BY <1>1, <1>2, <1>3, PairsRemove DEF DeleteSnap
<1>4. CASE Squash(i)
  BY <1>1, <1>2, <1>4, PairsSquash DEF Squash
<1> QED
  BY <1>3, <1>4

\* EnsureFreeChunks and DeleteSnapshot.
LEMMA PurgeMaps ==
    ASSUME NONE \notin StoreChunks, SInv, SInv', UNCHANGED <<org, store, granted>>,
           PurgeDropped, NEW i \in DOMAIN snaps, DeleteSnap(i) \/ Squash(i)
    PROVE  (\E t \in Tags : Volume!Drop(t)) \/ UNCHANGED Volume!vars
<1>1. PICK bits : bits = snapmask \ snapmask'
  OBVIOUS
<1>2. DeleteTreeRange(bits) /\ bits \intersect snapmask' = {}
  BY <1>1 DEF PurgeDropped
<1>3. PICK g, b0 : g = snaps[i].tag /\ b0 = snaps[i].bit
  OBVIOUS
<1>4. /\ <<g, b0>> \in Pairs(snaps)
      /\ \/ Pairs(snaps') = Pairs(snaps) \ {<<g, b0>>}
         \/ Pairs(snaps') = (Pairs(snaps) \ {<<g, b0>>}) \union {<<g, SQUASHED>>}
  BY <1>3, DeletedEntry DEF SInv
<1> QED
  BY <1>2, <1>4, RemovalMaps

-----------------------------------------------------------------------------
(* A snapshot is created. *)

\* Two snapshots do not have the same bit.
LEMMA PairsDistinct ==
    ASSUME IInv, NEW s, NEW t, NEW b \in Bit,
           <<s, b>> \in Pairs(snaps), <<t, b>> \in Pairs(snaps)
    PROVE  s = t
<1>1. DistinctEntries(snaps)
  BY DEF IInv, ListInv
<1>2. PICK i \in DOMAIN snaps : snaps[i].tag = s /\ snaps[i].bit = b
  BY DEF Pairs
<1>3. PICK j \in DOMAIN snaps : snaps[j].tag = t /\ snaps[j].bit = b
  BY DEF Pairs
<1>4. b # SQUASHED
  BY TableAssumption DEF SQUASHED, Bit
<1> QED
  BY <1>1, <1>2, <1>3, <1>4 DEF DistinctEntries, Squashed

\* The same after a step.
LEMMA PairsDistinctAfter ==
    ASSUME IInv', NEW s, NEW t, NEW b \in Bit,
           <<s, b>> \in Pairs(snaps'), <<t, b>> \in Pairs(snaps')
    PROVE  s = t
<1>1. DistinctEntries(snaps')
  BY DEF IInv, ListInv
<1>2. PICK i \in DOMAIN snaps' : snaps'[i].tag = s /\ snaps'[i].bit = b
  BY DEF Pairs
<1>3. PICK j \in DOMAIN snaps' : snaps'[j].tag = t /\ snaps'[j].bit = b
  BY DEF Pairs
<1>4. b # SQUASHED
  BY TableAssumption DEF SQUASHED, Bit
<1> QED
  BY <1>1, <1>2, <1>3, <1>4 DEF DistinctEntries, Squashed

\* A grant as the volume sees it.
AsWrite(w) == [tag |-> w.tag, chunk |-> w.chunk, data |-> w.data]

\* The chunks with a write to the origin in flight, as the volume counts them.
LEMMA InFlightOf ==
    ASSUME NEW grants
    PROVE  Volume!InFlight({AsWrite(w) : w \in grants})
              = {w.chunk : w \in {x \in grants : x.tag = NoTag}}
<1> DEFINE writes == {AsWrite(w) : w \in grants}
           flying == {w.chunk : w \in {x \in grants : x.tag = NoTag}}
<1>1. \A w \in grants : AsWrite(w).tag = w.tag /\ AsWrite(w).chunk = w.chunk
  BY DEF AsWrite
<1>2. Volume!InFlight(writes) = {v.chunk : v \in {x \in writes : x.tag = NoTag}}
  BY DEF Volume!InFlight
<1>3. ASSUME NEW c \in flying
      PROVE  c \in Volume!InFlight(writes)
  <2>1. PICK w \in grants : w.tag = NoTag /\ w.chunk = c
    OBVIOUS
  <2>2. AsWrite(w) \in writes
    OBVIOUS
  <2> QED
    BY <1>1, <1>2, <2>1, <2>2
<1>4. ASSUME NEW c \in Volume!InFlight(writes)
      PROVE  c \in flying
  <2>1. PICK v \in writes : v.tag = NoTag /\ v.chunk = c
    BY <1>2
  <2>2. PICK w \in grants : v = AsWrite(w)
    OBVIOUS
  <2> QED
    BY <1>1, <2>1, <2>2
<1> QED
  BY <1>3, <1>4

\* The same of the writes in flight, before and after a step.
LEMMA InFlightIs ==
    /\ Volume!InFlight(Writes) = OriginInFlight
    /\ Volume!InFlight(Writes') = OriginInFlight'
<1>1. Writes = {AsWrite(x) : x \in granted} /\ Writes' = {AsWrite(x) : x \in granted'}
  BY DEF Writes, AsWrite
<1> QED
  BY <1>1, InFlightOf DEF OriginInFlight

\* The snapshot that comes with bit b reads the origin, and the snapshots of the
\* pairs that are kept show what they showed.
LEMMA TakeMaps ==
    ASSUME NONE \notin StoreChunks, SInv, SInv', OriginInv, UNCHANGED <<org, store, granted>>,
           NEW bits, DeleteTreeRange(bits), NEW t \in Tags, NEW b \in Bit,
           b \notin snapmask \ bits, snapmask' = (snapmask \ bits) \union {b},
           NEW old \in SUBSET Pairs(snaps), Pairs(snaps') = old \union {<<t, b>>},
           \A x : <<t, x>> \notin old
    PROVE  \E u \in Tags, gone \in SUBSET DOMAIN Views : Volume!Take(u, gone)
<1>1. PairsFact /\ PairsFact' /\ TreeInv /\ TreeInv' /\ DataInv /\ IInv'
  BY PairsHold, PairsHoldAfter DEF SInv
<1>2. PICK kept : kept = {s \in Live : \E x \in Bit : <<s, x>> \in old}
  OBVIOUS
<1>3. \A s \in kept : s \in Live /\ s # t /\ <<s, BitOf(s)>> \in old
  BY <1>1, <1>2 DEF PairsFact
<1>4. t \in Live' /\ BitOf(t)' = b
  BY <1>1 DEF PairsFact
<1>5. Live' = kept \union {t}
  <2>1. ASSUME NEW s \in kept
        PROVE  s \in Live'
    <3>1. PICK x \in Bit : <<s, x>> \in old
      BY <1>2
    <3> QED
      BY <1>1, <3>1 DEF PairsFact
  <2>2. ASSUME NEW s \in Live', s # t
        PROVE  s \in kept
    <3>1. <<s, BitOf(s)'>> \in Pairs(snaps') /\ BitOf(s)' \in Bit
      BY <1>1 DEF PairsFact
    <3>2. PICK x : x = BitOf(s)'
      OBVIOUS
    <3>3. <<s, x>> \in old /\ x \in Bit
      BY <2>2, <3>1, <3>2
    <3>4. s \in Live
      BY <1>1, <3>3 DEF PairsFact
    <3> QED
      BY <1>2, <3>3, <3>4
  <2> QED
    BY <1>4, <2>1, <2>2
<1>6. ASSUME NEW s \in kept
      PROVE  Views'[s] = Views[s] /\ Unsettled'[s] = Unsettled[s]
  <2>1. PICK x : x = BitOf(s)
    OBVIOUS
  <2>2. /\ <<s, x>> \in old /\ <<s, x>> \in Pairs(snaps')
        /\ x \in Bit /\ x \in snapmask
    BY <1>1, <1>3, <2>1 DEF PairsFact
  <2>3. s \in Live' /\ BitOf(s)' = x /\ x \in snapmask'
    BY <1>1, <2>2 DEF PairsFact
  <2>4. x # b
    BY <1>1, <1>3, <2>2, PairsDistinctAfter
  <2>5. \A c \in Chunks : Lookup(c, x)' = Lookup(c, x)
    BY <1>1, <2>2, <2>3, <2>4, DeleteKeepsLookup
  <2> QED
    BY <1>1, <1>3, <2>1, <2>3, <2>5, SameView
<1>7. Views'[t] = org /\ Unsettled'[t] = Volume!InFlight(Writes)
  <2>1. \A c \in Chunks : Sharing(exc'[c]) \subseteq snapmask \ bits
    BY <1>1, DeleteSharing DEF OriginInv
  <2>2. \A c \in Chunks : Lookup(c, b)' = NONE
    BY <1>1, <2>1, LookupHoldsAfter DEF LookupFact
  <2>3. /\ Views'[t] = [c \in Chunks |->
               IF Lookup(c, b)' = NONE THEN org'[c] ELSE store'[Lookup(c, b)']]
        /\ Unsettled'[t] = {c \in OriginInFlight' : Lookup(c, b)' = NONE}
    BY <1>4, ViewAfter
  <2>4. Views'[t] = [c \in Chunks |-> org[c]]
    BY <2>2, <2>3
  <2>5. org = [c \in Chunks |-> org[c]]
    BY <1>1 DEF DataInv
  <2>6. OriginInFlight' = OriginInFlight /\ OriginInFlight \subseteq Chunks
    BY <1>1 DEF OriginInFlight, DataInv, Grant
  <2> QED
    BY <2>2, <2>3, <2>4, <2>5, <2>6, InFlightIs
<1>8. PICK gone : gone = Live \ kept
  OBVIOUS
<1>9. DOMAIN Views = Live /\ Live \ gone = kept /\ gone \subseteq Live
  BY <1>3, <1>8 DEF Views
<1>10. Views' = [s \in kept \union {t} |-> IF s = t THEN org ELSE Views[s]]
  <2>1. Views' = [s \in Live' |-> Views'[s]]
    BY DEF Views
  <2> QED
    BY <1>5, <1>6, <1>7, <2>1
<1>11. Unsettled' = [s \in kept \union {t} |->
                        IF s = t THEN Volume!InFlight(Writes) ELSE Unsettled[s]]
  <2>1. Unsettled' = [s \in Live' |-> Unsettled'[s]]
    BY DEF Unsettled
  <2> QED
    BY <1>5, <1>6, <1>7, <2>1
<1>12. Writes' = Writes
  BY DEF Writes
<1>13. Volume!Take(t, gone)
  BY <1>3, <1>9, <1>10, <1>11, <1>12 DEF Volume!Take
<1> QED
  BY <1>9, <1>13

\* create_snapshot takes a snapshot, and the one that makes room for it is
\* dropped in the same step; when the name exists only the drop remains.
LEMMA CreateMaps ==
    ASSUME NONE \notin StoreChunks, SInv, SInv', OriginInv, NEW t \in Tags, CreateSnapshot(t)
    PROVE  Volume!Next \/ UNCHANGED Volume!vars
<1>1. /\ snaps \in Seq(Snapshot) /\ DistinctEntries(snaps)
      /\ Len(snaps) \in Nat
  BY DEF SInv, IInv, ListInv
<1>2. UNCHANGED <<org, store, granted>>
  BY DEF CreateSnapshot
<1>3. SUFFICES \/ \E u \in Tags, gone \in SUBSET DOMAIN Views : Volume!Take(u, gone)
               \/ \E u \in Tags : Volume!Drop(u)
               \/ UNCHANGED Volume!vars
  BY DEF Volume!Next
<1>4. PICK bits : bits = IF Len(snaps) < MaxSnapshots THEN {} ELSE BitsOf(snaps[FindUnused])
  OBVIOUS
<1>5. DeleteTreeRange(bits) /\ Create(t)
  BY <1>4 DEF CreateSnapshot
<1>6. CASE CreateWithRoom(t)
  <2>1. bits = {} /\ t \notin TagsOf(snaps)
    BY <1>4, <1>6 DEF CreateWithRoom
  <2>2. PICK b \in Bit : /\ FreeBit(b)
                         /\ snaps' = Append(snaps, NewSnapshot(t, b))
                         /\ snapmask' = snapmask \union {b}
    BY <1>6 DEF CreateWithRoom
  <2>3. b \notin snapmask
    BY <2>2 DEF FreeBit
  <2>4. Pairs(snaps') = Pairs(snaps) \union {<<t, b>>}
    BY <1>1, <2>2, PairsAppend
  <2>5. \A x : <<t, x>> \notin Pairs(snaps)
    BY <2>1 DEF Pairs, TagsOf
  <2>6. b \notin snapmask \ bits /\ snapmask' = (snapmask \ bits) \union {b}
    BY <2>1, <2>2, <2>3
  <2>7. Pairs(snaps) \in SUBSET Pairs(snaps)
    OBVIOUS
  <2> QED
    BY <1>2, <1>5, <2>4, <2>5, <2>6, <2>7, TakeMaps
<1>7. CASE CreateEvicting(t)
  <2>1. Len(snaps) >= MaxSnapshots /\ bits = BitsOf(snaps[FindUnused])
    BY <1>1, <1>4, <1>7, TableAssumption DEF CreateEvicting
  <2>2. PICK i \in DOMAIN snaps :
          /\ i = FindUnused
          /\ IF t \in TagsOf(RemoveAt(snaps, i))
             THEN DeleteSnap(i)
             ELSE \E b \in Bit \ (snapmask \ BitsOf(snaps[i])) :
                     /\ snaps' = Append(RemoveAt(snaps, i), NewSnapshot(t, b))
                     /\ snapmask' = (snapmask \ BitsOf(snaps[i])) \union {b}
    BY <1>7 DEF CreateEvicting
  <2>3. bits = BitsOf(snaps[i])
    BY <2>1, <2>2
  <2>4. PICK g, b0 : g = snaps[i].tag /\ b0 = snaps[i].bit
    OBVIOUS
  <2>5. CASE t \in TagsOf(RemoveAt(snaps, i))
    <3>1. DeleteSnap(i)
      BY <2>2, <2>5
    <3>2. /\ <<g, b0>> \in Pairs(snaps)
          /\ \/ Pairs(snaps') = Pairs(snaps) \ {<<g, b0>>}
             \/ Pairs(snaps') = (Pairs(snaps) \ {<<g, b0>>}) \union {<<g, SQUASHED>>}
      BY <2>4, <3>1, DeletedEntry DEF SInv
    <3>3. bits \intersect snapmask' = {}
      BY <2>3, <3>1 DEF DeleteSnap
    <3> QED
      BY <1>2, <1>5, <3>2, <3>3, RemovalMaps
  <2>6. CASE t \notin TagsOf(RemoveAt(snaps, i))
    <3>1. PICK b \in Bit \ (snapmask \ BitsOf(snaps[i])) :
             /\ snaps' = Append(RemoveAt(snaps, i), NewSnapshot(t, b))
             /\ snapmask' = (snapmask \ BitsOf(snaps[i])) \union {b}
      BY <2>2, <2>6
    <3>2. PICK rest : rest = RemoveAt(snaps, i)
      OBVIOUS
    <3>3. rest \in Seq(Snapshot)
      BY <1>1, <3>2, RemoveAtProperties
    <3>4. Pairs(rest) = Pairs(snaps) \ {<<snaps[i].tag, snaps[i].bit>>}
      BY <1>1, <3>2, PairsRemove
    <3>5. Pairs(snaps') = Pairs(rest) \union {<<t, b>>}
      BY <3>1, <3>2, <3>3, PairsAppend
    <3>6. \A x : <<t, x>> \notin Pairs(rest)
      BY <2>6, <3>2 DEF Pairs, TagsOf
    <3>7. Pairs(rest) \in SUBSET Pairs(snaps)
      BY <3>4
    <3>8. b \in Bit /\ b \notin snapmask \ bits /\ snapmask' = (snapmask \ bits) \union {b}
      BY <2>3, <3>1
    <3> QED
      BY <1>2, <1>5, <3>5, <3>6, <3>7, <3>8, TakeMaps
  <2> QED
    BY <2>5, <2>6
<1> QED
  BY <1>5, <1>6, <1>7 DEF Create

-----------------------------------------------------------------------------
(* Writes are granted and land. *)

\* What the snapshot with bit b reads at chunk c.
Content(c, b) == IF Lookup(c, b) = NONE THEN org[c] ELSE store[Lookup(c, b)]

\* The views of the snapshots and the chunks that are not settled, by the bits.
LEMMA ViewContent ==
    /\ Views = [t \in Live |-> [c \in Chunks |-> Content(c, BitOf(t))]]
    /\ Unsettled = [t \in Live |-> {c \in OriginInFlight : Lookup(c, BitOf(t)) = NONE}]
BY DEF Views, Unsettled, Content

\* The same after a step.
LEMMA ViewContentAfter ==
    /\ Views' = [t \in Live' |-> [c \in Chunks |-> Content(c, BitOf(t))']]
    /\ Unsettled' = [t \in Live' |->
                        {c \in OriginInFlight' : Lookup(c, BitOf(t))' = NONE}]
BY DEF Views, Unsettled, Content

\* The names and bits depend on the list alone.
LEMMA SameList ==
    ASSUME snaps' = snaps
    PROVE  Live' = Live /\ \A t : BitOf(t)' = BitOf(t)
BY DEF Live, BitOf, FindSnap, Squashed

\* A granted write to the origin is settled for all snapshots: they have an
\* exception for its chunk now, and show what they showed.
LEMMA GrantMaps ==
    ASSUME SInv, UNCHANGED <<snaps, org>>, NEW g \in Grant, g.tag = NoTag,
           granted' = granted \union {g},
           \A b \in Bit \intersect snapmask :
               /\ Lookup(g.chunk, b)' # NONE
               /\ \A c \in Chunks \ {g.chunk} : Lookup(c, b)' = Lookup(c, b)
               /\ \A c \in Chunks : Content(c, b)' = Content(c, b)
    PROVE  \E w \in Volume!Write : Volume!GrantOrigin(w)
<1>1. PairsFact /\ DataInv
  BY PairsHold DEF SInv
<1>2. Live' = Live /\ \A t : BitOf(t)' = BitOf(t)
  BY SameList
<1>3. PICK w : w = AsWrite(g)
  OBVIOUS
<1>4. /\ w \in Volume!Write
      /\ w.tag = NoTag /\ w.chunk = g.chunk
  BY <1>3 DEF AsWrite, Grant, Volume!Write
<1>5. Writes' = Writes \union {w}
  <2>1. Writes = {AsWrite(x) : x \in granted} /\ Writes' = {AsWrite(x) : x \in granted'}
    BY DEF Writes, AsWrite
  <2> QED
    BY <1>3, <2>1
<1>6. OriginInFlight' = OriginInFlight \union {w.chunk}
  <2>1. OriginInFlight' = {x.chunk : x \in {y \in granted' : y.tag = NoTag}}
    BY DEF OriginInFlight
  <2> QED
    BY <1>4, <2>1 DEF OriginInFlight
<1>7. OriginInFlight \subseteq Chunks
  BY <1>1 DEF OriginInFlight, DataInv, Grant
<1>8. ASSUME NEW t \in Live
      PROVE  \E b \in Bit \intersect snapmask : b = BitOf(t) /\ b = BitOf(t)'
  BY <1>1, <1>2, <1>8 DEF PairsFact
<1>9. Views' = Views
  <2>1. ASSUME NEW t \in Live, NEW c \in Chunks
        PROVE  Content(c, BitOf(t))' = Content(c, BitOf(t))
    <3>1. PICK b \in Bit \intersect snapmask : b = BitOf(t) /\ b = BitOf(t)'
      BY <1>8
    <3>2. Content(c, b)' = Content(c, b)
      OBVIOUS
    <3> QED
      BY <3>1, <3>2 DEF Content, Lookup
  <2> QED
    BY <1>2, <2>1, ViewContent, ViewContentAfter
<1>10. Unsettled' = [s \in Live |-> Unsettled[s] \ {w.chunk}]
  <2>1. ASSUME NEW t \in Live
        PROVE  {c \in OriginInFlight' : Lookup(c, BitOf(t))' = NONE}
                  = {c \in OriginInFlight : Lookup(c, BitOf(t)) = NONE} \ {w.chunk}
    <3>1. PICK b \in Bit \intersect snapmask : b = BitOf(t) /\ b = BitOf(t)'
      BY <1>8
    <3>2. /\ Lookup(w.chunk, b)' # NONE
          /\ \A c \in Chunks \ {w.chunk} : Lookup(c, b)' = Lookup(c, b)
      BY <1>4
    <3>3. {c \in OriginInFlight' : Lookup(c, b)' = NONE}
             = {c \in OriginInFlight : Lookup(c, b) = NONE} \ {w.chunk}
      BY <1>6, <1>7, <3>2
    <3> QED
      BY <3>1, <3>3 DEF Lookup
  <2> QED
    BY <1>2, <2>1, ViewContent, ViewContentAfter
<1>11. DOMAIN Views = Live
  BY DEF Views
<1>12. Volume!GrantOrigin(w)
  BY <1>4, <1>5, <1>9, <1>10, <1>11 DEF Volume!GrantOrigin
<1> QED
  BY <1>4, <1>12

\* make_unique finds an exception of the chunk for every snapshot.
LEMMA GrantUniqueMaps ==
    ASSUME NONE \notin StoreChunks, SInv, OriginInv, GrantUnique
    PROVE  \E w \in Volume!Write : Volume!GrantOrigin(w)
<1>1. /\ TreeInv /\ DataInv
      /\ req # NoReq /\ req.bit = ORIGIN /\ req.tag = NoTag
      /\ req.chunk \in Chunks /\ req.data \in Data
  BY RequestTypes DEF GrantUnique, SInv, OriginInv
<1>2. PICK g : g = [tag |-> req.tag, chunk |-> req.chunk, data |-> req.data, addr |-> NONE]
  OBVIOUS
<1>3. /\ g \in Grant /\ g.tag = NoTag /\ g.chunk = req.chunk
      /\ granted' = granted \union {g}
  BY <1>1, <1>2 DEF GrantUnique, Grant
<1>4. UNCHANGED <<snaps, org, exc, store>>
  BY DEF GrantUnique, tableVars
<1>5. snapmask \subseteq Sharing(exc[req.chunk])
  BY <1>1 DEF GrantUnique, Unique, OriginChunkUnique
<1>6. \A c \in Chunks, b \in Bit : /\ Lookup(c, b)' = Lookup(c, b)
                                   /\ Content(c, b)' = Content(c, b)
  BY <1>4 DEF Lookup, Content
<1>7. \A b \in Bit \intersect snapmask : Lookup(req.chunk, b) # NONE
  BY <1>1, <1>5, LookupHolds DEF LookupFact
<1> QED
  BY <1>1, <1>3, <1>4, <1>6, <1>7, GrantMaps

\* make_unique copies the chunk for the snapshots that had no exception of it.
LEMMA GrantCopiedMaps ==
    ASSUME NONE \notin StoreChunks, SInv, SInv', OriginInv,
           NEW new \in StoreChunks, GrantCopied(new)
    PROVE  \E w \in Volume!Write : Volume!GrantOrigin(w)
<1>1. /\ TreeInv /\ TreeInv' /\ DataInv
      /\ req # NoReq /\ req.bit = ORIGIN /\ req.tag = NoTag
      /\ req.chunk \in Chunks /\ req.data \in Data
  BY RequestTypes DEF GrantCopied, SInv, OriginInv
<1>2. PICK g : g = [tag |-> req.tag, chunk |-> req.chunk, data |-> req.data, addr |-> NONE]
  OBVIOUS
<1>3. /\ g \in Grant /\ g.tag = NoTag /\ g.chunk = req.chunk
      /\ granted' = granted \union {g}
  BY <1>1, <1>2 DEF GrantCopied, Grant
<1>4. /\ snaps' = snaps /\ org' = org
      /\ new \in free /\ new # NONE
  BY DEF GrantCopied, tableVars
<1>5. store' = [store EXCEPT ![new] = org[req.chunk]]
  BY <1>1 DEF GrantCopied, Source
<1>6. PICK k : k = req.chunk
  OBVIOUS
<1>7. PICK added : added = [share |-> snapmask \ Sharing(exc[k]), chunk |-> new]
  OBVIOUS
<1>8. exc' = [exc EXCEPT ![k] = exc[k] \union {added}]
  BY <1>1, <1>6, <1>7 DEF GrantCopied, AddException
<1>9. /\ exc'[k] = exc[k] \union {added}
      /\ \A c \in Chunks \ {k} : exc'[c] = exc[c]
  BY <1>1, <1>6, <1>8 DEF TreeInv
<1>10. ASSUME NEW b \in Bit \intersect snapmask, NEW c \in Chunks
       PROVE  /\ c = k /\ Lookup(c, b) = NONE =>
                    Lookup(c, b)' = new /\ Content(c, b)' = Content(c, b)
              /\ ~(c = k /\ Lookup(c, b) = NONE) =>
                    Lookup(c, b)' = Lookup(c, b) /\ Content(c, b)' = Content(c, b)
  <2>1. CASE c = k /\ Lookup(c, b) = NONE
    <3>1. b \notin Sharing(exc[k])
      BY <1>1, <2>1, LookupHolds DEF LookupFact
    <3>2. added \in exc'[c] /\ b \in added.share /\ added.chunk = new
      BY <1>7, <1>9, <2>1, <3>1
    <3>3. Lookup(c, b)' = new
      BY <1>1, <3>2, LookupIsAfter
    <3>4. store'[new] = org[k]
      BY <1>1, <1>5, <1>6 DEF DataInv
    <3> QED
      BY <1>4, <2>1, <3>3, <3>4 DEF Content
  <2>2. CASE Lookup(c, b) # NONE
    <3>1. b \in Sharing(exc[c])
      BY <1>1, <2>2, LookupHolds DEF LookupFact
    <3>2. PICK e \in exc[c] : b \in e.share
      BY <3>1 DEF Sharing
    <3>3. Lookup(c, b) = e.chunk /\ e.chunk # new
      BY <1>1, <1>4, <3>2, LookupIs DEF TreeInv
    <3>4. e \in exc'[c]
      BY <1>9, <3>2
    <3>5. Lookup(c, b)' = e.chunk
      BY <1>1, <3>2, <3>4, LookupIsAfter
    <3>6. e.chunk \in StoreChunks
      BY <1>1, <3>2 DEF TreeInv, Exception
    <3>7. store'[e.chunk] = store[e.chunk]
      BY <1>1, <1>5, <3>3, <3>6 DEF DataInv
    <3>8. Content(c, b)' = Content(c, b)
      BY <2>2, <3>3, <3>5, <3>7 DEF Content
    <3> QED
      BY <2>2, <3>3, <3>5, <3>8
  <2>3. CASE c # k /\ Lookup(c, b) = NONE
    <3>1. Lookup(c, b)' = NONE
      BY <1>9, <2>3 DEF Lookup
    <3>2. Content(c, b)' = Content(c, b)
      BY <1>4, <2>3, <3>1 DEF Content
    <3> QED
      BY <2>3, <3>1, <3>2
  <2> QED
    BY <2>1, <2>2, <2>3
<1> QED
  BY <1>1, <1>3, <1>4, <1>6, <1>10, GrantMaps

\* A write lands on the origin. The snapshots that have no exception of its
\* chunk were taken while it was in flight, and show it.
LEMMA LandMaps ==
    ASSUME SInv, OriginInv, NEW g \in granted, Land(g)
    PROVE  \E w \in Writes : Volume!LandOrigin(w)
<1>1. PairsFact /\ DataInv
  BY PairsHold DEF SInv
<1>2. /\ g \in Grant /\ g.tag = NoTag /\ g.addr = NONE
      /\ g.chunk \in Chunks /\ g.data \in Data
  BY <1>1 DEF DataInv, OriginInv, Grant
<1>3. /\ snaps' = snaps /\ store' = store /\ exc' = exc
      /\ granted' = granted \ {g}
      /\ org' = [org EXCEPT ![g.chunk] = g.data]
  BY <1>2 DEF Land, tableVars
<1>4. Live' = Live /\ \A t : BitOf(t)' = BitOf(t)
  BY <1>3, SameList
<1>5. PICK w : w = AsWrite(g)
  OBVIOUS
<1>6. w.tag = NoTag /\ w.chunk = g.chunk /\ w.data = g.data
  BY <1>2, <1>5 DEF AsWrite
<1>7. Writes = {AsWrite(x) : x \in granted} /\ Writes' = {AsWrite(x) : x \in granted'}
  BY DEF Writes, AsWrite
<1>8. w \in Writes
  BY <1>5, <1>7
<1>9. Writes' = Writes \ {w}
  <2>1. ASSUME NEW x \in granted, AsWrite(x) = w
        PROVE  x = g
    <3>1. x \in Grant /\ x.tag = NoTag /\ x.addr = NONE
      BY <1>1 DEF DataInv, OriginInv
    <3>2. x.chunk = g.chunk /\ x.data = g.data
      BY <1>6, <2>1 DEF AsWrite
    <3> QED
      BY <1>2, <3>1, <3>2 DEF Grant
  <2> QED
    BY <1>3, <1>5, <1>7, <2>1
<1>10. OriginInFlight' \subseteq OriginInFlight /\ g.chunk \in OriginInFlight
  BY <1>2, <1>3 DEF OriginInFlight
<1>11. \A c, b : Lookup(c, b)' = Lookup(c, b)
  BY <1>3 DEF Lookup
<1>12. Views' = [s \in Live |-> IF w.chunk \in Unsettled[s]
                                THEN [Views[s] EXCEPT ![w.chunk] = w.data]
                                ELSE Views[s]]
  <2>1. ASSUME NEW s \in Live
        PROVE  [c \in Chunks |-> Content(c, BitOf(s))']
                  = IF w.chunk \in Unsettled[s]
                    THEN [Views[s] EXCEPT ![w.chunk] = w.data]
                    ELSE Views[s]
    <3>1. PICK b : b = BitOf(s) /\ b = BitOf(s)'
      BY <1>4
    <3>2. Views[s] = [c \in Chunks |-> Content(c, b)]
      BY <3>1, ViewContent
    <3>3. w.chunk \in Unsettled[s] <=> Lookup(w.chunk, b) = NONE
      BY <1>6, <1>10, <3>1, ViewContent
    <3>4. \A c \in Chunks \ {w.chunk} : Content(c, b)' = Content(c, b)
      BY <1>1, <1>3, <1>6, <1>11 DEF Content, DataInv
    <3>5. Lookup(w.chunk, b) = NONE => Content(w.chunk, b)' = w.data
      BY <1>1, <1>2, <1>3, <1>6, <1>11 DEF Content, DataInv
    <3>6. Lookup(w.chunk, b) # NONE => Content(w.chunk, b)' = Content(w.chunk, b)
      BY <1>3, <1>11 DEF Content
    <3>7. [c \in Chunks |-> Content(c, b)']
             = IF w.chunk \in Unsettled[s]
               THEN [Views[s] EXCEPT ![w.chunk] = w.data]
               ELSE Views[s]
      BY <1>2, <1>6, <3>2, <3>3, <3>4, <3>5, <3>6
    <3>8. [c \in Chunks |-> Content(c, BitOf(s))'] = [c \in Chunks |-> Content(c, b)']
      BY <3>1 DEF Content, Lookup
    <3> QED
      BY <3>7, <3>8
  <2> QED
    BY <1>4, <2>1, ViewContentAfter
<1>13. Unsettled' = [s \in Live |-> Unsettled[s] \intersect OriginInFlight']
  <2>1. ASSUME NEW s \in Live
        PROVE  {c \in OriginInFlight' : Lookup(c, BitOf(s))' = NONE}
                  = Unsettled[s] \intersect OriginInFlight'
    <3>1. PICK b : b = BitOf(s) /\ b = BitOf(s)'
      BY <1>4
    <3>2. Unsettled[s] = {c \in OriginInFlight : Lookup(c, b) = NONE}
      BY <3>1, ViewContent
    <3>3. {c \in OriginInFlight' : Lookup(c, b)' = NONE}
             = Unsettled[s] \intersect OriginInFlight'
      BY <1>10, <1>11, <3>2
    <3> QED
      BY <3>1, <3>3 DEF Lookup
  <2> QED
    BY <1>4, <2>1, ViewContentAfter
<1>14. Volume!InFlight(Writes') = OriginInFlight'
  BY InFlightIs
<1>15. DOMAIN Views = Live
  BY DEF Views
<1>16. Volume!LandOrigin(w)
  BY <1>3, <1>6, <1>8, <1>9, <1>12, <1>13, <1>14, <1>15 DEF Volume!LandOrigin
<1> QED
  BY <1>8, <1>16

-----------------------------------------------------------------------------
(* The refinement. *)

\* The store starts as a volume without snapshots.
LEMMA InitMaps == Init => Volume!Init
<1> SUFFICES ASSUME Init
             PROVE  Volume!Init
  OBVIOUS
<1>1. snaps = <<>> /\ granted = {} /\ org \in [Chunks -> Data]
  BY DEF Init, TableInit
<1>2. Live = {}
  BY <1>1 DEF Live
<1>3. Views = <<>> /\ Unsettled = <<>>
  BY <1>2 DEF Views, Unsettled
<1>4. Writes = {}
  BY <1>1 DEF Writes
<1> QED
  BY <1>1, <1>3, <1>4 DEF Volume!Init

\* Every step of the store is a step of the volume or none.
LEMMA StepMaps ==
    ASSUME WritableTags = {}, NONE \notin StoreChunks,
           SInv, SInv', OriginInv, [Next]_vars
    PROVE  Volume!Next \/ UNCHANGED Volume!vars
<1>1. /\ snaps \in Seq(Snapshot) /\ IInv
      /\ snapmask = MaskOf(snaps)
  BY DEF SInv, IInv, ListInv
<1>2. ASSUME UNCHANGED <<exc, org, store, granted>>, Pairs(snaps') = Pairs(snaps)
      PROVE  UNCHANGED Volume!vars
  BY <1>2, QuietMaps
<1>3. \A c \in Chunks, d \in Data : QueryOriginWrite(c, d) =>
         UNCHANGED <<exc, org, store, granted>> /\ Pairs(snaps') = Pairs(snaps)
  BY DEF QueryOriginWrite, tableVars, Pairs
<1>4. \A cl \in Clients, c \in Chunks, d \in Data : ~QuerySnapshotWrite(cl, c, d)
  BY DEF QuerySnapshotWrite
<1>5. CASE EnsureFreeChunks
  <2>1. PICK i \in DOMAIN snaps : DeleteSnap(i) \/ Squash(i)
    BY <1>5 DEF EnsureFreeChunks, Release
  <2>2. PurgeDropped /\ UNCHANGED <<org, store, granted>>
    BY <1>5 DEF EnsureFreeChunks
  <2> QED
    BY <2>1, <2>2, PurgeMaps DEF Volume!Next
<1>6. WriteFails => UNCHANGED <<exc, org, store, granted>> /\ Pairs(snaps') = Pairs(snaps)
  BY DEF WriteFails, tableVars, Pairs
<1>7. VictimAssertFails =>
         UNCHANGED <<exc, org, store, granted>> /\ Pairs(snaps') = Pairs(snaps)
  BY DEF VictimAssertFails, Crash, Start, SInv, EmptySaved, Pairs
<1>8. CASE GrantUnique
  BY <1>8, GrantUniqueMaps DEF Volume!Next
<1>9. ASSUME NEW new \in StoreChunks, GrantCopied(new)
      PROVE  Volume!Next
  BY <1>9, GrantCopiedMaps DEF Volume!Next
<1>10. ASSUME NEW w \in granted, Land(w)
       PROVE  Volume!Next
  BY <1>10, LandMaps DEF Volume!Next
<1>11. ASSUME NEW t \in Tags, CreateSnapshot(t)
       PROVE  Volume!Next \/ UNCHANGED Volume!vars
  BY <1>11, CreateMaps
<1>12. ASSUME NEW t \in Tags, DeleteSnapshot(t)
       PROVE  Volume!Next \/ UNCHANGED Volume!vars
  <2>1. PICK i \in DOMAIN snaps : DeleteSnap(i)
    BY <1>12 DEF DeleteSnapshot, Delete
  <2>2. PurgeDropped /\ UNCHANGED <<org, store, granted>>
    BY <1>12 DEF DeleteSnapshot
  <2> QED
    BY <2>1, <2>2, PurgeMaps DEF Volume!Next
<1>13. \A c \in Clients, t \in Tags : ConnectClient(c, t) =>
          UNCHANGED <<exc, org, store, granted>> /\ Pairs(snaps') = Pairs(snaps)
  BY DEF ConnectClient, Identify, storeVars, Pairs
<1>14. \A c \in Clients : DisconnectClient(c) =>
          UNCHANGED <<exc, org, store, granted>> /\ Pairs(snaps') = Pairs(snaps)
  BY DEF DisconnectClient, Disconnect, storeVars, Pairs
<1>15. \A t \in Tags, d \in {-1, 1} : HoldSnapshot(t, d) =>
          UNCHANGED <<exc, org, store, granted>> /\ Pairs(snaps') = Pairs(snaps)
  <2> SUFFICES ASSUME NEW t \in Tags, NEW d \in {-1, 1}, HoldSnapshot(t, d)
               PROVE  UNCHANGED <<exc, org, store, granted>> /\ Pairs(snaps') = Pairs(snaps)
    OBVIOUS
  <2>1. /\ UNCHANGED <<exc, org, store, granted>>
        /\ snaps' = [snaps EXCEPT ![FindSnap(t)].use = @ + d]
    BY DEF HoldSnapshot, AddUseCount, storeVars
  <2>2. \A j \in DOMAIN snaps : snaps[j] \in Snapshot
    BY <1>1, EntryTypes
  <2>3. /\ DOMAIN snaps' = DOMAIN snaps
        /\ \A j \in DOMAIN snaps : snaps'[j].tag = snaps[j].tag /\ snaps'[j].bit = snaps[j].bit
    BY <2>1, <2>2 DEF Snapshot
  <2> QED
    BY <2>1, <2>3, PairsSame
<1>16. \A t \in Tags, p \in Prios : PrioritizeSnapshot(t, p) =>
          UNCHANGED <<exc, org, store, granted>> /\ Pairs(snaps') = Pairs(snaps)
  <2> SUFFICES ASSUME NEW t \in Tags, NEW p \in Prios, PrioritizeSnapshot(t, p)
               PROVE  UNCHANGED <<exc, org, store, granted>> /\ Pairs(snaps') = Pairs(snaps)
    OBVIOUS
  <2>1. /\ UNCHANGED <<exc, org, store, granted>>
        /\ snaps' = [snaps EXCEPT ![FindSnap(t)].prio = p]
    BY DEF PrioritizeSnapshot, SetPriority, storeVars
  <2>2. \A j \in DOMAIN snaps : snaps[j] \in Snapshot
    BY <1>1, EntryTypes
  <2>3. /\ DOMAIN snaps' = DOMAIN snaps
        /\ \A j \in DOMAIN snaps : snaps'[j].tag = snaps[j].tag /\ snaps'[j].bit = snaps[j].bit
    BY <2>1, <2>2 DEF Snapshot
  <2> QED
    BY <2>1, <2>3, PairsSame
<1>17. RestartServer \/ UNCHANGED vars =>
          UNCHANGED <<exc, org, store, granted>> /\ Pairs(snaps') = Pairs(snaps)
  BY DEF RestartServer, ShutDown, Start, vars, tableVars, storeVars, Pairs
<1> QED
  BY <1>2, <1>3, <1>4, <1>5, <1>6, <1>7, <1>8, <1>9, <1>10, <1>11, <1>12, <1>13,
     <1>14, <1>15, <1>16, <1>17 DEF Next, ServerStep

\* With clients that only read their snapshots, and a store whose chunk 0 is
\* not given out, the server keeps what it promises its users: every snapshot
\* reads as the origin did when it was taken, whatever is written, copied,
\* deleted, released in the middle of a write or restarted since.
THEOREM ReadOnlyImplementsVolume ==
    ASSUME WritableTags = {}, NONE \notin StoreChunks
    PROVE  Spec => ImplementsVolume
<1>1. Init => OriginInv
  BY DEF Init, TableInit, OriginInv, Sharing
<1>2. SInv /\ OriginInv /\ [Next]_vars => OriginInv'
  BY OriginStep
<1>3. SInv /\ SInv' /\ OriginInv /\ [Next]_vars => [Volume!Next]_Volume!vars
  BY StepMaps
<1> QED
  BY SInvHolds, InitMaps, <1>1, <1>2, <1>3, PTL DEF Spec, ImplementsVolume, Volume!Spec
==============================================================================
