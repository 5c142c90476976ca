--------------------------- MODULE ETreeOrderProofs ---------------------------
(***************************************************************************)
(* Proofs about the exception tree and the order of its keys, for any      *)
(* numbers of chunks, snapshots, metadata blocks and entries and for trees *)
(* of one level or two: a lookup finds what is in the leaves, a split      *)
(* makes room, a changelist is right, and the tree implements the map.     *)
(* With three levels merge_nodes breaks the order.                         *)
(*                                                                         *)
(* The lowest index nodes, one behind the other, are one list of entries.  *)
(* It is in order when the chunks of every leaf are at or above the key of *)
(* its entry and below the keys of all later ones. An insertion puts an    *)
(* entry into the list, a deletion takes one out, and the splits and       *)
(* merges of nodes only cut the list at other places. What is above is the *)
(* root: the key of each of its entries is the first of the node below.    *)
(* The list, with the place the walk of a deletion is at, also says which  *)
(* leaves the deletion has done with.                                      *)
(***************************************************************************)
EXTENDS ETreeProofs

-----------------------------------------------------------------------------
(* The lowest index nodes as one list of entries. *)

\* The m nodes rows one behind the other are the list f of n entries, where node
\* i begins at b[i].
Flat(rows, m, n, f, b) ==
    /\ m \in Nat \ {0} /\ n \in Nat /\ f \in Seq(Entry) /\ Len(f) = n
    /\ b \in [1 .. m + 1 -> 1 .. n + 1] /\ b[1] = 1 /\ b[m + 1] = n + 1
    /\ \A i \in 1 .. m : rows[i] \in Seq(Entry) /\ b[i + 1] = b[i] + Len(rows[i])
    /\ \A i \in 1 .. m : \A j \in 1 .. Len(rows[i]) : f[(b[i] + j) - 1] = rows[i][j]
    /\ \A i, k \in 1 .. m + 1 : i <= k => b[i] <= b[k]

\* The beginnings of the nodes behind node i are moved by d.
Later(b, m, i, d) == [k \in 1 .. m + 1 |-> IF k <= i THEN b[k] ELSE b[k] + d]

\* Where an entry of a node is in the list.
LEMMA FlatAt ==
    ASSUME NEW rows, NEW m, NEW n, NEW f, NEW b, Flat(rows, m, n, f, b),
           NEW i, i \in 1 .. m, NEW j, j \in 1 .. Len(rows[i])
    PROVE  /\ (b[i] + j) - 1 \in 1 .. n /\ f[(b[i] + j) - 1] = rows[i][j]
           /\ b[i] \in Int /\ b[i + 1] = b[i] + Len(rows[i]) /\ Len(rows[i]) \in Nat
<1>1. /\ b[i] \in 1 .. n + 1 /\ b[i + 1] \in 1 .. n + 1 /\ n \in Nat
      /\ b[i + 1] = b[i] + Len(rows[i]) /\ rows[i] \in Seq(Entry)
      /\ f[(b[i] + j) - 1] = rows[i][j]
  <2>1. i \in 1 .. m + 1 /\ i + 1 \in 1 .. m + 1
    BY DEF Flat
  <2> QED
    BY <2>1 DEF Flat
<1>2. Len(rows[i]) \in Nat
  BY <1>1, LenProperties
<1> DEFINE a == b[i]
           c == Len(rows[i])
           z == b[i + 1]
<1>3. a \in 1 .. n + 1 /\ z \in 1 .. n + 1 /\ n \in Nat /\ z = a + c /\ c \in Nat /\ j \in 1 .. c
  BY <1>1, <1>2
<1> HIDE DEF a, c, z
<1>4. (a + j) - 1 \in 1 .. n /\ a \in Int
  BY ONLY <1>3
<1> QED
  BY <1>1, <1>2, <1>4 DEF a

\* Every entry of the list is one of a node.
LEMMA FlatFrom ==
    ASSUME NEW rows, NEW m, NEW n, NEW f, NEW b, Flat(rows, m, n, f, b), NEW p, p \in 1 .. n
    PROVE  \E i \in 1 .. m : \E j \in 1 .. Len(rows[i]) : p = (b[i] + j) - 1 /\ f[p] = rows[i][j]
<1> DEFINE T == {i \in 0 .. m : i >= 1 /\ b[i] <= p}
<1>1. /\ m \in Nat \ {0} /\ n \in Nat /\ b \in [1 .. m + 1 -> 1 .. n + 1] /\ b[1] = 1 /\ b[m + 1] = n + 1
      /\ \A i \in 1 .. m : rows[i] \in Seq(Entry) /\ b[i + 1] = b[i] + Len(rows[i])
      /\ \A i \in 1 .. m : \A j \in 1 .. Len(rows[i]) : f[(b[i] + j) - 1] = rows[i][j]
  BY DEF Flat
<1>2. T \in SUBSET (0 .. m) /\ 1 \in T
  BY <1>1
<1>3. PICK i \in T : \A x \in T : x <= i
  BY <1>1, <1>2, GreatestNat
<1>4. i \in 1 .. m /\ b[i] <= p /\ i \in Int
  BY <1>1, <1>3
<1>5. p < b[i + 1]
  <2>1. b[i + 1] \in 1 .. n + 1 /\ b[i + 1] \in Int
    <3>1. i + 1 \in 1 .. m + 1
      BY <1>1, <1>4
    <3>2. b[i + 1] \in 1 .. n + 1
      BY <1>1, <3>1
    <3> QED
      BY <1>1, <3>2
  <2>2. CASE i = m
    BY <1>1, <2>2
  <2>3. CASE i # m
    <3>1. i + 1 \in 0 .. m /\ i + 1 >= 1
      BY <1>1, <1>4, <2>3
    <3>2. i + 1 \notin T
      BY <1>3, <1>4
    <3> QED
      BY <2>1, <3>1, <3>2
  <2> QED
    BY <2>2, <2>3
<1> DEFINE a == b[i]
           c == Len(rows[i])
           j == (p - a) + 1
<1>6. a \in Int /\ c \in Nat /\ b[i + 1] = a + c
  <2>1. b[i] \in 1 .. n + 1 /\ rows[i] \in Seq(Entry) /\ b[i + 1] = b[i] + Len(rows[i])
    <3>1. i \in 1 .. m + 1
      BY <1>1, <1>4
    <3> QED
      BY <1>1, <1>4, <3>1
  <2> QED
    BY <1>1, <2>1, LenProperties
<1>7. a <= p /\ p < a + c
  BY <1>4, <1>5, <1>6
<1> HIDE DEF a, c
<1>8. j \in 1 .. c /\ p = (a + j) - 1
  BY <1>1, <1>6, <1>7
<1> HIDE DEF j
<1>9. f[p] = rows[i][j]
  BY <1>1, <1>4, <1>8 DEF a, c
<1> QED
  BY <1>4, <1>8, <1>9 DEF a, c

\* List r is s without position i.
Removed(s, i, r) ==
    /\ Len(s) = Len(r) + 1
    /\ \A j \in 1 .. Len(r) : r[j] = IF j < i THEN s[j] ELSE s[j + 1]

\* Removing gives such a list.
LEMMA RemoveAtIs ==
    ASSUME NEW S, NEW s, s \in Seq(S), NEW i, i \in 1 .. Len(s)
    PROVE  RemoveAt(s, i) \in Seq(S) /\ Removed(s, i, RemoveAt(s, i))
<1>1. i \in DOMAIN s /\ Len(s) \in Nat
  BY LenProperties
<1>2. /\ RemoveAt(s, i) \in Seq(S)
      /\ Len(RemoveAt(s, i)) = Len(s) - 1
      /\ \A j \in 1 .. Len(s) - 1 :
            RemoveAt(s, i)[j] = IF j < i THEN s[j] ELSE s[j + 1]
  BY <1>1, RemoveAtProperties
<1> DEFINE r == RemoveAt(s, i)
<1>3. /\ r \in Seq(S) /\ Len(r) = Len(s) - 1
      /\ \A j \in 1 .. Len(s) - 1 : r[j] = IF j < i THEN s[j] ELSE s[j + 1]
  BY <1>2
<1> HIDE DEF r
<1>4. Len(s) = Len(r) + 1
  BY <1>1, <1>3
<1>5. Removed(s, i, r)
  BY <1>3, <1>4 DEF Removed
<1> QED
  BY <1>3, <1>5 DEF r

\* Only node i of m is another.
OnlyRow(rows, rows2, m, i) == i \in 1 .. m /\ \A k \in 1 .. m : k # i => rows2[k] = rows[k]

\* A node gets an entry at position j, and so does the list.
LEMMA FlatInsert ==
    ASSUME NEW rows, NEW m, NEW n, NEW f, NEW b, Flat(rows, m, n, f, b),
           NEW i, NEW rows2, OnlyRow(rows, rows2, m, i),
           NEW j, j \in 1 .. Len(rows[i]) + 1, NEW e, e \in Entry,
           rows2[i] = InsertAt(rows[i], j, e)
    PROVE  /\ (b[i] + j) - 1 \in 1 .. n + 1
           /\ Flat(rows2, m, n + 1, InsertAt(f, (b[i] + j) - 1, e), Later(b, m, i, 1))
<1> DEFINE b2 == Later(b, m, i, 1)
           a == b[i]
           p == (a + j) - 1
           f2 == InsertAt(f, p, e)
           c == Len(rows[i])
<1>1. /\ m \in Nat \ {0} /\ n \in Nat /\ f \in Seq(Entry) /\ Len(f) = n
      /\ b \in [1 .. m + 1 -> 1 .. n + 1] /\ b[1] = 1 /\ b[m + 1] = n + 1 /\ i \in 1 .. m
      /\ \A k \in 1 .. m : rows[k] \in Seq(Entry) /\ b[k + 1] = b[k] + Len(rows[k])
      /\ \A k \in 1 .. m : \A h \in 1 .. Len(rows[k]) : f[(b[k] + h) - 1] = rows[k][h]
      /\ \A h, k \in 1 .. m + 1 : h <= k => b[h] <= b[k]
      /\ \A k \in 1 .. m : k # i => rows2[k] = rows[k]
  BY DEF Flat, OnlyRow
<1>2. a \in 1 .. n + 1 /\ c \in Nat /\ b[i + 1] = a + c /\ b[i + 1] \in 1 .. n + 1 /\ rows[i] \in Seq(Entry)
  <2>1. i \in 1 .. m + 1 /\ i + 1 \in 1 .. m + 1
    BY <1>1
  <2> QED
    BY <1>1, <2>1, LenProperties
<1>3. \A k \in 1 .. m + 1 : b[k] \in 1 .. n + 1 /\ b[k] \in Int
  <2>1. \A k \in 1 .. m + 1 : b[k] \in 1 .. n + 1
    BY <1>1
  <2> QED
    BY <1>1, <2>1
<1>4. p \in 1 .. n + 1 /\ p >= a /\ p <= a + c /\ p \in Int /\ j = (p - a) + 1
  <2> HIDE DEF c, a
  <2> QED
    <3>1. j \in 1 .. c + 1
      BY DEF c
    <3>2. a + c <= n + 1 /\ a \in Nat /\ a >= 1 /\ c \in Nat /\ n \in Nat
      BY ONLY <1>1, <1>2
    <3> QED
      BY ONLY <3>1, <3>2
<1>5. f2 \in Seq(Entry) /\ Inserted(f, p, e, f2)
  <2> HIDE DEF p
  <2> QED
    BY <1>1, <1>4, InsertAtIs
<1>6. rows2[i] \in Seq(Entry) /\ Inserted(rows[i], j, e, rows2[i])
  BY <1>2, InsertAtIs
<1> HIDE DEF f2, p
<1>7. /\ Len(f2) = n + 1
      /\ \A q \in 1 .. n + 1 : f2[q] = IF q < p THEN f[q] ELSE IF q = p THEN e ELSE f[q - 1]
  BY <1>1, <1>5 DEF Inserted
<1>8. /\ Len(rows2[i]) = c + 1
      /\ \A h \in 1 .. c + 1 : rows2[i][h] = IF h < j THEN rows[i][h] ELSE IF h = j THEN e ELSE rows[i][h - 1]
  BY <1>6 DEF Inserted
<1>9. \A k \in 1 .. m + 1 : b2[k] = IF k <= i THEN b[k] ELSE b[k] + 1
  BY DEF Later
<1>10. b2 \in [1 .. m + 1 -> 1 .. (n + 1) + 1] /\ b2[1] = 1 /\ b2[m + 1] = (n + 1) + 1
  <2>1. \A k \in 1 .. m + 1 : b2[k] \in 1 .. (n + 1) + 1
    <3> TAKE k \in 1 .. m + 1
    <3> DEFINE u == b[k]
               v == b2[k]
    <3>1. v = (IF k <= i THEN u ELSE u + 1) /\ u \in 1 .. n + 1
      BY <1>3, <1>9
    <3> HIDE DEF u, v
    <3>2. v \in 1 .. (n + 1) + 1
      BY <1>1, <3>1
    <3> QED
      BY <3>2 DEF v
  <2>2. b2 \in [1 .. m + 1 -> 1 .. (n + 1) + 1]
    BY <2>1 DEF Later
  <2>3. 1 \in 1 .. m + 1 /\ m + 1 \in 1 .. m + 1 /\ 1 <= i /\ ~(m + 1 <= i)
    BY <1>1
  <2> QED
    BY <1>1, <1>9, <2>2, <2>3
<1> HIDE DEF b2, c, a
<1>11. \A h, k \in 1 .. m + 1 : h <= k => b2[h] <= b2[k]
  <2> SUFFICES ASSUME NEW h \in 1 .. m + 1, NEW k \in 1 .. m + 1, h <= k
               PROVE  b2[h] <= b2[k]
    OBVIOUS
  <2>1. b[h] <= b[k] /\ b[h] \in Int /\ b[k] \in Int
    BY <1>1, <1>3
  <2> DEFINE u == b[h]
             v == b[k]
             x == b2[h]
             y == b2[k]
  <2>2. x = (IF h <= i THEN u ELSE u + 1) /\ y = (IF k <= i THEN v ELSE v + 1)
    BY <1>9
  <2>3. u <= v /\ u \in Int /\ v \in Int /\ h <= k /\ h \in Int /\ k \in Int /\ i \in Int
    BY <1>1, <2>1
  <2> HIDE DEF u, v, x, y
  <2>4. x <= y
    BY ONLY <2>2, <2>3
  <2> QED
    BY <2>4 DEF x, y
<1>12. ASSUME NEW k \in 1 .. m
       PROVE  rows2[k] \in Seq(Entry) /\ b2[k + 1] = b2[k] + Len(rows2[k])
  <2>1. k \in 1 .. m + 1 /\ k + 1 \in 1 .. m + 1
    BY <1>1
  <2>2. b2[k] = (IF k <= i THEN b[k] ELSE b[k] + 1) /\ b2[k + 1] = IF k + 1 <= i THEN b[k + 1] ELSE b[k + 1] + 1
    BY <1>9, <2>1
  <2>3. CASE k = i
    <3>1. b2[k] = a /\ b2[k + 1] = (a + c) + 1
      BY <1>1, <1>2, <2>2, <2>3 DEF a
    <3> QED
      <4>1. rows2[i] \in Seq(Entry) /\ Len(rows2[i]) = c + 1
        BY <1>6, <1>8
      <4>2. (a + c) + 1 = a + (c + 1)
        BY ONLY <1>2
      <4> QED
        BY ONLY <2>3, <3>1, <4>1, <4>2
  <2>4. CASE k # i
    <3>1. rows2[k] = rows[k] /\ b[k + 1] = b[k] + Len(rows[k]) /\ rows[k] \in Seq(Entry)
      BY <1>1, <2>4
    <3>2. Len(rows[k]) \in Nat /\ b[k] \in Int
      BY <1>3, <2>1, <3>1, LenProperties
    <3> DEFINE z == Len(rows[k])
               u == b[k]
    <3>3. b2[k] = (IF k <= i THEN u ELSE u + 1) /\ b2[k + 1] = IF k + 1 <= i THEN u + z ELSE (u + z) + 1
      BY <2>2, <3>1
    <3>4. z \in Nat /\ u \in Int /\ k \in Int /\ i \in Int
      BY <1>1, <3>2
    <3> HIDE DEF z, u
    <3>5. b2[k + 1] = b2[k] + z
      BY <2>4, <3>3, <3>4
    <3> QED
      BY <3>1, <3>5 DEF z
  <2> QED
    BY <2>3, <2>4
<1>13. ASSUME NEW k \in 1 .. m, NEW h \in 1 .. Len(rows2[k])
       PROVE  f2[(b2[k] + h) - 1] = rows2[k][h]
  <2>1. k \in 1 .. m + 1 /\ k + 1 \in 1 .. m + 1 /\ b[k] \in Int /\ b[k + 1] \in Int /\ b[k] \in 1 .. n + 1 /\ b[k + 1] \in 1 .. n + 1
    <3>1. k \in 1 .. m + 1 /\ k + 1 \in 1 .. m + 1
      BY <1>1
    <3> QED
      BY <1>3, <3>1
  <2> DEFINE u == b[k]
  <2>2. u \in Int /\ u \in 1 .. n + 1
    BY <2>1
  <2>3. CASE k = i
    <3>1. b2[k] = a /\ h \in 1 .. c + 1 /\ rows2[k] = rows2[i]
      <4>1. k <= i
        BY <1>1, <2>3
      <4>2. b2[k] = b[k]
        BY <1>9, <2>1, <4>1
      <4> QED
        BY <1>8, <2>3, <4>2 DEF a
    <3> DEFINE q == (a + h) - 1
    <3>2. q \in 1 .. n + 1 /\ (q < p <=> h < j) /\ (q = p <=> h = j) /\ q \in Int
      <4>1. a \in 1 .. n + 1 /\ c \in Nat /\ h \in 1 .. c + 1 /\ a + c \in 1 .. n + 1 /\ n \in Nat
        BY <1>1, <1>2, <3>1
      <4> QED
        BY ONLY <1>4, <4>1
    <3>3. rows2[k][h] = IF h < j THEN rows[i][h] ELSE IF h = j THEN e ELSE rows[i][h - 1]
      BY <1>8, <3>1
    <3>4. f2[q] = IF q < p THEN f[q] ELSE IF q = p THEN e ELSE f[q - 1]
      BY <1>7, <3>2
    <3>5. CASE h < j
      <4>1. h \in 1 .. c
        BY <1>2, <1>4, <3>1, <3>5
      <4>2. f[(b[i] + h) - 1] = rows[i][h]
        BY <1>1, <4>1 DEF c
      <4> QED
        BY <3>1, <3>2, <3>3, <3>4, <3>5, <4>2 DEF a
    <3>6. CASE h = j
      BY <3>1, <3>2, <3>3, <3>4, <3>6
    <3>7. CASE ~(h < j) /\ h # j
      <4>1. h - 1 \in 1 .. c
        BY <1>2, <1>4, <3>1, <3>7
      <4>2. f[(b[i] + (h - 1)) - 1] = rows[i][h - 1]
        BY <1>1, <4>1 DEF c
      <4>3. (a + (h - 1)) - 1 = q - 1
        BY <1>2, <3>1
      <4> QED
        BY <3>1, <3>2, <3>3, <3>4, <3>7, <4>2, <4>3 DEF a
    <3> QED
      BY <3>5, <3>6, <3>7
  <2>4. CASE k # i
    <3>1. rows2[k] = rows[k] /\ h \in 1 .. Len(rows[k]) /\ b[k + 1] = b[k] + Len(rows[k])
      BY <1>1, <2>4
    <3>2. f[(b[k] + h) - 1] = rows[k][h]
      BY <1>1, <3>1
    <3> DEFINE q == (u + h) - 1
               z == Len(rows[k])
    <3>3. q \in 1 .. n /\ q \in Int
      <4>1. z \in Nat
        BY <1>1, LenProperties
      <4>2. b[k + 1] = u + z /\ h \in 1 .. z /\ u + z <= n + 1
        BY <2>1, <3>1
      <4> HIDE DEF z, u
      <4> QED
        BY <1>1, <2>2, <4>1, <4>2
    <3>4. CASE k < i
      <4>1. b2[k] = u
        <5>1. k <= i
          BY <1>1, <3>4
        <5> QED
          BY <1>9, <2>1, <5>1
      <4>2. b[k + 1] <= b[i]
        <5>1. k + 1 <= i /\ i \in 1 .. m + 1
          BY <1>1, <3>4
        <5> QED
          BY <1>1, <2>1, <5>1
      <4>3. z \in Nat /\ u + z <= a /\ h \in 1 .. z
        <5>1. z \in Nat
          BY <1>1, LenProperties
        <5> QED
          BY <3>1, <4>2, <5>1 DEF a
      <4> HIDE DEF z, u
      <4>4. q < p /\ q \in 1 .. n + 1
        BY <1>1, <1>2, <1>4, <2>2, <3>3, <4>3
      <4>5. f2[q] = f[q]
        BY <1>7, <4>4
      <4> QED
        BY <3>1, <3>2, <4>1, <4>5 DEF u
    <3>5. CASE ~(k < i)
      <4>1. b2[k] = u + 1 /\ i + 1 <= k
        <5>1. k # i /\ k \in Int /\ i \in Int
          BY <1>1, <2>4
        <5>2. ~(k <= i) /\ i + 1 <= k
          BY ONLY <3>5, <5>1
        <5>3. b2[k] = b[k] + 1
          BY <1>9, <2>1, <5>2
        <5> QED
          BY <5>2, <5>3
      <4>2. b[i + 1] <= b[k]
        <5>1. i + 1 \in 1 .. m + 1
          <6>1. i \in 1 .. m /\ m \in Nat
            BY ONLY <1>1
          <6> QED
            BY ONLY <6>1
        <5> QED
          BY <1>1, <2>1, <4>1, <5>1
      <4>3. a + c <= u
        BY <1>2, <4>2
      <4> HIDE DEF z, u
      <4>4. ~(q + 1 < p) /\ q + 1 # p /\ q + 1 \in 1 .. n + 1 /\ (q + 1) - 1 = q
        <5>1. q \in 1 .. n /\ q = (u + h) - 1 /\ h \in Int /\ h >= 1 /\ u \in Int /\ n \in Nat
          BY <1>1, <2>2, <3>1, <3>3
        <5>2. p <= a + c /\ p \in Int /\ a \in Int /\ c \in Int
          BY <1>2, <1>4
        <5> HIDE DEF q
        <5> QED
          BY ONLY <4>3, <5>1, <5>2
      <4>5. f2[q + 1] = f[q]
        BY <1>7, <4>4
      <4>6. (b2[k] + h) - 1 = q + 1
        BY <2>2, <3>1, <4>1
      <4> QED
        BY <3>1, <3>2, <4>5, <4>6 DEF u
    <3> QED
      BY <3>4, <3>5
  <2> QED
    BY <2>3, <2>4
<1>14. n + 1 \in Nat
  BY <1>1
<1>15. Flat(rows2, m, n + 1, f2, b2)
  BY <1>1, <1>5, <1>7, <1>10, <1>11, <1>12, <1>13, <1>14 DEF Flat
<1> QED
  BY <1>4, <1>15 DEF f2, b2, p, a

\* A node loses the entry at position j, and so does the list.
LEMMA FlatRemove ==
    ASSUME NEW rows, NEW m, NEW n, NEW f, NEW b, Flat(rows, m, n, f, b),
           NEW i, NEW rows2, OnlyRow(rows, rows2, m, i),
           NEW j, j \in 1 .. Len(rows[i]), rows2[i] = RemoveAt(rows[i], j)
    PROVE  /\ (b[i] + j) - 1 \in 1 .. n
           /\ Flat(rows2, m, n - 1, RemoveAt(f, (b[i] + j) - 1), Later(b, m, i, -1))
<1> DEFINE b2 == Later(b, m, i, -1)
           a == b[i]
           p == (a + j) - 1
           f2 == RemoveAt(f, p)
           c == Len(rows[i])
<1>1. /\ m \in Nat \ {0} /\ n \in Nat /\ f \in Seq(Entry) /\ Len(f) = n
      /\ b \in [1 .. m + 1 -> 1 .. n + 1] /\ b[1] = 1 /\ b[m + 1] = n + 1 /\ i \in 1 .. m
      /\ \A k \in 1 .. m : rows[k] \in Seq(Entry) /\ b[k + 1] = b[k] + Len(rows[k])
      /\ \A k \in 1 .. m : \A h \in 1 .. Len(rows[k]) : f[(b[k] + h) - 1] = rows[k][h]
      /\ \A h, k \in 1 .. m + 1 : h <= k => b[h] <= b[k]
      /\ \A k \in 1 .. m : k # i => rows2[k] = rows[k]
  BY DEF Flat, OnlyRow
<1>2. /\ a \in 1 .. n + 1 /\ c \in Nat /\ b[i + 1] = a + c /\ b[i + 1] \in 1 .. n + 1
      /\ rows[i] \in Seq(Entry) /\ i \in 1 .. m + 1 /\ i + 1 \in 1 .. m + 1
  <2>1. i \in 1 .. m + 1 /\ i + 1 \in 1 .. m + 1
    BY <1>1
  <2> QED
    BY <1>1, <2>1, LenProperties
<1>3. \A k \in 1 .. m + 1 : b[k] \in 1 .. n + 1 /\ b[k] \in Int
  <2>1. \A k \in 1 .. m + 1 : b[k] \in 1 .. n + 1
    BY <1>1
  <2> QED
    BY <1>1, <2>1
<1>4. p \in 1 .. n /\ p >= a /\ p < a + c /\ p \in Int /\ j = (p - a) + 1
  <2>1. a + c \in 1 .. n + 1
    BY <1>2
  <2>2. j \in 1 .. c
    OBVIOUS
  <2> HIDE DEF c, a
  <2> QED
    BY <1>1, <1>2, <2>1, <2>2
<1>5. f2 \in Seq(Entry) /\ Removed(f, p, f2)
  <2> HIDE DEF p
  <2> QED
    BY <1>1, <1>4, RemoveAtIs
<1>6. rows2[i] \in Seq(Entry) /\ Removed(rows[i], j, rows2[i])
  BY <1>2, RemoveAtIs
<1> HIDE DEF f2, p
<1>7. /\ Len(f2) = n - 1
      /\ \A q \in 1 .. n - 1 : f2[q] = IF q < p THEN f[q] ELSE f[q + 1]
  <2> DEFINE z == Len(f2)
  <2>1. n = z + 1 /\ \A q \in 1 .. z : f2[q] = IF q < p THEN f[q] ELSE f[q + 1]
    BY <1>1, <1>5 DEF Removed
  <2>2. z \in Nat
    BY <1>5, LenProperties
  <2> HIDE DEF z
  <2>3. z = n - 1
    BY <2>1, <2>2
  <2> QED
    BY <2>1, <2>3 DEF z
<1>8. /\ Len(rows2[i]) = c - 1
      /\ \A h \in 1 .. c - 1 : rows2[i][h] = IF h < j THEN rows[i][h] ELSE rows[i][h + 1]
  <2> DEFINE z == Len(rows2[i])
  <2>1. c = z + 1 /\ \A h \in 1 .. z : rows2[i][h] = IF h < j THEN rows[i][h] ELSE rows[i][h + 1]
    BY <1>6 DEF Removed
  <2>2. z \in Nat
    BY <1>6, LenProperties
  <2> HIDE DEF z, c
  <2>3. z = c - 1
    BY <2>1, <2>2
  <2> QED
    BY <2>1, <2>3 DEF z
<1>9. \A k \in 1 .. m + 1 : b2[k] = IF k <= i THEN b[k] ELSE b[k] + (-1)
  BY DEF Later
<1>16. \A k \in 1 .. m + 1 : ~(k <= i) => b[k] >= a + c /\ a + c >= 2
  <2> SUFFICES ASSUME NEW k \in 1 .. m + 1, ~(k <= i)
               PROVE  b[k] >= a + c /\ a + c >= 2
    OBVIOUS
  <2>1. i + 1 <= k
    BY <1>1
  <2>2. b[i + 1] <= b[k]
    BY <1>1, <1>2, <2>1
  <2>3. a + c <= b[k]
    BY <1>2, <2>2
  <2>4. b[k] \in Int
    BY <1>3
  <2> DEFINE u == b[k]
  <2>5. a + c <= u /\ u \in Int
    BY <2>3, <2>4
  <2> HIDE DEF a, c, u
  <2>6. u >= a + c /\ a + c >= 2
    BY <1>2, <1>4, <2>5
  <2> QED
    BY <2>6 DEF u
<1>10. b2 \in [1 .. m + 1 -> 1 .. (n - 1) + 1] /\ b2[1] = 1 /\ b2[m + 1] = (n - 1) + 1
  <2>1. \A k \in 1 .. m + 1 : b2[k] \in 1 .. (n - 1) + 1
    <3> TAKE k \in 1 .. m + 1
    <3> DEFINE u == b[k]
               v == b2[k]
    <3>1. v = (IF k <= i THEN u ELSE u + (-1)) /\ u \in 1 .. n + 1
      BY <1>3, <1>9
    <3>2. ~(k <= i) => u >= a + c /\ a + c >= 2
      BY <1>16
    <3>3. k <= i => u <= a
      BY <1>1, <1>2
    <3> HIDE DEF u, v, a, c
    <3>4. v \in 1 .. (n - 1) + 1
      <4>1. a \in Int /\ c \in Int /\ n \in Nat /\ p >= a /\ p \in 1 .. n
        BY <1>1, <1>2, <1>4
      <4> QED
        BY ONLY <3>1, <3>2, <3>3, <4>1
    <3> QED
      BY <3>4 DEF v
  <2>2. b2 \in [1 .. m + 1 -> 1 .. (n - 1) + 1]
    BY <2>1 DEF Later
  <2>3. 1 \in 1 .. m + 1 /\ m + 1 \in 1 .. m + 1 /\ 1 <= i /\ ~(m + 1 <= i)
    BY <1>1
  <2>4. b2[1] = 1 /\ b2[m + 1] = (n + 1) + (-1)
    BY <1>1, <1>9, <2>3
  <2>5. (n + 1) + (-1) = (n - 1) + 1
    BY <1>1
  <2> HIDE DEF b2
  <2> QED
    BY <2>2, <2>4, <2>5
<1> HIDE DEF b2, c, a
<1>11. \A h, k \in 1 .. m + 1 : h <= k => b2[h] <= b2[k]
  <2> SUFFICES ASSUME NEW h \in 1 .. m + 1, NEW k \in 1 .. m + 1, h <= k
               PROVE  b2[h] <= b2[k]
    OBVIOUS
  <2>1. b[h] <= b[k] /\ b[h] \in Int /\ b[k] \in Int
    BY <1>1, <1>3
  <2> DEFINE u == b[h]
             v == b[k]
             x == b2[h]
             y == b2[k]
  <2>2. x = (IF h <= i THEN u ELSE u + (-1)) /\ y = (IF k <= i THEN v ELSE v + (-1))
    BY <1>9
  <2>5. (h <= i => u <= a) /\ (~(k <= i) => v >= a + c)
    BY <1>1, <1>2, <1>16 DEF a
  <2>3. u <= v /\ u \in Int /\ v \in Int /\ h <= k /\ h \in Int /\ k \in Int /\ i \in Int
    BY <1>1, <2>1
  <2> HIDE DEF u, v, x, y
  <2>4. x <= y
    BY <1>2, <1>4, <2>2, <2>3, <2>5
  <2> QED
    BY <2>4 DEF x, y
<1>12. ASSUME NEW k \in 1 .. m
       PROVE  rows2[k] \in Seq(Entry) /\ b2[k + 1] = b2[k] + Len(rows2[k])
  <2>1. k \in 1 .. m + 1 /\ k + 1 \in 1 .. m + 1
    BY <1>1
  <2>2. b2[k] = (IF k <= i THEN b[k] ELSE b[k] + (-1)) /\ b2[k + 1] = IF k + 1 <= i THEN b[k + 1] ELSE b[k + 1] + (-1)
    BY <1>9, <2>1
  <2>3. CASE k = i
    <3>1. b2[k] = a /\ b2[k + 1] = (a + c) + (-1)
      BY <1>1, <1>2, <2>2, <2>3 DEF a
    <3>2. Len(rows2[k]) = c - 1
      BY <1>8, <2>3
    <3>3. (a + c) + (-1) = a + (c - 1)
      BY <1>2
    <3> QED
      BY <1>6, <2>3, <3>1, <3>2, <3>3
  <2>4. CASE k # i
    <3>1. rows2[k] = rows[k] /\ b[k + 1] = b[k] + Len(rows[k]) /\ rows[k] \in Seq(Entry)
      BY <1>1, <2>4
    <3>2. Len(rows[k]) \in Nat /\ b[k] \in Int
      BY <1>3, <2>1, <3>1, LenProperties
    <3> DEFINE z == Len(rows[k])
               u == b[k]
    <3>3. b2[k] = (IF k <= i THEN u ELSE u + (-1)) /\ b2[k + 1] = IF k + 1 <= i THEN u + z ELSE (u + z) + (-1)
      BY <2>2, <3>1
    <3>4. z \in Nat /\ u \in Int /\ k \in Int /\ i \in Int
      BY <1>1, <3>2
    <3> HIDE DEF z, u
    <3>5. b2[k + 1] = b2[k] + z
      BY <2>4, <3>3, <3>4
    <3> QED
      BY <3>1, <3>5 DEF z
  <2> QED
    BY <2>3, <2>4
<1>13. ASSUME NEW k \in 1 .. m, NEW h \in 1 .. Len(rows2[k])
       PROVE  f2[(b2[k] + h) - 1] = rows2[k][h]
  <2>1. k \in 1 .. m + 1 /\ k + 1 \in 1 .. m + 1 /\ b[k] \in Int /\ b[k + 1] \in Int /\ b[k] \in 1 .. n + 1 /\ b[k + 1] \in 1 .. n + 1
    <3>1. k \in 1 .. m + 1 /\ k + 1 \in 1 .. m + 1
      BY <1>1
    <3> QED
      BY <1>3, <3>1
  <2> DEFINE u == b[k]
  <2>2. u \in Int /\ u \in 1 .. n + 1
    BY <2>1
  <2>3. CASE k = i
    <3>1. b2[k] = a /\ h \in 1 .. c - 1 /\ rows2[k] = rows2[i]
      <4>1. k <= i
        BY <1>1, <2>3
      <4>2. b2[k] = b[k]
        BY <1>9, <2>1, <4>1
      <4> QED
        BY <1>8, <2>3, <4>2 DEF a
    <3> DEFINE q == (a + h) - 1
    <3>2. q \in 1 .. n - 1 /\ (q < p <=> h < j) /\ q \in Int
      <4>1. a \in 1 .. n + 1 /\ c \in Nat /\ h \in 1 .. c - 1 /\ a + c \in 1 .. n + 1 /\ n \in Nat
        BY <1>1, <1>2, <3>1
      <4> QED
        BY ONLY <1>4, <4>1
    <3>3. rows2[k][h] = IF h < j THEN rows[i][h] ELSE rows[i][h + 1]
      BY <1>8, <3>1
    <3>4. f2[q] = IF q < p THEN f[q] ELSE f[q + 1]
      BY <1>7, <3>2
    <3>5. CASE h < j
      <4>1. h \in 1 .. c
        BY <1>2, <3>1
      <4>2. f[(b[i] + h) - 1] = rows[i][h]
        BY <1>1, <4>1 DEF c
      <4> QED
        BY <3>1, <3>2, <3>3, <3>4, <3>5, <4>2 DEF a
    <3>7. CASE ~(h < j)
      <4>1. h + 1 \in 1 .. c
        BY <1>2, <3>1
      <4>2. f[(b[i] + (h + 1)) - 1] = rows[i][h + 1]
        BY <1>1, <4>1 DEF c
      <4>3. (a + (h + 1)) - 1 = q + 1
        BY <1>2, <3>1
      <4> QED
        BY <3>1, <3>2, <3>3, <3>4, <3>7, <4>2, <4>3 DEF a
    <3> QED
      BY <3>5, <3>7
  <2>4. CASE k # i
    <3>1. rows2[k] = rows[k] /\ h \in 1 .. Len(rows[k]) /\ b[k + 1] = b[k] + Len(rows[k])
      BY <1>1, <2>4
    <3>2. f[(b[k] + h) - 1] = rows[k][h]
      BY <1>1, <3>1
    <3> DEFINE q == (u + h) - 1
               z == Len(rows[k])
    <3>3. q \in 1 .. n /\ q \in Int
      <4>1. z \in Nat
        BY <1>1, LenProperties
      <4>2. b[k + 1] = u + z /\ h \in 1 .. z /\ u + z <= n + 1
        BY <2>1, <3>1
      <4> HIDE DEF z, u
      <4> QED
        BY <1>1, <2>2, <4>1, <4>2
    <3>4. CASE k < i
      <4>1. b2[k] = u
        <5>1. k <= i
          BY <1>1, <3>4
        <5> QED
          BY <1>9, <2>1, <5>1
      <4>2. b[k + 1] <= b[i]
        <5>1. k + 1 <= i /\ i \in 1 .. m + 1
          BY <1>1, <3>4
        <5> QED
          BY <1>1, <2>1, <5>1
      <4>3. z \in Nat /\ u + z <= a /\ h \in 1 .. z
        <5>1. z \in Nat
          BY <1>1, LenProperties
        <5> QED
          BY <3>1, <4>2, <5>1 DEF a
      <4> HIDE DEF z, u
      <4>4. q < p /\ q \in 1 .. n - 1
        <5>1. p >= a /\ p <= n /\ p \in Int /\ a \in Int /\ n \in Nat /\ u \in Int /\ h \in Int
          BY <1>1, <1>2, <1>4, <2>2, <4>3
        <5>2. q \in 1 .. n /\ q \in Int /\ q = (u + h) - 1
          BY <3>3
        <5> HIDE DEF q
        <5>3. q < p
          BY ONLY <4>3, <5>1, <5>2
        <5> QED
          BY ONLY <5>1, <5>2, <5>3
      <4>5. f2[q] = f[q]
        BY <1>7, <4>4
      <4> QED
        BY <3>1, <3>2, <4>1, <4>5 DEF u
    <3>5. CASE ~(k < i)
      <4>1. b2[k] = u + (-1) /\ i + 1 <= k /\ ~(k <= i)
        <5>1. i + 1 <= k /\ ~(k <= i)
          BY <1>1, <2>4, <3>5
        <5> QED
          BY <1>9, <2>1, <5>1
      <4>3. a + c <= u
        BY <1>16, <2>1, <4>1
      <4> DEFINE r == q - 1
      <4> HIDE DEF u
      <4>4. ~(r < p) /\ r \in 1 .. n - 1 /\ r + 1 = q /\ r = ((u + (-1)) + h) - 1
        <5>1. q \in 1 .. n /\ q = (u + h) - 1 /\ h \in Int /\ h >= 1 /\ u \in Int /\ n \in Nat
          BY <1>1, <2>2, <3>1, <3>3
        <5>2. p < a + c /\ p \in Int /\ a \in Int /\ c \in Int /\ p >= 1
          BY <1>2, <1>4
        <5> HIDE DEF q
        <5> QED
          BY ONLY <4>3, <5>1, <5>2
      <4>5. f2[r] = f[q]
        BY <1>7, <4>4
      <4>6. (b2[k] + h) - 1 = r
        BY <4>1, <4>4
      <4> QED
        BY <3>1, <3>2, <4>5, <4>6 DEF u
    <3> QED
      BY <3>4, <3>5
  <2> QED
    BY <2>3, <2>4
<1>14. n - 1 \in Nat
  BY <1>1, <1>4
<1>15. Flat(rows2, m, n - 1, f2, b2)
  BY <1>1, <1>5, <1>7, <1>10, <1>11, <1>12, <1>13, <1>14 DEF Flat
<1> QED
  BY <1>4, <1>15 DEF f2, b2, p, a

\* The nodes rows2 are the m of rows, but node i is in two.
Parted(rows, m, i, rows2) ==
    /\ m \in Nat \ {0} /\ i \in 1 .. m
    /\ \A k \in 1 .. m : (k < i => rows2[k] = rows[k]) /\ (i < k => rows2[k + 1] = rows[k])
    /\ rows2[i] \in Seq(Entry) /\ rows2[i + 1] \in Seq(Entry) /\ rows[i] = rows2[i] \o rows2[i + 1]

\* The beginnings of the nodes with x as one more.
CutAt(b, m, i, x) ==
    [k \in 1 .. m + 2 |-> IF k <= i THEN b[k] ELSE IF k = i + 1 THEN x ELSE b[k - 1]]

\* The beginnings without the one behind i.
JoinAt(b, m, i) == [k \in 1 .. m + 1 |-> IF k <= i THEN b[k] ELSE b[k + 1]]

\* A node is cut in two: the list stays.
LEMMA FlatCut ==
    ASSUME NEW rows, NEW m, NEW n, NEW f, NEW b, Flat(rows, m, n, f, b),
           NEW i, NEW rows2, Parted(rows, m, i, rows2)
    PROVE  Flat(rows2, m + 1, n, f, CutAt(b, m, i, b[i] + Len(rows2[i])))
<1> DEFINE c == Len(rows2[i])
           d == Len(rows2[i + 1])
           a == b[i]
           x == a + c
           b2 == CutAt(b, m, i, x)
<1>1. /\ m \in Nat \ {0} /\ n \in Nat /\ f \in Seq(Entry) /\ Len(f) = n
      /\ b \in [1 .. m + 1 -> 1 .. n + 1] /\ b[1] = 1 /\ b[m + 1] = n + 1 /\ i \in 1 .. m
      /\ \A k \in 1 .. m : rows[k] \in Seq(Entry) /\ b[k + 1] = b[k] + Len(rows[k])
      /\ \A k \in 1 .. m : \A h \in 1 .. Len(rows[k]) : f[(b[k] + h) - 1] = rows[k][h]
      /\ \A h, k \in 1 .. m + 1 : h <= k => b[h] <= b[k]
      /\ \A k \in 1 .. m : (k < i => rows2[k] = rows[k]) /\ (i < k => rows2[k + 1] = rows[k])
      /\ rows2[i] \in Seq(Entry) /\ rows2[i + 1] \in Seq(Entry) /\ rows[i] = rows2[i] \o rows2[i + 1]
  BY DEF Flat, Parted
<1>2. c \in Nat /\ d \in Nat
  BY <1>1, LenProperties
<1>3. /\ Len(rows[i]) = c + d
      /\ \A h \in 1 .. c + d : rows[i][h] = IF h <= c THEN rows2[i][h] ELSE rows2[i + 1][h - c]
  <2> DEFINE s == rows2[i]
             t == rows2[i + 1]
             r == rows[i]
  <2>1. s \in Seq(Entry) /\ t \in Seq(Entry) /\ r = s \o t /\ c = Len(s) /\ d = Len(t)
    BY <1>1
  <2> HIDE DEF s, t, r, c, d
  <2>2. Len(r) = c + d /\ \A h \in 1 .. c + d : r[h] = IF h <= c THEN s[h] ELSE t[h - c]
    BY ONLY <2>1, ConcatAt
  <2> QED
    BY <2>2 DEF r, s, t
<1>4. /\ a \in 1 .. n + 1 /\ b[i + 1] = a + (c + d) /\ b[i + 1] \in 1 .. n + 1
      /\ i \in 1 .. m + 1 /\ i + 1 \in 1 .. m + 1 /\ i \in Int
  <2>1. i \in 1 .. m + 1 /\ i + 1 \in 1 .. m + 1 /\ i \in Int
    BY <1>1
  <2> QED
    BY <1>1, <1>3, <2>1
<1>5. \A k \in 1 .. m + 1 : b[k] \in 1 .. n + 1 /\ b[k] \in Int
  <2>1. \A k \in 1 .. m + 1 : b[k] \in 1 .. n + 1
    BY <1>1
  <2> QED
    BY <1>1, <2>1
<1> HIDE DEF c, d, a
<1>6. x \in 1 .. n + 1 /\ a <= x /\ x <= a + (c + d) /\ x \in Int
  BY <1>1, <1>2, <1>4
<1>7. \A k \in 1 .. m + 2 : b2[k] = IF k <= i THEN b[k] ELSE IF k = i + 1 THEN x ELSE b[k - 1]
  BY DEF CutAt
<1> HIDE DEF x
<1>8. /\ \A k \in 1 .. m + 2 : k <= i => b2[k] = b[k] /\ k \in 1 .. m + 1
      /\ b2[i + 1] = x
      /\ \A k \in 1 .. m + 2 : k > i + 1 => b2[k] = b[k - 1] /\ k - 1 \in 1 .. m + 1
  <2>1. \A k \in 1 .. m + 2 : k <= i => k \in 1 .. m + 1
    BY <1>1
  <2>2. i + 1 \in 1 .. m + 2 /\ ~(i + 1 <= i)
    BY <1>1
  <2>3. \A k \in 1 .. m + 2 : k > i + 1 => ~(k <= i) /\ k # i + 1 /\ k - 1 \in 1 .. m + 1
    BY <1>1
  <2> HIDE DEF b2
  <2> QED
    BY <1>7, <2>1, <2>2, <2>3
<1>9. \A k \in 1 .. m + 2 : k <= i \/ k = i + 1 \/ k > i + 1
  BY <1>1
<1>10. b2 \in [1 .. m + 2 -> 1 .. n + 1]
  <2>1. \A k \in 1 .. m + 2 : b2[k] \in 1 .. n + 1
    <3> HIDE DEF b2
    <3> QED
      BY <1>5, <1>6, <1>8, <1>9
  <2> QED
    BY <2>1 DEF CutAt
<1> HIDE DEF b2
<1>11. b2[1] = 1 /\ b2[(m + 1) + 1] = n + 1
  <2>1. 1 \in 1 .. m + 2 /\ 1 <= i /\ m + 2 \in 1 .. m + 2 /\ m + 2 > i + 1 /\ (m + 2) - 1 = m + 1 /\ (m + 1) + 1 = m + 2
    BY <1>1
  <2> QED
    BY <1>1, <1>8, <2>1
<1>12. \A h, k \in 1 .. m + 2 : h <= k => b2[h] <= b2[k]
  <2> SUFFICES ASSUME NEW h \in 1 .. m + 2, NEW k \in 1 .. m + 2, h <= k
               PROVE  b2[h] <= b2[k]
    OBVIOUS
  <2>1. \A q \in 1 .. m + 1 : (q <= i => b[q] <= x) /\ (q > i => x <= b[q])
    <3> TAKE q \in 1 .. m + 1
    <3>1. q <= i => b[q] <= a
      BY <1>1, <1>4 DEF a
    <3>2. q > i => a + (c + d) <= b[q]
      <4>1. q > i => i + 1 <= q
        BY <1>1
      <4>2. q > i => b[i + 1] <= b[q]
        BY <1>1, <1>4, <4>1
      <4> QED
        BY <1>4, <4>2
    <3> DEFINE u == b[q]
    <3>3. u \in Int /\ (q <= i => u <= a) /\ (q > i => a + (c + d) <= u)
      BY <1>5, <3>1, <3>2
    <3>4. a \in Int /\ c \in Int /\ d \in Int
      BY <1>2, <1>4
    <3> HIDE DEF u
    <3>5. (q <= i => u <= x) /\ (q > i => x <= u)
      BY <1>6, <3>3, <3>4
    <3> QED
      BY <3>5 DEF u
  <2>2. CASE k <= i
    <3>1. h <= i /\ h \in 1 .. m + 1 /\ k \in 1 .. m + 1
      BY <1>1, <2>2
    <3> QED
      BY <1>1, <1>8, <2>2, <3>1
  <2>3. CASE h > i + 1
    <3>1. k > i + 1 /\ h - 1 \in 1 .. m + 1 /\ k - 1 \in 1 .. m + 1 /\ h - 1 <= k - 1
      BY <1>1, <2>3
    <3> QED
      BY <1>1, <1>8, <2>3, <3>1
  <2>4. CASE ~(k <= i) /\ ~(h > i + 1)
    <3>1. b2[h] <= x
      <4>1. h <= i \/ h = i + 1
        BY <1>1, <2>4
      <4>2. h <= i => b2[h] = b[h] /\ h \in 1 .. m + 1
        BY <1>8
      <4> QED
        BY <1>6, <1>8, <2>1, <4>1, <4>2
    <3>2. x <= b2[k]
      <4>1. k > i + 1 \/ k = i + 1
        BY <1>1, <2>4
      <4>2. k > i + 1 => b2[k] = b[k - 1] /\ k - 1 \in 1 .. m + 1 /\ k - 1 > i
        <5>1. k > i + 1 => k - 1 > i
          BY <1>1
        <5> QED
          BY <1>8, <5>1
      <4> QED
        BY <1>6, <1>8, <2>1, <4>1, <4>2
    <3>3. b2[h] \in 1 .. n + 1 /\ b2[k] \in 1 .. n + 1
      BY <1>10
    <3> DEFINE u == b2[h]
               v == b2[k]
    <3>4. u <= x /\ x <= v /\ u \in Int /\ v \in Int
      BY <1>1, <3>1, <3>2, <3>3
    <3> HIDE DEF u, v
    <3>5. u <= v
      BY <1>6, <3>4
    <3> QED
      BY <3>5 DEF u, v
  <2> QED
    BY <2>2, <2>3, <2>4
<1>13. ASSUME NEW k \in 1 .. m + 1
       PROVE  /\ rows2[k] \in Seq(Entry) /\ b2[k + 1] = b2[k] + Len(rows2[k])
              /\ \A h \in 1 .. Len(rows2[k]) : f[(b2[k] + h) - 1] = rows2[k][h]
  <2>0. k \in 1 .. m + 2 /\ k + 1 \in 1 .. m + 2
    BY <1>1
  <2>1. CASE k < i
    <3>1. k \in 1 .. m /\ k <= i /\ k + 1 <= i
      BY <1>1, <2>1
    <3>2. b2[k] = b[k] /\ b2[k + 1] = b[k + 1] /\ rows2[k] = rows[k]
      BY <1>1, <1>8, <2>0, <2>1, <3>1
    <3>3. /\ rows[k] \in Seq(Entry) /\ b[k + 1] = b[k] + Len(rows[k])
          /\ \A h \in 1 .. Len(rows[k]) : f[(b[k] + h) - 1] = rows[k][h]
      BY <1>1, <3>1
    <3> QED
      BY ONLY <3>2, <3>3
  <2>2. CASE k = i
    <3>1. b2[k] = a /\ b2[k + 1] = a + c /\ rows2[k] = rows2[i] /\ Len(rows2[k]) = c
      <4>1. k <= i
        BY <1>1, <2>2
      <4> QED
        BY <1>8, <2>0, <2>2, <4>1 DEF a, c, x
    <3>2. ASSUME NEW h \in 1 .. c
          PROVE  f[(a + h) - 1] = rows2[k][h]
      <4>1. h \in 1 .. c + d /\ h <= c
        BY <1>2
      <4>2. rows[i][h] = rows2[i][h]
        BY <1>3, <4>1
      <4>3. f[(b[i] + h) - 1] = rows[i][h]
        BY <1>1, <1>3, <4>1
      <4> QED
        BY <3>1, <4>2, <4>3 DEF a
    <3> QED
      BY <1>1, <2>2, <3>1, <3>2
  <2>3. CASE k = i + 1
    <3>1. b2[k] = x /\ b2[k + 1] = a + (c + d) /\ rows2[k] = rows2[i + 1] /\ Len(rows2[k]) = d
      <4>1. k + 1 > i + 1 /\ (k + 1) - 1 = i + 1
        BY <1>1, <2>3
      <4> QED
        BY <1>4, <1>8, <2>0, <2>3, <4>1 DEF d
    <3>2. ASSUME NEW h \in 1 .. d
          PROVE  f[(x + h) - 1] = rows2[k][h]
      <4>1. c + h \in 1 .. c + d /\ ~(c + h <= c) /\ (c + h) - c = h
        BY <1>2
      <4>2. rows[i][c + h] = rows2[i + 1][h]
        BY <1>3, <4>1
      <4>3. f[(b[i] + (c + h)) - 1] = rows[i][c + h]
        BY <1>1, <1>3, <4>1
      <4>4. (a + (c + h)) - 1 = (x + h) - 1
        <5>1. a \in Int /\ c \in Int /\ h \in Int
          BY <1>2, <1>4
        <5> QED
          BY ONLY <5>1 DEF x
      <4> QED
        BY <3>1, <4>2, <4>3, <4>4 DEF a
    <3>3. a + (c + d) = x + d
      <4>1. a \in Int /\ c \in Int /\ d \in Int
        BY <1>2, <1>4
      <4> QED
        BY ONLY <4>1 DEF x
    <3> QED
      BY <1>1, <2>3, <3>1, <3>2, <3>3
  <2>4. CASE k > i + 1
    <3> DEFINE g == k - 1
    <3>1. g \in 1 .. m /\ i < g /\ g + 1 = k /\ k + 1 > i + 1 /\ (k + 1) - 1 = g + 1
      BY <1>1, <2>4
    <3> HIDE DEF g
    <3>2. b2[k] = b[g] /\ b2[k + 1] = b[g + 1] /\ rows2[k] = rows[g]
      <4>1. b2[k] = b[k - 1]
        BY <1>8, <2>0, <2>4
      <4>2. b2[k + 1] = b[(k + 1) - 1]
        BY <1>8, <2>0, <3>1
      <4>3. rows2[g + 1] = rows[g]
        BY <1>1, <3>1
      <4> QED
        BY <3>1, <4>1, <4>2, <4>3 DEF g
    <3>3. /\ rows[g] \in Seq(Entry) /\ b[g + 1] = b[g] + Len(rows[g])
          /\ \A h \in 1 .. Len(rows[g]) : f[(b[g] + h) - 1] = rows[g][h]
      BY <1>1, <3>1
    <3> QED
      BY ONLY <3>2, <3>3
  <2>5. k < i \/ k = i \/ k = i + 1 \/ k > i + 1
    BY <1>1
  <2> QED
    BY <2>1, <2>2, <2>3, <2>4, <2>5
<1>14. b2 \in [1 .. (m + 1) + 1 -> 1 .. n + 1] /\ \A h, k \in 1 .. (m + 1) + 1 : h <= k => b2[h] <= b2[k]
  <2>1. (m + 1) + 1 = m + 2
    BY <1>1
  <2> QED
    BY <1>10, <1>12, <2>1
<1>15. m + 1 \in Nat \ {0}
  BY <1>1
<1> DEFINE m1 == m + 1
<1>16. Flat(rows2, m1, n, f, b2)
  <2>1. m1 \in Nat \ {0} /\ b2 \in [1 .. m1 + 1 -> 1 .. n + 1] /\ b2[m1 + 1] = n + 1
        /\ \A h, k \in 1 .. m1 + 1 : h <= k => b2[h] <= b2[k]
    BY <1>11, <1>14, <1>15
  <2>2. \A k \in 1 .. m1 : rows2[k] \in Seq(Entry) /\ b2[k + 1] = b2[k] + Len(rows2[k])
    BY <1>13
  <2>3. \A k \in 1 .. m1 : \A h \in 1 .. Len(rows2[k]) : f[(b2[k] + h) - 1] = rows2[k][h]
    BY <1>13
  <2> HIDE DEF m1
  <2> QED
    BY <1>1, <1>11, <2>1, <2>2, <2>3 DEF Flat
<1> QED
  BY <1>16 DEF b2, x, c, a

\* Two nodes are joined: the list stays.
LEMMA FlatJoin ==
    ASSUME NEW rows, NEW m, NEW i, NEW rows2, Parted(rows, m, i, rows2),
           NEW n, NEW f, NEW b, Flat(rows2, m + 1, n, f, b)
    PROVE  Flat(rows, m, n, f, JoinAt(b, m, i))
<1> DEFINE c == Len(rows2[i])
           d == Len(rows2[i + 1])
           a == b[i]
           b2 == JoinAt(b, m, i)
<1>1. /\ m \in Nat \ {0} /\ n \in Nat /\ f \in Seq(Entry) /\ Len(f) = n
      /\ b \in [1 .. m + 2 -> 1 .. n + 1] /\ b[1] = 1 /\ b[m + 2] = n + 1 /\ i \in 1 .. m
      /\ \A k \in 1 .. m + 1 : rows2[k] \in Seq(Entry) /\ b[k + 1] = b[k] + Len(rows2[k])
      /\ \A k \in 1 .. m + 1 : \A h \in 1 .. Len(rows2[k]) : f[(b[k] + h) - 1] = rows2[k][h]
      /\ \A h, k \in 1 .. m + 2 : h <= k => b[h] <= b[k]
      /\ \A k \in 1 .. m : (k < i => rows2[k] = rows[k]) /\ (i < k => rows2[k + 1] = rows[k])
      /\ rows2[i] \in Seq(Entry) /\ rows2[i + 1] \in Seq(Entry) /\ rows[i] = rows2[i] \o rows2[i + 1]
  <2>1. (m + 1) + 1 = m + 2
    BY DEF Parted
  <2> DEFINE m1 == m + 1
  <2>2. /\ n \in Nat /\ f \in Seq(Entry) /\ Len(f) = n
        /\ b \in [1 .. m1 + 1 -> 1 .. n + 1] /\ b[1] = 1 /\ b[m1 + 1] = n + 1
        /\ \A k \in 1 .. m1 : rows2[k] \in Seq(Entry) /\ b[k + 1] = b[k] + Len(rows2[k])
        /\ \A k \in 1 .. m1 : \A h \in 1 .. Len(rows2[k]) : f[(b[k] + h) - 1] = rows2[k][h]
        /\ \A h, k \in 1 .. m1 + 1 : h <= k => b[h] <= b[k]
    BY DEF Flat
  <2> QED
    BY <2>1, <2>2 DEF Parted
<1>2. c \in Nat /\ d \in Nat
  BY <1>1, LenProperties
<1>3. /\ Len(rows[i]) = c + d /\ rows[i] \in Seq(Entry)
      /\ \A h \in 1 .. c + d : rows[i][h] = IF h <= c THEN rows2[i][h] ELSE rows2[i + 1][h - c]
  <2> DEFINE s == rows2[i]
             t == rows2[i + 1]
             r == rows[i]
  <2>1. s \in Seq(Entry) /\ t \in Seq(Entry) /\ r = s \o t /\ c = Len(s) /\ d = Len(t)
    BY <1>1
  <2> HIDE DEF s, t, r, c, d
  <2>2. Len(r) = c + d /\ r \in Seq(Entry) /\ \A h \in 1 .. c + d : r[h] = IF h <= c THEN s[h] ELSE t[h - c]
    BY ONLY <2>1, ConcatAt
  <2> QED
    BY <2>2 DEF r, s, t
<1>4. /\ a \in Int /\ b[i + 1] = a + c /\ b[i + 2] = (a + c) + d
      /\ i \in 1 .. m + 1 /\ i + 1 \in 1 .. m + 1 /\ i \in Int
  <2>1. i \in 1 .. m + 1 /\ i + 1 \in 1 .. m + 1 /\ i \in Int /\ (i + 1) + 1 = i + 2 /\ i \in 1 .. m + 2
    BY <1>1
  <2>2. b[i] \in 1 .. n + 1 /\ b[i + 1] = a + c /\ b[(i + 1) + 1] = b[i + 1] + d
    BY <1>1, <2>1
  <2> QED
    BY <1>1, <2>1, <2>2
<1> HIDE DEF c, d, a
<1>5. /\ \A k \in 1 .. m + 1 : b2[k] = IF k <= i THEN b[k] ELSE b[k + 1]
      /\ \A k \in 1 .. m + 1 : k \in 1 .. m + 2 /\ k + 1 \in 1 .. m + 2
  <2>1. \A k \in 1 .. m + 1 : k \in 1 .. m + 2 /\ k + 1 \in 1 .. m + 2
    BY <1>1
  <2> QED
    BY <2>1 DEF JoinAt
<1>6. b2 \in [1 .. m + 1 -> 1 .. n + 1]
  <2>1. \A k \in 1 .. m + 1 : b2[k] \in 1 .. n + 1
    <3> HIDE DEF b2
    <3> QED
      BY <1>1, <1>5
  <2> QED
    BY <2>1 DEF JoinAt
<1> HIDE DEF b2
<1>7. b2[1] = 1 /\ b2[m + 1] = n + 1
  <2>1. 1 \in 1 .. m + 1 /\ 1 <= i /\ m + 1 \in 1 .. m + 1 /\ ~(m + 1 <= i) /\ (m + 1) + 1 = m + 2
    BY <1>1
  <2> QED
    BY <1>1, <1>5, <2>1
<1>8. \A h, k \in 1 .. m + 1 : h <= k => b2[h] <= b2[k]
  <2> SUFFICES ASSUME NEW h \in 1 .. m + 1, NEW k \in 1 .. m + 1, h <= k
               PROVE  b2[h] <= b2[k]
    OBVIOUS
  <2> DEFINE x == IF h <= i THEN h ELSE h + 1
             y == IF k <= i THEN k ELSE k + 1
  <2>1. b2[h] = b[x] /\ b2[k] = b[y] /\ x \in 1 .. m + 2 /\ y \in 1 .. m + 2
    BY <1>5
  <2>2. x <= y
    <3>1. i \in Int /\ m \in Int
      BY ONLY <1>1
    <3> QED
      BY ONLY <3>1, h \in 1 .. m + 1, k \in 1 .. m + 1, h <= k DEF x, y
  <2> HIDE DEF x, y
  <2> QED
    BY <1>1, <2>1, <2>2
<1>9. ASSUME NEW k \in 1 .. m
      PROVE  /\ rows[k] \in Seq(Entry) /\ b2[k + 1] = b2[k] + Len(rows[k])
             /\ \A h \in 1 .. Len(rows[k]) : f[(b2[k] + h) - 1] = rows[k][h]
  <2>0. k \in 1 .. m + 1 /\ k + 1 \in 1 .. m + 1
    BY <1>1
  <2>1. CASE k < i
    <3>1. k <= i /\ k + 1 <= i
      BY <1>1, <2>1
    <3>2. b2[k] = b[k] /\ b2[k + 1] = b[k + 1] /\ rows2[k] = rows[k]
      BY <1>1, <1>5, <2>0, <2>1, <3>1
    <3>3. /\ rows2[k] \in Seq(Entry) /\ b[k + 1] = b[k] + Len(rows2[k])
          /\ \A h \in 1 .. Len(rows2[k]) : f[(b[k] + h) - 1] = rows2[k][h]
      BY <1>1, <2>0
    <3> QED
      BY ONLY <3>2, <3>3
  <2>2. CASE k = i
    <3>1. b2[k] = a /\ b2[k + 1] = a + (c + d) /\ rows[k] = rows[i]
      <4>1. k <= i /\ ~(k + 1 <= i) /\ (k + 1) + 1 = i + 2
        <5>1. i \in Int
          BY ONLY <1>1
        <5> QED
          BY ONLY <2>2, <5>1
      <4>2. (a + c) + d = a + (c + d)
        BY <1>2, <1>4
      <4> QED
        BY <1>4, <1>5, <2>0, <2>2, <4>1, <4>2 DEF a
    <3>2. ASSUME NEW h \in 1 .. c + d
          PROVE  f[(a + h) - 1] = rows[i][h]
      <4>1. CASE h <= c
        <5>1. h \in 1 .. c
          BY <1>2, <4>1
        <5>2. f[(b[i] + h) - 1] = rows2[i][h]
          BY <1>1, <1>4, <5>1 DEF c
        <5> QED
          BY <1>3, <4>1, <5>2 DEF a
      <4>2. CASE ~(h <= c)
        <5> DEFINE g == h - c
        <5>1. g \in 1 .. d
          BY <1>2, <4>2
        <5>2. f[(b[i + 1] + g) - 1] = rows2[i + 1][g]
          BY <1>1, <1>4, <5>1 DEF d
        <5>3. ((a + c) + g) - 1 = (a + h) - 1
          BY <1>2, <1>4
        <5> QED
          BY <1>3, <1>4, <4>2, <5>2, <5>3
      <4> QED
        BY <4>1, <4>2
    <3> QED
      BY <1>3, <2>2, <3>1, <3>2
  <2>3. CASE k > i
    <3>1. k + 1 \in 1 .. m + 1 /\ i < k /\ ~(k <= i) /\ ~(k + 1 <= i)
      BY <1>1, <2>3
    <3>2. b2[k] = b[k + 1] /\ b2[k + 1] = b[(k + 1) + 1] /\ rows2[k + 1] = rows[k]
      BY <1>1, <1>5, <2>0, <3>1
    <3>3. /\ rows2[k + 1] \in Seq(Entry) /\ b[(k + 1) + 1] = b[k + 1] + Len(rows2[k + 1])
          /\ \A h \in 1 .. Len(rows2[k + 1]) : f[(b[k + 1] + h) - 1] = rows2[k + 1][h]
      BY <1>1, <3>1
    <3> QED
      BY ONLY <3>2, <3>3
  <2>5. k < i \/ k = i \/ k > i
    BY <1>1
  <2> QED
    BY <2>1, <2>2, <2>3, <2>5
<1>10. Flat(rows, m, n, f, b2)
  BY <1>1, <1>6, <1>7, <1>8, <1>9 DEF Flat
<1> QED
  BY <1>10 DEF b2

\* The n entries of f lead to the leaves, each to another one, whose chunks are
\* in ch; their keys separate the chunks.
Straight(f, n, ch) ==
    /\ \A p \in 1 .. n : f[p].sector \in DOMAIN ch
    /\ \A s \in DOMAIN ch : \E p \in 1 .. n : f[p].sector = s
    /\ \A p, q \in 1 .. n : f[p].sector = f[q].sector => p = q
    /\ \A p \in 2 .. n : f[p].key > 0
    /\ \A p, q \in 1 .. n : p < q => \A c \in ch[f[p].sector] : c < f[q].key
    /\ \A q \in 2 .. n : \A c \in ch[f[q].sector] : f[q].key <= c
    /\ \A p, q \in 2 .. n : p < q => f[p].key <= f[q].key

\* A list of entries.
Listed(f, n) == n \in Nat /\ f \in Seq(Entry) /\ Len(f) = n

\* Its keys are numbers.
LEMMA ListedIs ==
    ASSUME NEW f, NEW n, Listed(f, n)
    PROVE  n \in Nat /\ \A p \in 1 .. n : f[p] \in Entry /\ f[p].key \in Int /\ f[p].sector \in Sectors
<1>1. \A p \in 1 .. n : f[p] \in Entry
  BY DEF Listed
<1> QED
  BY <1>1 DEF Entry, Listed

\* The chunks are numbers.
Numbered(ch) == \A s \in DOMAIN ch : ch[s] \in SUBSET Nat

\* Chunks that go do not disturb the order.
LEMMA StraightShrinks ==
    ASSUME NEW f, NEW n, NEW ch, Straight(f, n, ch), Listed(f, n),
           NEW ch2, DOMAIN ch2 = DOMAIN ch, \A s \in DOMAIN ch : ch2[s] \subseteq ch[s]
    PROVE  Straight(f, n, ch2)
<1>1. n \in Nat
  BY DEF Listed
<1>2. \A q \in 2 .. n : q \in 1 .. n
  BY <1>1
<1> QED
  BY <1>2 DEF Straight

\* A chunk between the keys around a leaf goes into that.
LEMMA StraightAdds ==
    ASSUME NEW f, NEW n, NEW ch, Straight(f, n, ch), Listed(f, n), Numbered(ch),
           NEW p, p \in 1 .. n, NEW c, c \in Nat, p >= 2 => f[p].key <= c,
           \A q \in 1 .. n : p < q => c < f[q].key,
           NEW ch2, DOMAIN ch2 = DOMAIN ch, ch2[f[p].sector] = ch[f[p].sector] \union {c},
           \A s \in DOMAIN ch : s # f[p].sector => ch2[s] = ch[s]
    PROVE  Straight(f, n, ch2)
<1>1. n \in Nat
  BY DEF Listed
<1>2. \A q \in 2 .. n : q \in 1 .. n /\ q >= 2
  BY <1>1
<1>3. ASSUME NEW x \in 1 .. n, NEW y \in 1 .. n, x < y, NEW d \in ch2[f[x].sector]
      PROVE  d < f[y].key
  <2>1. CASE f[x].sector = f[p].sector
    <3>1. x = p
      BY <2>1 DEF Straight
    <3>2. d \in ch[f[x].sector] \/ d = c
      BY <1>3, <2>1
    <3> QED
      BY <1>3, <3>1, <3>2 DEF Straight
  <2>2. CASE f[x].sector # f[p].sector
    <3>1. d \in ch[f[x].sector]
      BY <1>3, <2>2 DEF Straight
    <3> QED
      BY <1>3, <3>1 DEF Straight
  <2> QED
    BY <2>1, <2>2
<1>4. ASSUME NEW y \in 2 .. n, NEW d \in ch2[f[y].sector]
      PROVE  f[y].key <= d
  <2>0. y \in 1 .. n /\ y >= 2
    BY <1>2
  <2>1. CASE f[y].sector = f[p].sector
    <3>1. y = p
      BY <2>0, <2>1 DEF Straight
    <3>2. d \in ch[f[y].sector] \/ d = c
      BY <1>4, <2>1
    <3> QED
      BY <2>0, <3>1, <3>2 DEF Straight
  <2>2. CASE f[y].sector # f[p].sector
    <3>1. d \in ch[f[y].sector]
      BY <1>4, <2>0, <2>2 DEF Straight
    <3> QED
      BY <3>1 DEF Straight
  <2> QED
    BY <2>1, <2>2
<1> QED
  BY <1>3, <1>4 DEF Straight

\* The chunks of ch, but those of s from key on are those of the new t.
SplitIn(ch, s, key, t, ch2) ==
    /\ s \in DOMAIN ch /\ t \notin DOMAIN ch /\ DOMAIN ch2 = DOMAIN ch \union {t}
    /\ key \in ch[s] /\ \E c \in ch[s] : c < key
    /\ ch2[s] = {c \in ch[s] : c < key}
    /\ ch2[t] = {c \in ch[s] : ~(c < key)}
    /\ \A u \in DOMAIN ch : u # s => ch2[u] = ch[u]

\* A leaf is split: the new one is behind it.
LEMMA StraightSplits ==
    ASSUME NEW f, NEW n, NEW ch, Straight(f, n, ch), Listed(f, n), Numbered(ch),
           NEW p, p \in 1 .. n, NEW e, e \in Entry, NEW ch2, SplitIn(ch, f[p].sector, e.key, e.sector, ch2)
    PROVE  Straight(InsertAt(f, p + 1, e), n + 1, ch2)
<1> DEFINE f2 == InsertAt(f, p + 1, e)
           s == f[p].sector
           t == e.sector
           k == e.key
<1>1. n \in Nat /\ p \in Int /\ \A q \in 1 .. n : f[q] \in Entry /\ f[q].key \in Int /\ f[q].sector \in Sectors
  BY ListedIs
<1>2. \A q \in 1 .. n + 1 : f2[q] = IF q < p + 1 THEN f[q] ELSE IF q = p + 1 THEN e ELSE f[q - 1]
  <2>1. f \in Seq(Entry) /\ p + 1 \in 1 .. Len(f) + 1 /\ Len(f) = n
    BY <1>1 DEF Listed
  <2>2. Inserted(f, p + 1, e, f2)
    BY <2>1, InsertAtIs
  <2> QED
    BY <2>1, <2>2 DEF Inserted
<1> HIDE DEF f2
<1>3. k \in Int
  BY DEF Entry
<1>4. /\ s \in DOMAIN ch /\ t \notin DOMAIN ch /\ DOMAIN ch2 = DOMAIN ch \union {t}
      /\ k \in ch[s] /\ k \in Nat
      /\ ch2[s] = {c \in ch[s] : c < k}
      /\ ch2[t] = {c \in ch[s] : ~(c < k)}
      /\ \A u \in DOMAIN ch : u # s => ch2[u] = ch[u]
  BY DEF SplitIn, Numbered
<1>5. PICK c0 \in ch[s] : c0 < k
  BY DEF SplitIn
<1>6. k > 0
  <2>1. c0 \in Nat
    BY <1>4, <1>5 DEF Numbered
  <2> QED
    BY <1>4, <1>5, <2>1
\* where an entry of the new list was
<1> DEFINE o(q) == IF q <= p THEN q ELSE q - 1
<1>7. \A q \in 1 .. n + 1 : /\ o(q) \in 1 .. n
                           /\ f2[q] = IF q = p + 1 THEN e ELSE f[o(q)]
  <2> TAKE q \in 1 .. n + 1
  <2>1. q < p + 1 <=> q <= p
    BY <1>1
  <2>2. o(q) \in 1 .. n
    BY <1>1
  <2> QED
    BY <1>2, <2>1, <2>2
<1>8. \A x, y \in 1 .. n + 1 : x < y => o(x) < o(y) \/ (x = p /\ y = p + 1)
  BY <1>1
<1>9. \A x, y \in 1 .. n + 1 : o(x) = o(y) => x = y \/ (x = p /\ y = p + 1) \/ (x = p + 1 /\ y = p)
  BY <1>1
<1>10. o(p) = p /\ o(p + 1) = p /\ p \in 1 .. n + 1 /\ p + 1 \in 1 .. n + 1 /\ p # p + 1
  BY <1>1
<1>11. \A y \in 2 .. n + 1 : y \in 1 .. n + 1 /\ (y # p + 1 => o(y) \in 2 .. n)
  BY <1>1
<1> HIDE DEF o
<1>12. \A q \in 1 .. n + 1 : f2[q].sector \in DOMAIN ch2
  BY <1>4, <1>7 DEF Straight
<1>13. ASSUME NEW u \in DOMAIN ch2
       PROVE  \E q \in 1 .. n + 1 : f2[q].sector = u
  <2>1. CASE u = t
    BY <1>7, <1>10, <2>1
  <2>2. CASE u # t
    <3>1. PICK r \in 1 .. n : f[r].sector = u
      BY <1>4, <2>2 DEF Straight
    <3> DEFINE q == IF r <= p THEN r ELSE r + 1
    <3>2. q \in 1 .. n + 1 /\ q # p + 1 /\ o(q) = r
      BY <1>1 DEF o
    <3> QED
      BY <1>7, <3>1, <3>2
  <2> QED
    BY <2>1, <2>2
<1>14. ASSUME NEW x \in 1 .. n + 1, NEW y \in 1 .. n + 1, f2[x].sector = f2[y].sector
       PROVE  x = y
  <2>1. CASE x = p + 1 /\ y # p + 1
    BY <1>4, <1>7, <1>14, <2>1 DEF Straight
  <2>2. CASE y = p + 1 /\ x # p + 1
    BY <1>4, <1>7, <1>14, <2>2 DEF Straight
  <2>3. CASE x # p + 1 /\ y # p + 1
    <3>1. o(x) = o(y)
      BY <1>7, <1>14, <2>3 DEF Straight
    <3> QED
      BY <1>9, <2>3, <3>1
  <2> QED
    BY <2>1, <2>2, <2>3
\* the chunks of each leaf were in the one at its place
<1>15. ASSUME NEW q \in 1 .. n + 1, NEW c \in ch2[f2[q].sector]
       PROVE  /\ c \in ch[f[o(q)].sector] /\ c \in Int
              /\ q = p => c < k
              /\ q = p + 1 => k <= c
  <2>0. \A u \in DOMAIN ch : \A d \in ch[u] : d \in Int
    BY DEF Numbered
  <2>1. CASE q = p + 1
    BY <1>3, <1>4, <1>7, <1>10, <1>15, <2>0, <2>1
  <2>2. CASE q = p
    BY <1>4, <1>7, <1>10, <1>15, <2>0, <2>2
  <2>3. CASE q # p /\ q # p + 1
    <3>1. f2[q] = f[o(q)] /\ o(q) # p
      BY <1>7, <1>9, <1>10, <2>3
    <3>2. f[o(q)].sector # s /\ f[o(q)].sector \in DOMAIN ch
      BY <1>7, <3>1 DEF Straight
    <3> QED
      BY <1>4, <1>15, <2>0, <2>3, <3>1, <3>2
  <2> QED
    BY <2>1, <2>2, <2>3
<1>16. ASSUME NEW x \in 1 .. n + 1, NEW y \in 1 .. n + 1, x < y, NEW c \in ch2[f2[x].sector]
       PROVE  c < f2[y].key
  <2>1. c \in ch[f[o(x)].sector]
    BY <1>15
  <2>2. CASE x = p /\ y = p + 1
    BY <1>7, <1>15, <2>2
  <2>3. CASE ~(x = p /\ y = p + 1)
    <3>1. o(x) < o(y)
      BY <1>8, <1>16, <2>3
    <3>2. c < f[o(y)].key
      BY <1>7, <2>1, <3>1 DEF Straight
    <3>3. CASE y # p + 1
      BY <1>7, <3>2, <3>3
    <3>4. CASE y = p + 1
      <4>1. f2[y].key = k /\ o(y) = p
        BY <1>7, <1>10, <3>4
      <4>2. p >= 2
        BY <1>1, <1>7, <3>1, <4>1
      <4>3. f[p].key <= k
        BY <1>1, <1>4, <4>2 DEF Straight
      <4> QED
        BY <1>1, <1>3, <1>15, <3>2, <4>1, <4>3
    <3> QED
      BY <3>3, <3>4
  <2> QED
    BY <2>2, <2>3
<1>17. ASSUME NEW y \in 2 .. n + 1, NEW c \in ch2[f2[y].sector]
       PROVE  f2[y].key <= c
  <2>1. CASE y = p + 1
    BY <1>7, <1>10, <1>15, <1>17, <2>1
  <2>2. CASE y # p + 1
    <3>1. o(y) \in 2 .. n /\ f2[y] = f[o(y)]
      BY <1>7, <1>11, <2>2
    <3> QED
      BY <1>11, <1>15, <1>17, <3>1 DEF Straight
  <2> QED
    BY <2>1, <2>2
<1>18. ASSUME NEW y \in 2 .. n + 1
       PROVE  f2[y].key > 0
  <2>1. CASE y = p + 1
    BY <1>6, <1>7, <1>10, <2>1
  <2>2. CASE y # p + 1
    BY <1>7, <1>11, <2>2 DEF Straight
  <2> QED
    BY <2>1, <2>2
<1>19. ASSUME NEW x \in 2 .. n + 1, NEW y \in 2 .. n + 1, x < y
       PROVE  f2[x].key <= f2[y].key
  <2>0. x \in 1 .. n + 1 /\ y \in 1 .. n + 1 /\ x >= 2
    BY <1>11
  <2>1. CASE x = p + 1
    <3>1. y # p + 1 /\ f2[x].key = k /\ o(x) = p /\ f2[y] = f[o(y)]
      BY <1>1, <1>7, <1>10, <1>19, <2>0, <2>1
    <3>2. o(x) < o(y)
      BY <1>1, <1>8, <1>19, <2>0, <2>1
    <3>3. k < f[o(y)].key
      BY <1>4, <1>7, <2>0, <3>1, <3>2 DEF Straight
    <3>4. f[o(y)].key \in Int
      BY <1>1, <1>7, <2>0
    <3> QED
      BY <1>3, <3>1, <3>3, <3>4
  <2>2. CASE y = p + 1
    <3>1. f2[y].key = k /\ x # p + 1 /\ f2[x] = f[o(x)] /\ o(x) \in 2 .. n /\ p >= 2 /\ p \in 2 .. n
      BY <1>1, <1>7, <1>10, <1>11, <1>19, <2>0, <2>2
    <3>2. f[p].key <= k
      BY <1>4, <3>1 DEF Straight
    <3>3. o(x) = p \/ o(x) < p
      BY <1>1, <1>19, <2>2, <3>1 DEF o
    <3>4. f[o(x)].key <= f[p].key \/ o(x) = p
      BY <3>1, <3>3 DEF Straight
    <3>5. f[o(x)].key \in Int /\ f[p].key \in Int
      BY <1>1, <1>7, <2>0
    <3> QED
      BY <1>3, <3>1, <3>2, <3>4, <3>5
  <2>3. CASE x # p + 1 /\ y # p + 1
    <3>1. o(x) < o(y)
      BY <1>8, <1>19, <2>0, <2>3
    <3> QED
      BY <1>7, <1>11, <2>0, <2>3, <3>1 DEF Straight
  <2> QED
    BY <2>1, <2>2, <2>3
<1> QED
  BY <1>12, <1>13, <1>14, <1>16, <1>17, <1>18, <1>19 DEF Straight, f2

\* The chunks of t are those of s, too.
JoinIn(ch, s, t, ch2) ==
    /\ s \in DOMAIN ch /\ t \in DOMAIN ch /\ s # t /\ DOMAIN ch2 = DOMAIN ch \ {t}
    /\ ch2[s] = ch[s] \union ch[t]
    /\ \A u \in DOMAIN ch : u # s /\ u # t => ch2[u] = ch[u]

\* A leaf goes into the one before it.
LEMMA StraightMerges ==
    ASSUME NEW f, NEW n, NEW ch, Straight(f, n, ch), Listed(f, n), Numbered(ch),
           NEW p, p \in 1 .. n - 1, NEW r, r = p + 1, NEW ch2, JoinIn(ch, f[p].sector, f[r].sector, ch2)
    PROVE  Straight(RemoveAt(f, r), n - 1, ch2)
<1> DEFINE f2 == RemoveAt(f, r)
           s == f[p].sector
           t == f[r].sector
<1>1. n \in Nat /\ p \in Int /\ p >= 1 /\ r \in 1 .. n /\ p \in 1 .. n /\ p # r
      /\ \A q \in 1 .. n : f[q] \in Entry /\ f[q].key \in Int /\ f[q].sector \in Sectors
  BY ListedIs
<1>2. \A q \in 1 .. n - 1 : f2[q] = IF q < r THEN f[q] ELSE f[q + 1]
  <2>1. f \in Seq(Entry) /\ r \in 1 .. Len(f) /\ Len(f) = n
    BY <1>1 DEF Listed
  <2>2. Removed(f, r, f2)
    BY <2>1, RemoveAtIs
  <2> QED
    BY <2>1, <2>2 DEF Removed
<1> HIDE DEF f2
<1>3. /\ s \in DOMAIN ch /\ t \in DOMAIN ch /\ s # t /\ DOMAIN ch2 = DOMAIN ch \ {t}
      /\ ch2[s] = ch[s] \union ch[t]
      /\ \A u \in DOMAIN ch : u # s /\ u # t => ch2[u] = ch[u]
  BY DEF JoinIn
<1> DEFINE o(q) == IF q <= p THEN q ELSE q + 1
<1>4. \A q \in 1 .. n - 1 : o(q) \in 1 .. n /\ o(q) # r /\ f2[q] = f[o(q)] /\ q \in 1 .. n
  <2> TAKE q \in 1 .. n - 1
  <2>1. q < r <=> q <= p
    BY <1>1
  <2>2. o(q) \in 1 .. n /\ o(q) # r /\ q \in 1 .. n
    BY <1>1
  <2> QED
    BY <1>2, <2>1, <2>2
<1>5. \A x, y \in 1 .. n - 1 : x < y => o(x) < o(y) /\ (y > p => r < o(y))
  BY <1>1
<1>6. \A x, y \in 1 .. n - 1 : o(x) = o(y) => x = y
  BY <1>1
<1>7. o(p) = p /\ p \in 1 .. n - 1
  BY <1>1
<1>8. \A y \in 2 .. n - 1 : y \in 1 .. n - 1 /\ o(y) \in 2 .. n
  BY <1>1
<1> HIDE DEF o
<1>9. \A q \in 1 .. n - 1 : f2[q].sector \in DOMAIN ch2
  BY <1>1, <1>3, <1>4 DEF Straight
<1>10. ASSUME NEW u \in DOMAIN ch2
       PROVE  \E q \in 1 .. n - 1 : f2[q].sector = u
  <2>1. PICK h \in 1 .. n : f[h].sector = u
    BY <1>3 DEF Straight
  <2>2. h # r
    BY <1>3, <2>1
  <2> DEFINE q == IF h <= p THEN h ELSE h - 1
  <2>3. q \in 1 .. n - 1 /\ o(q) = h
    BY <1>1, <2>2 DEF o
  <2> QED
    BY <1>4, <2>1, <2>3
<1>11. ASSUME NEW x \in 1 .. n - 1, NEW y \in 1 .. n - 1, f2[x].sector = f2[y].sector
       PROVE  x = y
  <2>1. o(x) = o(y)
    BY <1>4, <1>11 DEF Straight
  <2> QED
    BY <1>6, <2>1
\* a chunk was in the leaf at its place, or in the one that goes
<1>12. ASSUME NEW q \in 1 .. n - 1, NEW c \in ch2[f2[q].sector]
       PROVE  c \in Int /\ (c \in ch[f[o(q)].sector] \/ (q = p /\ c \in ch[t]))
  <2>0. \A u \in DOMAIN ch : \A d \in ch[u] : d \in Int
    BY DEF Numbered
  <2>1. CASE q = p
    BY <1>3, <1>4, <1>7, <1>12, <2>0, <2>1
  <2>2. CASE q # p
    <3>1. o(q) # p /\ o(q) # r /\ o(q) \in 1 .. n /\ f2[q] = f[o(q)]
      BY <1>4, <1>6, <1>7, <2>2
    <3>2. f[o(q)].sector # s /\ f[o(q)].sector # t /\ f[o(q)].sector \in DOMAIN ch
      BY <1>1, <3>1 DEF Straight
    <3> QED
      BY <1>3, <1>12, <2>0, <3>1, <3>2
  <2> QED
    BY <2>1, <2>2
<1>13. ASSUME NEW x \in 1 .. n - 1, NEW y \in 1 .. n - 1, x < y, NEW c \in ch2[f2[x].sector]
       PROVE  c < f2[y].key
  <2>1. CASE c \in ch[f[o(x)].sector]
    BY <1>4, <1>5, <1>13, <2>1 DEF Straight
  <2>2. CASE x = p /\ c \in ch[t]
    <3>1. r < o(y) /\ o(y) \in 1 .. n
      BY <1>4, <1>5, <1>13, <2>2
    <3> QED
      BY <1>1, <1>4, <2>2, <3>1 DEF Straight
  <2> QED
    BY <1>12, <2>1, <2>2
<1>14. ASSUME NEW y \in 2 .. n - 1, NEW c \in ch2[f2[y].sector]
       PROVE  f2[y].key <= c
  <2>0. y \in 1 .. n - 1 /\ o(y) \in 2 .. n /\ f2[y] = f[o(y)]
    BY <1>4, <1>8
  <2>1. CASE c \in ch[f[o(y)].sector]
    BY <2>0, <2>1 DEF Straight
  <2>2. CASE y = p /\ c \in ch[t]
    <3>1. o(y) = p /\ p \in 2 .. n /\ r \in 2 .. n
      BY <1>1, <1>7, <2>0, <2>2
    <3>2. f[r].key <= c /\ f[p].key <= f[r].key
      BY <1>1, <2>2, <3>1 DEF Straight
    <3>3. f[r].key \in Int /\ f[p].key \in Int /\ c \in Int
      BY <1>1, <1>3, <2>2 DEF Numbered
    <3> QED
      BY <2>0, <3>1, <3>2, <3>3
  <2> QED
    BY <1>12, <2>0, <2>1, <2>2
<1>15. \A y \in 2 .. n - 1 : f2[y].key > 0
  BY <1>4, <1>8 DEF Straight
<1>16. \A x, y \in 2 .. n - 1 : x < y => f2[x].key <= f2[y].key
  BY <1>4, <1>5, <1>8 DEF Straight
<1> QED
  BY <1>9, <1>10, <1>11, <1>13, <1>14, <1>15, <1>16 DEF Straight, f2

\* The entries of the m nodes rows, one behind the other, separate the chunks of
\* the leaves.
Ranks(rows, m, ch) == \E n, f, b : Flat(rows, m, n, f, b) /\ Straight(f, n, ch)

\* The list of the nodes is one of entries.
LEMMA FlatListed ==
    ASSUME NEW rows, NEW m, NEW n, NEW f, NEW b, Flat(rows, m, n, f, b)
    PROVE  Listed(f, n)
BY DEF Flat, Listed

\* Chunks that go do not disturb the order.
LEMMA RanksShrink ==
    ASSUME NEW rows, NEW m, NEW ch, Ranks(rows, m, ch),
           NEW ch2, DOMAIN ch2 = DOMAIN ch, \A s \in DOMAIN ch : ch2[s] \subseteq ch[s]
    PROVE  Ranks(rows, m, ch2)
<1>1. PICK n, f, b : Flat(rows, m, n, f, b) /\ Straight(f, n, ch)
  BY DEF Ranks
<1>2. Straight(f, n, ch2)
  BY <1>1, FlatListed, StraightShrinks
<1> QED
  BY <1>1, <1>2 DEF Ranks

\* The order is one of the nodes' entries.
LEMMA RanksSame ==
    ASSUME NEW rows, NEW m, NEW ch, Ranks(rows, m, ch),
           NEW rows2, \A i \in 1 .. m : rows2[i] = rows[i]
    PROVE  Ranks(rows2, m, ch)
<1>1. PICK n, f, b : Flat(rows, m, n, f, b) /\ Straight(f, n, ch)
  BY DEF Ranks
<1>2. Flat(rows2, m, n, f, b)
  BY <1>1 DEF Flat
<1> QED
  BY <1>1, <1>2 DEF Ranks

\* Entry j of node i leads to a leaf.
LEMMA RanksReach ==
    ASSUME NEW rows, NEW m, NEW ch, Ranks(rows, m, ch), NEW i, i \in 1 .. m,
           NEW j, j \in 1 .. Len(rows[i])
    PROVE  rows[i][j].sector \in DOMAIN ch
<1>1. PICK n, f, b : Flat(rows, m, n, f, b) /\ Straight(f, n, ch)
  BY DEF Ranks
<1>2. (b[i] + j) - 1 \in 1 .. n /\ f[(b[i] + j) - 1] = rows[i][j]
  BY <1>1, FlatAt
<1> QED
  BY <1>1, <1>2 DEF Straight

\* The leaf of an entry is split: the new one gets the entry behind.
LEMMA RanksSplit ==
    ASSUME NEW rows, NEW m, NEW ch, Ranks(rows, m, ch), Numbered(ch),
           NEW i, NEW rows2, OnlyRow(rows, rows2, m, i), NEW j, j \in 1 .. Len(rows[i]),
           NEW k, k = j + 1, NEW e, e \in Entry, rows2[i] = InsertAt(rows[i], k, e),
           NEW ch2, SplitIn(ch, rows[i][j].sector, e.key, e.sector, ch2)
    PROVE  Ranks(rows2, m, ch2)
<1>1. PICK n, f, b : Flat(rows, m, n, f, b) /\ Straight(f, n, ch)
  BY DEF Ranks
<1> DEFINE a == b[i]
           p == (a + j) - 1
<1>2. i \in 1 .. m
  BY DEF OnlyRow
<1>3. p \in 1 .. n /\ f[p] = rows[i][j] /\ a \in Int /\ Len(rows[i]) \in Nat
  BY <1>1, <1>2, FlatAt
<1>4. k \in 1 .. Len(rows[i]) + 1
  BY <1>3
<1>5. Flat(rows2, m, n + 1, InsertAt(f, (a + k) - 1, e), Later(b, m, i, 1))
  BY <1>1, <1>4, FlatInsert
<1>6. (a + k) - 1 = p + 1
  BY <1>3
<1>7. SplitIn(ch, f[p].sector, e.key, e.sector, ch2)
  BY <1>3
<1> HIDE DEF p
<1>8. Straight(InsertAt(f, p + 1, e), n + 1, ch2)
  BY <1>1, <1>3, <1>7, FlatListed, StraightSplits
<1> QED
  BY <1>5, <1>6, <1>8 DEF Ranks

\* Node i is cut in two.
LEMMA RanksCut ==
    ASSUME NEW rows, NEW m, NEW ch, Ranks(rows, m, ch), NEW i, NEW rows2, Parted(rows, m, i, rows2)
    PROVE  Ranks(rows2, m + 1, ch)
BY FlatCut DEF Ranks

\* Two nodes are one.
LEMMA RanksJoined ==
    ASSUME NEW rows, NEW m, NEW i, NEW rows2, Parted(rows, m, i, rows2), NEW ch,
           Ranks(rows2, m + 1, ch)
    PROVE  Ranks(rows, m, ch)
BY FlatJoin DEF Ranks

\* Entry h of node k is the one before entry j of node i.
Precedes(rows, k, h, i, j) ==
    IF j # 1 THEN k = i /\ h = j - 1
    ELSE k = i - 1 /\ h = Len(rows[k]) /\ h \in Nat \ {0}

\* The leaf of an entry goes into the one of the entry before.
LEMMA RanksMerge ==
    ASSUME NEW rows, NEW m, NEW ch, Ranks(rows, m, ch), Numbered(ch),
           NEW i, NEW rows2, OnlyRow(rows, rows2, m, i), NEW j, j \in 1 .. Len(rows[i]),
           rows2[i] = RemoveAt(rows[i], j),
           NEW k, k \in 1 .. m, NEW h, Precedes(rows, k, h, i, j),
           NEW ch2, JoinIn(ch, rows[k][h].sector, rows[i][j].sector, ch2)
    PROVE  Ranks(rows2, m, ch2)
<1>1. PICK n, f, b : Flat(rows, m, n, f, b) /\ Straight(f, n, ch)
  BY DEF Ranks
<1> DEFINE a == b[i]
           r == (a + j) - 1
           p == (b[k] + h) - 1
<1>2. i \in 1 .. m
  BY DEF OnlyRow
<1>3. r \in 1 .. n /\ f[r] = rows[i][j] /\ a \in Int /\ Len(rows[i]) \in Nat
  <2>1. Flat(rows, m, n, f, b) /\ j \in 1 .. Len(rows[i])
    BY <1>1
  <2> QED
    BY ONLY <1>2, <2>1, FlatAt
<1>4. h \in 1 .. Len(rows[k])
  <2>1. CASE j # 1
    BY <1>3, <2>1 DEF Precedes
  <2>2. CASE j = 1
    BY <2>2 DEF Precedes
  <2> QED
    BY <2>1, <2>2
<1>5. p \in 1 .. n /\ f[p] = rows[k][h] /\ b[k] \in Int /\ b[k + 1] = b[k] + Len(rows[k]) /\ Len(rows[k]) \in Nat
  BY <1>1, <1>4, FlatAt
<1>6. r = p + 1
  <2>1. CASE j # 1
    <3>1. k = i /\ h = j - 1
      BY <2>1 DEF Precedes
    <3>2. p = (a + (j - 1)) - 1
      BY <3>1
    <3> QED
      BY <1>3, <3>2
  <2>2. CASE j = 1
    <3>1. k = i - 1 /\ h = Len(rows[k])
      BY <2>2 DEF Precedes
    <3>2. k + 1 = i
      BY <1>2, <3>1
    <3>3. a = b[k] + h
      BY <1>5, <3>1, <3>2
    <3> QED
      BY <1>3, <1>5, <2>2, <3>3
  <2> QED
    BY <2>1, <2>2
<1>7. Flat(rows2, m, n - 1, RemoveAt(f, r), Later(b, m, i, -1))
  BY <1>1, FlatRemove
<1>8. JoinIn(ch, f[p].sector, f[r].sector, ch2)
  BY <1>3, <1>5
<1> HIDE DEF p, r
<1>9. p \in 1 .. n - 1
  <2>1. n \in Nat
    BY <1>1 DEF Flat
  <2> QED
    BY <1>3, <1>5, <1>6, <2>1
<1>10. Straight(RemoveAt(f, r), n - 1, ch2)
  BY <1>1, <1>6, <1>8, <1>9, FlatListed, StraightMerges
<1> QED
  BY <1>7, <1>10 DEF Ranks

\* Chunk c belongs to entry j of node i: it is between the keys of that and of
\* the entry behind.
Guides(rows, m, i, j, c) ==
    /\ i \in 1 .. m /\ j \in 1 .. Len(rows[i])
    /\ j # 1 \/ i # 1 => rows[i][j].key <= c
    /\ j < Len(rows[i]) => c < rows[i][j + 1].key
    /\ j = Len(rows[i]) /\ i < m => Len(rows[i + 1]) \in Nat \ {0} /\ c < rows[i + 1][1].key

\* It is then between the keys of all entries before and behind.
LEMMA GuidesAt ==
    ASSUME NEW rows, NEW m, NEW n, NEW f, NEW b, Flat(rows, m, n, f, b),
           NEW ch, Straight(f, n, ch), NEW c, c \in Nat,
           NEW i, NEW j, Guides(rows, m, i, j, c)
    PROVE  \E p \in 1 .. n : /\ f[p] = rows[i][j]
                             /\ p >= 2 => f[p].key <= c
                             /\ \A q \in 1 .. n : p < q => c < f[q].key
<1> DEFINE p == (b[i] + j) - 1
<1>1. i \in 1 .. m /\ j \in 1 .. Len(rows[i])
  BY DEF Guides
<1>2. /\ p \in 1 .. n /\ f[p] = rows[i][j]
      /\ b[i] \in Int /\ b[i + 1] = b[i] + Len(rows[i]) /\ Len(rows[i]) \in Nat
  BY <1>1, FlatAt
<1>20. p = (b[i] + j) - 1 /\ j \in Int
  BY <1>1
<1> HIDE DEF p
<1>3. /\ b[1] = 1 /\ b[m + 1] = n + 1 /\ n \in Nat /\ m \in Nat
  BY DEF Flat
<1>4. p >= 2 => j # 1 \/ i # 1
  BY <1>1, <1>2, <1>3, <1>20
<1>5. p >= 2 => f[p].key <= c
  BY <1>2, <1>4 DEF Guides
<1>6. ASSUME p + 1 \in 1 .. n
      PROVE  c < f[p + 1].key
  <2>1. CASE j < Len(rows[i])
    <3>1. j + 1 \in 1 .. Len(rows[i]) /\ (b[i] + (j + 1)) - 1 = p + 1
      <4> DEFINE len == Len(rows[i])
                 u == b[i]
      <4>1. j \in 1 .. len /\ len \in Nat /\ u \in Int /\ p = (u + j) - 1 /\ j < len
        BY ONLY <1>1, <1>2, <1>20, <2>1
      <4> HIDE DEF len, u
      <4>2. j + 1 \in 1 .. len /\ (u + (j + 1)) - 1 = p + 1
        BY ONLY <4>1
      <4> QED
        BY ONLY <4>2 DEF len, u
    <3>2. f[p + 1] = rows[i][j + 1]
      BY <1>1, <3>1, FlatAt
    <3> QED
      BY <2>1, <3>2 DEF Guides
  <2>2. CASE j = Len(rows[i])
    <3>1. b[i + 1] = p + 1
      BY <1>1, <1>2, <1>20, <2>2
    <3>2. i # m
      BY <1>2, <1>3, <1>6, <3>1
    <3>3. i < m /\ i + 1 \in 1 .. m
      BY <1>1, <1>3, <3>2
    <3>4. Len(rows[i + 1]) \in Nat \ {0} /\ c < rows[i + 1][1].key
      BY <2>2, <3>3 DEF Guides
    <3>5. 1 \in 1 .. Len(rows[i + 1])
      BY <3>4
    <3>6. f[(b[i + 1] + 1) - 1] = rows[i + 1][1]
      BY <3>3, <3>5, FlatAt
    <3>7. (b[i + 1] + 1) - 1 = p + 1
      BY <1>2, <3>1
    <3> QED
      BY <3>4, <3>6, <3>7
  <2>3. j < Len(rows[i]) \/ j = Len(rows[i])
    BY <1>1, <1>2
  <2> QED
    BY <2>1, <2>2, <2>3
<1>7. ASSUME NEW q \in 1 .. n, p < q
      PROVE  c < f[q].key
  <2>1. p + 1 \in 1 .. n /\ p + 1 \in 2 .. n /\ q \in 2 .. n /\ (q = p + 1 \/ p + 1 < q)
    BY <1>2, <1>3, <1>7
  <2>2. c < f[p + 1].key
    BY <1>6, <2>1
  <2>3. q = p + 1 \/ f[p + 1].key <= f[q].key
    BY <2>1 DEF Straight
  <2>4. f[p + 1].key \in Int /\ f[q].key \in Int
    BY <2>1, FlatListed, ListedIs
  <2> QED
    BY <2>2, <2>3, <2>4
<1> QED
  BY <1>2, <1>5, <1>7

\* The leaf a chunk belongs to gets it.
LEMMA RanksAdd ==
    ASSUME NEW rows, NEW m, NEW ch, Ranks(rows, m, ch), Numbered(ch), NEW c, c \in Nat,
           NEW i, NEW j, Guides(rows, m, i, j, c), NEW s, s = rows[i][j].sector,
           NEW ch2, DOMAIN ch2 = DOMAIN ch, ch2[s] = ch[s] \union {c},
           \A t \in DOMAIN ch : t # s => ch2[t] = ch[t]
    PROVE  Ranks(rows, m, ch2)
<1>1. PICK n, f, b : Flat(rows, m, n, f, b) /\ Straight(f, n, ch)
  BY DEF Ranks
<1>2. PICK p \in 1 .. n : /\ f[p] = rows[i][j]
                          /\ p >= 2 => f[p].key <= c
                          /\ \A q \in 1 .. n : p < q => c < f[q].key
  <2>1. c \in Nat /\ Guides(rows, m, i, j, c)
    OBVIOUS
  <2> QED
    BY ONLY <1>1, <2>1, GuidesAt
<1>3. Straight(f, n, ch2)
  BY <1>1, <1>2, FlatListed, StraightAdds
<1> QED
  BY <1>1, <1>3 DEF Ranks

\* A chunk that is in a leaf is in the one it belongs to.
LEMMA RanksFind ==
    ASSUME NEW rows, NEW m, NEW ch, Ranks(rows, m, ch), Numbered(ch), NEW c, c \in Nat,
           NEW i, NEW j, Guides(rows, m, i, j, c)
    PROVE  \A s \in DOMAIN ch : c \in ch[s] => s = rows[i][j].sector
<1> SUFFICES ASSUME NEW s \in DOMAIN ch, c \in ch[s]
             PROVE  s = rows[i][j].sector
  OBVIOUS
<1>1. PICK n, f, b : Flat(rows, m, n, f, b) /\ Straight(f, n, ch)
  BY DEF Ranks
<1>2. PICK p \in 1 .. n : /\ f[p] = rows[i][j]
                          /\ p >= 2 => f[p].key <= c
                          /\ \A q \in 1 .. n : p < q => c < f[q].key
  <2>1. c \in Nat /\ Guides(rows, m, i, j, c)
    OBVIOUS
  <2> QED
    BY ONLY <1>1, <2>1, GuidesAt
<1>3. PICK q \in 1 .. n : f[q].sector = s
  BY <1>1 DEF Straight
<1>4. n \in Nat /\ f[p].key \in Int /\ f[q].key \in Int
  BY <1>1, <1>2, <1>3, FlatListed, ListedIs
<1>5. CASE q < p
  <2>1. c < f[p].key
    BY <1>1, <1>2, <1>3, <1>5 DEF Straight
  <2>2. p >= 2
    BY <1>2, <1>3, <1>4, <1>5
  <2> QED
    BY <1>2, <1>4, <2>1, <2>2
<1>6. CASE p < q
  <2>1. q \in 2 .. n
    BY <1>2, <1>3, <1>4, <1>6
  <2>2. f[q].key <= c
    BY <1>1, <1>3, <2>1 DEF Straight
  <2> QED
    BY <1>2, <1>3, <1>4, <1>6, <2>2
<1>7. CASE p = q
  BY <1>2, <1>3, <1>7
<1> QED
  BY <1>2, <1>3, <1>4, <1>5, <1>6, <1>7

-----------------------------------------------------------------------------
(* The lowest index nodes of a tree of one or two levels. *)

\* How many there are, and which is the one at place i.
LowCount(index, top, depth) == IF depth = 1 THEN 1 ELSE Len(index[top])
LowNode(index, top, depth, i) == IF depth = 1 THEN top ELSE index[top][i].sector

\* These are their entries.
RowsAre(index, top, depth, rows, m) ==
    m = LowCount(index, top, depth) /\ \A i \in 1 .. m : rows[i] = index[LowNode(index, top, depth, i)]

\* The key of an entry of the root, after the first, is the first one of the
\* node it leads to, if that has entries.
Headed(index, top, depth) ==
    depth = 2 => \A i \in 2 .. Len(index[top]) :
                    Len(index[index[top][i].sector]) >= 1
                       => index[top][i].key = index[index[top][i].sector][1].key

\* The keys are in order: they lead to the chunks of the leaves.
InLine(index, top, depth, ch) ==
    \E rows, m : RowsAre(index, top, depth, rows, m) /\ Ranks(rows, m, ch)

\* The order is one of the entries of the lowest nodes.
LEMMA InLineIs ==
    ASSUME NEW index, NEW top, NEW depth, NEW ch, NEW rows, NEW m, RowsAre(index, top, depth, rows, m)
    PROVE  InLine(index, top, depth, ch) <=> Ranks(rows, m, ch)
<1>1. ASSUME NEW rows2, NEW m2, RowsAre(index, top, depth, rows2, m2), Ranks(rows2, m2, ch)
      PROVE  Ranks(rows, m, ch)
  <2>1. m2 = m /\ \A i \in 1 .. m : rows[i] = rows2[i]
    BY <1>1 DEF RowsAre
  <2> QED
    BY <1>1, <2>1, RanksSame
<1> QED
  BY <1>1 DEF InLine

\* There is such a list of nodes.
LEMMA RowsExist ==
    ASSUME NEW index, NEW top, NEW depth
    PROVE  \E rows, m : RowsAre(index, top, depth, rows, m)
<1> DEFINE m == LowCount(index, top, depth)
           rows == [i \in 1 .. m |-> index[LowNode(index, top, depth, i)]]
<1>1. \A i \in 1 .. m : rows[i] = index[LowNode(index, top, depth, i)]
  OBVIOUS
<1> QED
  BY <1>1 DEF RowsAre

\* Every node on the lowest level is at one place of the list.
LEMMA LowNodesAre ==
    ASSUME NEW leafs, NEW index, NEW top, NEW depth, NEW lv, Rooted(leafs, index, top, depth, lv),
           depth \in 1 .. 2, NEW m, m = LowCount(index, top, depth)
    PROVE  /\ m \in Nat
           /\ \A i \in 1 .. m : /\ LowNode(index, top, depth, i) \in DOMAIN index
                                /\ lv[LowNode(index, top, depth, i)] = depth
                                /\ index[LowNode(index, top, depth, i)] \in Seq(Entry)
                                /\ Len(index[LowNode(index, top, depth, i)]) \in Nat
           /\ \A i, k \in 1 .. m :
                 LowNode(index, top, depth, i) = LowNode(index, top, depth, k) => i = k
           /\ \A s \in DOMAIN index : lv[s] = depth => \E i \in 1 .. m : s = LowNode(index, top, depth, i)
           /\ \A s \in DOMAIN index : lv[s] # depth => s = top
<1>1. /\ index \in [DOMAIN index -> Seq(Entry)]
      /\ leafs \intersect DOMAIN index = {}
      /\ \A s \in DOMAIN index : lv[s] \in 1 .. depth
      /\ \A b \in Blocks(leafs, index) : b \in leafs <=> lv[b] = depth + 1
  <2>1. \A b \in Blocks(leafs, index) : lv[b] \in 1 .. depth + 1
    BY DEF Rooted, Forest, Levelled
  <2>2. \A s \in DOMAIN index : s \notin leafs /\ s \in Blocks(leafs, index)
    BY DEF Rooted, Forest, Levelled, Blocks
  <2>3. \A b \in Blocks(leafs, index) : b \in leafs <=> lv[b] = depth + 1
    BY DEF Rooted, Forest, Levelled
  <2>4. \A s \in DOMAIN index : lv[s] \in 1 .. depth
    BY <2>1, <2>2, <2>3
  <2>5. index \in [DOMAIN index -> Seq(Entry)] /\ leafs \intersect DOMAIN index = {}
    BY DEF Rooted, Forest, Levelled
  <2> QED
    BY <2>3, <2>4, <2>5
<1>2. /\ Hanging(leafs, index, {top}, lv) /\ Once(index) /\ top \in DOMAIN index /\ lv[top] = 1
      /\ \A b \in Blocks(leafs, index) \ {top} : InEntry(index, b)
  BY DEF Rooted, Forest
<1>3. \A s \in DOMAIN index : index[s] \in Seq(Entry) /\ Len(index[s]) \in Nat
  BY <1>1, LenProperties
\* only the root is on the first level
<1>4. ASSUME NEW s \in DOMAIN index, s # top
      PROVE  \E t \in DOMAIN index : \E i \in 1 .. Len(index[t]) :
                index[t][i].sector = s /\ lv[s] = lv[t] + 1 /\ lv[t] \in 1 .. depth
  <2>1. s \in Blocks(leafs, index) \ {top}
    BY <1>4 DEF Blocks
  <2>2. PICK t \in DOMAIN index : \E i \in 1 .. Len(index[t]) : index[t][i].sector = s
    BY <1>2, <2>1 DEF InEntry
  <2> QED
    BY <1>1, <1>2, <2>2 DEF Hanging
<1>5. ASSUME NEW s \in DOMAIN index, lv[s] = 1
      PROVE  s = top
  BY <1>4, <1>5
<1>6. CASE depth = 1
  <2>1. m = 1 /\ \A i : LowNode(index, top, depth, i) = top
    BY <1>6 DEF LowCount, LowNode
  <2>2. \A s \in DOMAIN index : lv[s] = 1
    BY <1>1, <1>6
  <2> QED
    BY <1>2, <1>3, <1>5, <1>6, <2>1, <2>2
<1>7. CASE depth = 2
  <2>1. m = Len(index[top]) /\ \A i : LowNode(index, top, depth, i) = index[top][i].sector
    BY <1>7 DEF LowCount, LowNode
  <2>2. ASSUME NEW i \in 1 .. m
        PROVE  index[top][i].sector \in DOMAIN index /\ lv[index[top][i].sector] = 2
    <3>1. index[top][i].sector \in Blocks(leafs, index) /\ lv[index[top][i].sector] = 2
      BY <1>2, <2>1 DEF Hanging
    <3> QED
      BY <1>1, <1>7, <3>1 DEF Blocks
  <2>3. \A i, k \in 1 .. m : index[top][i].sector = index[top][k].sector => i = k
    BY <1>2, <2>1 DEF Once
  <2>4. ASSUME NEW s \in DOMAIN index, lv[s] = 2
        PROVE  \E i \in 1 .. m : s = index[top][i].sector
    <3>1. s # top
      BY <1>2, <2>4
    <3>2. PICK t \in DOMAIN index : \E i \in 1 .. Len(index[t]) :
                index[t][i].sector = s /\ lv[s] = lv[t] + 1 /\ lv[t] \in 1 .. depth
      BY <1>4, <3>1
    <3>3. t = top
      BY <1>5, <1>7, <2>4, <3>2
    <3> QED
      BY <2>1, <3>2, <3>3
  <2>5. \A s \in DOMAIN index : lv[s] # 2 => s = top
    BY <1>1, <1>5, <1>7
  <2>6. /\ m \in Nat
        /\ \A i \in 1 .. m : /\ index[top][i].sector \in DOMAIN index /\ lv[index[top][i].sector] = depth
                             /\ index[index[top][i].sector] \in Seq(Entry)
                             /\ Len(index[index[top][i].sector]) \in Nat
    BY <1>2, <1>3, <1>7, <2>1, <2>2
  <2>7. /\ \A s \in DOMAIN index : lv[s] = depth => \E i \in 1 .. m : s = index[top][i].sector
        /\ \A s \in DOMAIN index : lv[s] # depth => s = top
    BY <1>7, <2>4, <2>5
  <2> QED
    BY ONLY <2>1, <2>3, <2>6, <2>7
<1> QED
  BY <1>6, <1>7

\* A lookup in a node stops behind the last entry, but for the first, whose key
\* is not beyond the chunk.
LEMMA NextEntryIs ==
    ASSUME NEW entries, entries \in Seq(Entry), Len(entries) \in Nat \ {0}, NEW c,
           NEW x, x = NextEntry(entries, c)
    PROVE  /\ x \in 2 .. Len(entries) + 1
           /\ x <= Len(entries) => entries[x].key > c
           /\ \A i \in 2 .. Len(entries) : i < x => ~(entries[i].key > c)
<1> DEFINE S == {i \in 2 .. Len(entries) : entries[i].key > c} \union {Len(entries) + 1}
<1>1. S \in SUBSET (2 .. Len(entries) + 1) /\ S \in SUBSET Nat /\ S # {}
  OBVIOUS
<1>2. \A i \in 2 .. Len(entries) : i \in S <=> entries[i].key > c
  OBVIOUS
<1>3. x = Min(S)
  BY DEF NextEntry
<1> HIDE DEF S
<1>4. \E y \in S : \A z \in S : y <= z
  BY <1>1, LeastNat
<1>5. x \in S /\ \A z \in S : x <= z
  BY <1>3, <1>4 DEF Min
<1>6. x \in 2 .. Len(entries) + 1
  BY <1>1, <1>5
<1>7. x <= Len(entries) => entries[x].key > c
  BY <1>2, <1>5, <1>6
<1>8. \A i \in 2 .. Len(entries) : i < x => ~(entries[i].key > c)
  BY <1>2, <1>5, <1>6
<1> QED
  BY <1>6, <1>7, <1>8

\* The lowest node of a path, by its place, and the entry followed there.
RowAt(path, depth) == IF depth = 1 THEN 1 ELSE path[1].next - 1
EntryAt(path, depth) == path[depth].next - 1

\* Probe comes to the entry that the chunk belongs to.
LEMMA ProbeGuides ==
    ASSUME NEW lv, Tree(lv), \A s \in DOMAIN node : node[s] # <<>>, levels \in 1 .. 2,
           Headed(node, root, levels), NEW rows, NEW m, RowsAre(node, root, levels, rows, m),
           NEW c, c \in Nat, NEW path, path = Probe(c),
           NEW i, i = RowAt(path, levels), NEW j, j = EntryAt(path, levels)
    PROVE  /\ Guides(rows, m, i, j, c) /\ rows[i][j].sector = LeafOf(c)
           /\ rows[i] = node[path[levels].sector]
<1>1. /\ root \in DOMAIN node /\ \A s \in DOMAIN node : node[s] \in Seq(Entry) /\ Len(node[s]) \in Nat \ {0}
      /\ \A s \in DOMAIN node : \A k \in 1 .. Len(node[s]) : node[s][k].key \in Int
  <2>1. \A s \in DOMAIN node : node[s] \in Seq(Entry) /\ Len(node[s]) \in Nat /\ node[s] # <<>>
    BY TreeTypes
  <2>2. \A s \in DOMAIN node : Len(node[s]) # 0
    BY <2>1
  <2>3. \A s \in DOMAIN node : \A k \in 1 .. Len(node[s]) : node[s][k] \in Entry
    BY <2>1
  <2> QED
    BY <2>1, <2>2, <2>3 DEF Tree, Entry
<1>2. \A l \in 1 .. levels :
         LET below == IF l = levels THEN LeafOf(c) ELSE path[l + 1].sector
         IN  /\ path[l].sector \in DOMAIN node
             /\ path[l].next \in 2 .. Len(node[path[l].sector]) + 1
             /\ node[path[l].sector][path[l].next - 1].sector = below
  BY ProbeIs DEF Level
<1>3. \A l \in 1 .. levels : path[l].next = NextEntry(node[path[l].sector], c)
  BY DEF Probe
<1>4. path[1].sector = root
  BY ProbeIs
<1>5. ASSUME NEW l \in 1 .. levels, NEW row, row = node[path[l].sector], NEW x, x = path[l].next
      PROVE  /\ x - 1 \in 1 .. Len(row) /\ Len(row) \in Nat \ {0}
             /\ x - 1 # 1 => row[x - 1].key <= c
             /\ x - 1 < Len(row) => c < row[x].key
  <2>1. /\ row \in Seq(Entry) /\ Len(row) \in Nat \ {0} /\ x \in 2 .. Len(row) + 1
        /\ x = NextEntry(row, c)
        /\ \A k \in 1 .. Len(row) : row[k].key \in Int
    BY <1>1, <1>2, <1>3, <1>5
  <2>2. /\ x <= Len(row) => row[x].key > c
        /\ \A k \in 2 .. Len(row) : k < x => ~(row[k].key > c)
    BY <2>1, NextEntryIs
  <2>3. x - 1 \in 1 .. Len(row) /\ (x - 1 # 1 => x - 1 \in 2 .. Len(row) /\ x - 1 < x)
        /\ (x - 1 < Len(row) => x <= Len(row) /\ x \in 1 .. Len(row))
    BY <2>1
  <2>4. x - 1 # 1 => ~(row[x - 1].key > c) /\ row[x - 1].key \in Int
    BY <2>1, <2>2, <2>3
  <2>5. x - 1 < Len(row) => c < row[x].key
    BY <2>1, <2>2, <2>3
  <2> QED
    BY <2>1, <2>3, <2>4, <2>5
<1>6. CASE levels = 1
  <2>1. m = 1 /\ rows[1] = node[root] /\ i = 1 /\ j = path[1].next - 1 /\ rows[1] = node[path[1].sector]
    BY <1>4, <1>6 DEF RowsAre, LowCount, LowNode, RowAt, EntryAt
  <2>2. /\ j \in 1 .. Len(rows[1]) /\ Len(rows[1]) \in Nat
        /\ j # 1 => rows[1][j].key <= c
        /\ j < Len(rows[1]) => c < rows[1][path[1].next].key
    BY <1>5, <1>6, <2>1
  <2>3. path[1].next = j + 1
    BY <1>2, <1>6, <2>1
  <2>4. Guides(rows, m, i, j, c)
    <3>1. m = 1 /\ i = 1
      BY <2>1
    <3>2. /\ j \in 1 .. Len(rows[1])
          /\ j # 1 => rows[1][j].key <= c
          /\ j < Len(rows[1]) => c < rows[1][j + 1].key
      BY <2>2, <2>3
    <3> QED
      BY ONLY <3>1, <3>2 DEF Guides
  <2> QED
    BY <1>2, <1>6, <2>1, <2>4
<1>7. CASE levels = 2
  <2> DEFINE low == path[2].sector
  <2>1. /\ m = Len(node[root]) /\ \A k \in 1 .. m : rows[k] = node[node[root][k].sector]
        /\ i = path[1].next - 1 /\ j = path[2].next - 1
    BY <1>7 DEF RowsAre, LowCount, LowNode, RowAt, EntryAt
  <2>2. node[root][i].sector = low /\ path[1].next \in 2 .. m + 1
    BY <1>2, <1>4, <1>7, <2>1
  <2>3. path[1].next = i + 1 /\ path[2].next = j + 1
    BY <1>2, <1>7, <2>1
  <2>4. /\ i \in 1 .. m /\ m \in Nat
        /\ i # 1 => node[root][i].key <= c
        /\ i < m => c < node[root][i + 1].key
    <3>1. 1 \in 1 .. levels /\ node[path[1].sector] = node[root]
      BY <1>4, <1>7
    <3>2. /\ path[1].next - 1 \in 1 .. Len(node[root]) /\ Len(node[root]) \in Nat \ {0}
          /\ path[1].next - 1 # 1 => node[root][path[1].next - 1].key <= c
          /\ path[1].next - 1 < Len(node[root]) => c < node[root][path[1].next].key
      BY <1>5, <3>1
    <3> QED
      BY <2>1, <2>3, <3>2
  <2>5. rows[i] = node[low]
    BY <2>1, <2>2, <2>4
  <2>6. /\ j \in 1 .. Len(rows[i]) /\ Len(rows[i]) \in Nat \ {0}
        /\ j # 1 => rows[i][j].key <= c
        /\ j < Len(rows[i]) => c < rows[i][j + 1].key
    <3>1. 2 \in 1 .. levels /\ rows[i] = node[path[2].sector]
      BY <1>7, <2>5
    <3>2. /\ path[2].next - 1 \in 1 .. Len(rows[i]) /\ Len(rows[i]) \in Nat \ {0}
          /\ path[2].next - 1 # 1 => rows[i][path[2].next - 1].key <= c
          /\ path[2].next - 1 < Len(rows[i]) => c < rows[i][path[2].next].key
      BY <1>5, <3>1
    <3> QED
      BY <2>1, <2>3, <3>2
  <2>7. ASSUME NEW k \in 2 .. m
        PROVE  Len(rows[k]) \in Nat \ {0} /\ node[root][k].key = rows[k][1].key
    <3>1. k \in 1 .. m
      BY <2>4
    <3>2. node[root][k].sector \in DOMAIN node
      <4>1. Hanging(DOMAIN leaf, node, {root}, lv)
        BY DEF Tree, Forest
      <4>2. lv[node[root][k].sector] = 2 /\ node[root][k].sector \in Blocks(DOMAIN leaf, node)
        BY <1>1, <2>1, <3>1, <4>1 DEF Hanging, Tree
      <4>3. \A s \in DOMAIN leaf : lv[s] = 3
        BY <1>7, TreeTypes
      <4> QED
        BY <4>2, <4>3 DEF Blocks
    <3>3. Len(node[node[root][k].sector]) \in Nat \ {0} /\ rows[k] = node[node[root][k].sector]
      BY <1>1, <2>1, <3>1, <3>2
    <3> QED
      BY <1>7, <2>1, <3>3 DEF Headed
  <2>8. i # 1 => i \in 2 .. m
    BY <2>4
  <2>9. i < m => i + 1 \in 2 .. m
    BY <2>4
  <2>10. j = 1 /\ i # 1 => rows[i][j].key <= c
    BY <2>4, <2>7, <2>8
  <2>11. i < m => Len(rows[i + 1]) \in Nat \ {0} /\ c < rows[i + 1][1].key
    BY <2>4, <2>7, <2>9
  <2>12. Guides(rows, m, i, j, c)
    BY <2>4, <2>6, <2>10, <2>11 DEF Guides
  <2>13. rows[i][j].sector = LeafOf(c)
    BY <1>2, <1>7, <2>1, <2>5
  <2> QED
    BY <1>7, <2>5, <2>12, <2>13
<1> QED
  BY <1>6, <1>7

-----------------------------------------------------------------------------
(* What the operations on leaves do to all of them. *)

\* The leaves are in order and their exceptions shared as they should be.
Tidy(lf, mask) ==
    \A s \in DOMAIN lf : Neat(lf[s]) /\ \A c : SharesFit(Found(lf[s], c), mask)

\* The chunks of each leaf.
ChunksIn(lf) == [s \in DOMAIN lf |-> Rchunks(lf[s])]

\* They are numbers.
LEMMA ChunksNumbered ==
    ASSUME NEW lf, NEW mask, Tidy(lf, mask)
    PROVE  /\ Numbered(ChunksIn(lf)) /\ DOMAIN ChunksIn(lf) = DOMAIN lf
           /\ \A s \in DOMAIN lf : ChunksIn(lf)[s] = Rchunks(lf[s])
<1>1. \A s \in DOMAIN lf : Rchunks(lf[s]) \subseteq Chunks
  BY NeatFound DEF Tidy
<1> QED
  BY <1>1, LeafAssumption DEF ChunksIn, Numbered

\* make_unique has to make an exception.
Wanted(es, b, active) ==
    /\ b = ORIGIN => ~(active \subseteq SharedBy(es))
    /\ b # ORIGIN => ~ \E e \in es : e.share = {b}

\* Leaf s has one exception more, of chunk c.
Grown(lf, lf2, s, c, b, new, active) ==
    /\ DOMAIN lf2 = DOMAIN lf /\ \A t \in DOMAIN lf : t # s => lf2[t] = lf[t]
    /\ Rchunks(lf2[s]) = Rchunks(lf[s]) \union {c}
    /\ \A d : d # c => Found(lf2[s], d) = Found(lf[s], d)
    /\ Found(lf2[s], c) = WithNew(Found(lf[s], c), b, new, active)

\* An exception is added where there is room.
LEMMA TidyGrows ==
    ASSUME NEW lf, NEW mask, Tidy(lf, mask), NEW s, s \in DOMAIN lf,
           NEW c, c \in Chunks, NEW new, new \in StoreChunks,
           NEW b, b \in Bit \union {ORIGIN}, NEW active, active \in SUBSET Bit,
           active \subseteq mask, b # ORIGIN => b \in mask,
           HasRoom(lf[s], c), Wanted(Found(lf[s], c), b, active),
           NEW lf2, lf2 = With(lf, s, AddExceptionToLeaf(lf[s], c, new, b, active))
    PROVE  Tidy(lf2, mask) /\ Grown(lf, lf2, s, c, b, new, active)
<1> DEFINE l == lf[s]
           x == AddExceptionToLeaf(l, c, new, b, active)
<1>1. Neat(l) /\ \A d : SharesFit(Found(l, d), mask)
  BY DEF Tidy
<1>2. /\ Neat(x) /\ Rchunks(x) = Rchunks(l) \union {c}
      /\ \A d : d # c => Found(x, d) = Found(l, d)
      /\ Found(x, c) = WithNew(Found(l, c), b, new, active)
  <2>1. HasRoom(l, c)
    OBVIOUS
  <2> HIDE DEF l
  <2> QED
    BY <1>1, <2>1, NeatGrows
<1>3. SharesFit(Found(x, c), mask)
  <2> DEFINE es == Found(l, c)
  <2>1. SharesFit(es, mask) /\ \A e \in es : e \in Exception
    BY <1>1, NeatFound
  <2>2. Wanted(es, b, active)
    OBVIOUS
  <2> HIDE DEF es, l, x
  <2>3. SharesFit(WithNew(es, b, new, active), mask)
    BY <2>1, <2>2, SharesGrow DEF Wanted
  <2> QED
    BY <1>2, <2>3 DEF es
<1>4. \A d : SharesFit(Found(x, d), mask)
  <2> TAKE d
  <2>1. CASE d = c
    BY <1>3, <2>1
  <2>2. CASE d # c
    BY <1>1, <1>2, <2>2
  <2> QED
    BY <2>1, <2>2
<1>5. DOMAIN lf2 = DOMAIN lf /\ lf2[s] = x /\ \A t \in DOMAIN lf : t # s => lf2[t] = lf[t]
  <2> HIDE DEF x
  <2>1. lf2 = [lf EXCEPT ![s] = x]
    BY DEF With, x
  <2> QED
    BY <2>1
<1> HIDE DEF x
<1>6. Tidy(lf2, mask)
  BY <1>2, <1>4, <1>5 DEF Tidy
<1> QED
  BY <1>2, <1>5, <1>6 DEF Grown

\* Leaf s is cut at key, and the upper half in n.
Halved(lf, lf2, s, n, key) ==
    /\ DOMAIN lf2 = DOMAIN lf \union {n} /\ \A t \in DOMAIN lf : t # s => lf2[t] = lf[t]
    /\ key \in Rchunks(lf[s]) /\ \E c \in Rchunks(lf[s]) : c < key
    /\ Rchunks(lf2[s]) = {c \in Rchunks(lf[s]) : c < key}
    /\ Rchunks(lf2[n]) = {c \in Rchunks(lf[s]) : ~(c < key)}
    /\ \A c : c < key => Found(lf2[s], c) = Found(lf[s], c)
    /\ \A c : ~(c < key) => Found(lf2[n], c) = Found(lf[s], c)
    /\ Freespace(lf2[s]) >= 3 /\ Freespace(lf2[n]) >= 3

\* A leaf of two chunks or more is split.
LEMMA TidySplits ==
    ASSUME NEW lf, NEW mask, Tidy(lf, mask), NEW s, s \in DOMAIN lf, Count(lf[s]) >= 2,
           NEW n, n \notin DOMAIN lf, NEW lf2, lf2 = SplitAt(lf, s, n),
           NEW key, key = SplitPoint(lf[s])
    PROVE  Tidy(lf2, mask) /\ Halved(lf, lf2, s, n, key)
<1> DEFINE l == lf[s]
           x == Head1(l)
           y == Tail1(l)
<1>1. Neat(l) /\ \A d : SharesFit(Found(l, d), mask)
  BY DEF Tidy
<1>2. /\ Neat(x) /\ Neat(y) /\ key \in Rchunks(l) /\ \E c \in Rchunks(l) : c < key
      /\ Rchunks(x) = {c \in Rchunks(l) : c < key}
      /\ Rchunks(y) = {c \in Rchunks(l) : ~(c < key)}
      /\ \A c : c < key => Found(x, c) = Found(l, c)
      /\ \A c : ~(c < key) => Found(y, c) = Found(l, c)
      /\ Freespace(x) >= 3 /\ Freespace(y) >= 3
  <2>1. Count(l) >= 2 /\ key = SplitPoint(l)
    OBVIOUS
  <2> HIDE DEF l
  <2> QED
    BY <1>1, <2>1, NeatHalves
<1>3. DOMAIN lf2 = DOMAIN lf \union {n} /\ lf2[s] = x /\ lf2[n] = y
      /\ \A t \in DOMAIN lf : t # s => lf2[t] = lf[t]
  BY DEF SplitAt
<1>4. \A d : SharesFit(Found(x, d), mask) /\ SharesFit(Found(y, d), mask)
  <2> TAKE d
  <2>1. SharesFit({}, mask)
    BY DEF SharesFit
  <2>2. CASE d < key
    <3>1. d \notin Rchunks(y)
      BY <1>2, <2>2
    <3>2. Found(y, d) = {}
      BY <1>2, <3>1, NeatFound
    <3> QED
      BY <1>1, <1>2, <2>1, <2>2, <3>2
  <2>3. CASE ~(d < key)
    <3>1. d \notin Rchunks(x)
      BY <1>2, <2>3
    <3>2. Found(x, d) = {}
      BY <1>2, <3>1, NeatFound
    <3> QED
      BY <1>1, <1>2, <2>1, <2>3, <3>2
  <2> QED
    BY <2>2, <2>3
<1> HIDE DEF x, y
<1>5. Tidy(lf2, mask)
  BY <1>2, <1>3, <1>4 DEF Tidy
<1> QED
  BY <1>2, <1>3, <1>5 DEF Halved

\* The bits are taken out of leaf s.
ClearedAt(lf, lf2, s, bits) ==
    /\ DOMAIN lf2 = DOMAIN lf /\ \A t \in DOMAIN lf : t # s => lf2[t] = lf[t]
    /\ Rchunks(lf2[s]) \subseteq Rchunks(lf[s])
    /\ \A c : Found(lf2[s], c) = Cut(Found(lf[s], c), bits)

\* A leaf is cleared.
LEMMA TidyCleared ==
    ASSUME NEW lf, NEW mask, Tidy(lf, mask), NEW s, s \in DOMAIN lf, NEW bits,
           NEW lf2, lf2 = With(lf, s, DeleteFromLeaf(lf[s], bits))
    PROVE  Tidy(lf2, mask) /\ ClearedAt(lf, lf2, s, bits)
<1> DEFINE l == lf[s]
           x == DeleteFromLeaf(l, bits)
<1>1. Neat(l) /\ \A d : SharesFit(Found(l, d), mask)
  BY DEF Tidy
<1>2. Neat(x) /\ Rchunks(x) \subseteq Rchunks(l) /\ \A c : Found(x, c) = Cut(Found(l, c), bits)
  <2> HIDE DEF l
  <2> QED
    BY <1>1, NeatCleared
<1>3. \A d : SharesFit(Found(x, d), mask)
  <2> TAKE d
  <2> DEFINE es == Found(l, d)
  <2>1. SharesFit(es, mask) /\ \A e \in es : e \in Exception
    BY <1>1, NeatFound
  <2>2. Found(x, d) = Cut(es, bits)
    BY <1>2
  <2> HIDE DEF es, x
  <2> QED
    BY <2>1, <2>2, SharesCut
<1>4. DOMAIN lf2 = DOMAIN lf /\ lf2[s] = x /\ \A t \in DOMAIN lf : t # s => lf2[t] = lf[t]
  <2> HIDE DEF x
  <2>1. lf2 = [lf EXCEPT ![s] = x]
    BY DEF With, x
  <2> QED
    BY <2>1
<1> HIDE DEF x
<1>5. Tidy(lf2, mask)
  BY <1>2, <1>3, <1>4 DEF Tidy
<1> QED
  BY <1>2, <1>4, <1>5 DEF ClearedAt

\* Leaf s is put into p, which has the earlier chunks.
LEMMA TidyMerged ==
    ASSUME NEW lf, NEW mask, Tidy(lf, mask), NEW s, s \in DOMAIN lf, NEW p, p \in DOMAIN lf, p # s,
           CanMerge(lf[p], lf[s]), \A c \in Rchunks(lf[p]), d \in Rchunks(lf[s]) : c < d,
           NEW lf2, DOMAIN lf2 = DOMAIN lf \ {s}, lf2[p] = MergeLeaves(lf[p], lf[s]),
           \A t \in DOMAIN lf : t # s /\ t # p => lf2[t] = lf[t]
    PROVE  /\ Tidy(lf2, mask) /\ JoinIn(ChunksIn(lf), p, s, ChunksIn(lf2))
           /\ \A c : Found(lf2[p], c) = Found(lf[p], c) \union Found(lf[s], c)
<1> DEFINE l == lf[p]
           l2 == lf[s]
           x == MergeLeaves(l, l2)
<1>1. Neat(l) /\ Neat(l2) /\ \A d : SharesFit(Found(l, d), mask) /\ SharesFit(Found(l2, d), mask)
  BY DEF Tidy
<1>2. CanMerge(l, l2) /\ \A c \in Rchunks(l), d \in Rchunks(l2) : c < d
  OBVIOUS
<1> HIDE DEF l, l2
<1>3. /\ Neat(x) /\ Rchunks(x) = Rchunks(l) \union Rchunks(l2)
      /\ \A c : Found(x, c) = Found(l, c) \union Found(l2, c)
  BY <1>1, <1>2, NeatMerges
<1>4. \A d : SharesFit(Found(x, d), mask)
  <2> TAKE d
  <2>1. Found(l, d) = {} \/ Found(l2, d) = {}
    <3>1. ~(d \in Rchunks(l) /\ d \in Rchunks(l2))
      <4> SUFFICES ASSUME d \in Rchunks(l), d \in Rchunks(l2)
                   PROVE  FALSE
        OBVIOUS
      <4>1. d < d /\ d \in Nat
        BY <1>1, <1>2, NeatFound, LeafAssumption
      <4> QED
        BY <4>1
    <3> QED
      BY <1>1, <3>1, NeatFound
  <2>2. SharesFit(Found(l, d) \union Found(l2, d), mask)
    BY <1>1, <2>1, SharesJoin
  <2> QED
    BY <1>3, <2>2
<1>5. lf2[p] = x
  BY DEF l, l2
<1> HIDE DEF x
<1>6. Tidy(lf2, mask)
  BY <1>3, <1>4, <1>5 DEF Tidy
<1>7. JoinIn(ChunksIn(lf), p, s, ChunksIn(lf2))
  <2>1. /\ DOMAIN ChunksIn(lf) = DOMAIN lf /\ DOMAIN ChunksIn(lf2) = DOMAIN lf2
        /\ \A t \in DOMAIN lf : ChunksIn(lf)[t] = Rchunks(lf[t])
        /\ \A t \in DOMAIN lf2 : ChunksIn(lf2)[t] = Rchunks(lf2[t])
    BY DEF ChunksIn
  <2>2. Rchunks(lf2[p]) = Rchunks(lf[p]) \union Rchunks(lf[s])
    BY <1>3, <1>5 DEF l, l2
  <2> QED
    BY <2>1, <2>2 DEF JoinIn
<1> QED
  BY <1>3, <1>5, <1>6, <1>7 DEF l, l2

-----------------------------------------------------------------------------
(* The index of an insertion. *)

\* What a full node keeps and what it gives away, with the new entry in one of
\* the two.
LowHalf(entries, next, e) ==
    LET lower == SubSeq(entries, 1, NodeHalf(entries))
    IN  IF next > NodeHalf(entries) + 1 THEN lower ELSE InsertAt(lower, next, e)
HighHalf(entries, next, e) ==
    LET upper == SubSeq(entries, NodeHalf(entries) + 1, Len(entries))
    IN  IF next > NodeHalf(entries) + 1 THEN InsertAt(upper, next - NodeHalf(entries), e) ELSE upper

\* Together they are the node with the new entry, and what was first stays first.
HalvedRow(entries, next, e, low, high) ==
    /\ low \in Seq(Entry) /\ high \in Seq(Entry)
    /\ InsertAt(entries, next, e) = low \o high
    /\ Len(low) \in Nat \ {0} /\ Len(high) \in Nat \ {0}
    /\ low[1] = entries[1] /\ high[1] = entries[NodeHalf(entries) + 1]

\* A part of a list.
LEMMA PartIs ==
    ASSUME NEW S, NEW s, s \in Seq(S), NEW p, NEW q, p \in 1 .. Len(s) + 1, q \in 0 .. Len(s), p <= q + 1,
           NEW r, r = SubSeq(s, p, q)
    PROVE  /\ r \in Seq(S) /\ Len(r) = (q + 1) - p
           /\ \A j \in 1 .. (q + 1) - p : r[j] = s[(p + j) - 1]
<1>0. Len(s) \in Nat
  BY LenProperties
<1> DEFINE n == (q + 1) - p
<1>1. n \in Nat
  BY <1>0
<1>2. r = [j \in 1 .. n |-> s[(p + j) - 1]]
  BY <1>0, <1>1
<1>3. \A j \in 1 .. n : (p + j) - 1 \in 1 .. Len(s)
  BY <1>0, <1>1
<1>4. \A j \in 1 .. n : s[(p + j) - 1] \in S
  BY <1>3
<1>5. r \in [1 .. n -> S]
  BY <1>2, <1>4
<1>6. r \in Seq(S) /\ Len(r) = n
  BY <1>1, <1>5, FunctionIsList
<1> QED
  BY <1>2, <1>6

\* The halves of a node are that.
LEMMA RowHalves ==
    ASSUME NEW entries, entries \in Seq(Entry), Len(entries) >= 2,
           NEW next, next \in 2 .. Len(entries) + 1, NEW e, e \in Entry
    PROVE  HalvedRow(entries, next, e, LowHalf(entries, next, e), HighHalf(entries, next, e))
<1> DEFINE len == Len(entries)
           h == NodeHalf(entries)
           lower == SubSeq(entries, 1, h)
           upper == SubSeq(entries, h + 1, len)
           low == LowHalf(entries, next, e)
           high == HighHalf(entries, next, e)
           all == InsertAt(entries, next, e)
           both == low \o high
<1>1. len \in Nat /\ h \in 1 .. len - 1 /\ h + 1 \in 1 .. len /\ next \in Int
  BY DEF NodeHalf
<1>2. /\ lower \in Seq(Entry) /\ Len(lower) = h
      /\ \A j \in 1 .. h : lower[j] = entries[j]
  <2>1. 1 \in 1 .. Len(entries) + 1 /\ h \in 0 .. Len(entries) /\ 1 <= h + 1 /\ (h + 1) - 1 = h
    BY <1>1
  <2>2. /\ lower \in Seq(Entry) /\ Len(lower) = (h + 1) - 1
        /\ \A j \in 1 .. (h + 1) - 1 : lower[j] = entries[(1 + j) - 1]
    <3> HIDE DEF h
    <3> QED
      BY <2>1, PartIs
  <2>3. \A j \in 1 .. h : (1 + j) - 1 = j
    BY <1>1
  <2> QED
    BY <2>1, <2>2, <2>3
<1>3. /\ upper \in Seq(Entry) /\ Len(upper) = len - h
      /\ \A j \in 1 .. len - h : upper[j] = entries[h + j]
  <2>1. h + 1 \in 1 .. Len(entries) + 1 /\ len \in 0 .. Len(entries) /\ h + 1 <= len + 1
        /\ (len + 1) - (h + 1) = len - h
    BY <1>1
  <2>2. /\ upper \in Seq(Entry) /\ Len(upper) = (len + 1) - (h + 1)
        /\ \A j \in 1 .. (len + 1) - (h + 1) : upper[j] = entries[((h + 1) + j) - 1]
    <3> HIDE DEF h, len
    <3> QED
      BY <2>1, PartIs
  <2>3. \A j \in 1 .. len - h : ((h + 1) + j) - 1 = h + j
    BY <1>1
  <2> QED
    BY <2>1, <2>2, <2>3
<1>4. all \in Seq(Entry) /\ Inserted(entries, next, e, all)
  <2>1. next \in 1 .. Len(entries) + 1 /\ entries \in Seq(Entry) /\ e \in Entry
    BY <1>1
  <2> QED
    BY ONLY <2>1, InsertAtIs
<1>5. Len(all) = len + 1 /\ \A j \in 1 .. len + 1 :
         all[j] = IF j < next THEN entries[j] ELSE IF j = next THEN e ELSE entries[j - 1]
  BY <1>4 DEF Inserted
<1>6. CASE next > h + 1
  <2> DEFINE k == next - h
  <2>1. low = lower /\ high = InsertAt(upper, k, e)
    BY <1>6 DEF LowHalf, HighHalf
  <2>2. k \in 2 .. (len - h) + 1
    BY <1>1, <1>6
  <2> HIDE DEF lower, upper, low, high, all, h, k, len
  <2>3. high \in Seq(Entry) /\ Inserted(upper, k, e, high)
    <3>1. k \in 1 .. Len(upper) + 1 /\ upper \in Seq(Entry) /\ e \in Entry
      BY <1>1, <1>3, <2>2
    <3> QED
      BY ONLY <2>1, <3>1, InsertAtIs
  <2>4. Len(high) = (len - h) + 1 /\ \A j \in 1 .. (len - h) + 1 :
           high[j] = IF j < k THEN upper[j] ELSE IF j = k THEN e ELSE upper[j - 1]
    BY <1>3, <2>3 DEF Inserted
  <2>5. /\ both \in Seq(Entry) /\ Len(both) = h + ((len - h) + 1)
        /\ \A j \in 1 .. h + ((len - h) + 1) : both[j] = IF j <= h THEN low[j] ELSE high[j - h]
    BY <1>2, <2>1, <2>3, <2>4, ConcatAt
  <2>6. h + ((len - h) + 1) = len + 1
    BY <1>1
  <2>7. ASSUME NEW j \in 1 .. len + 1
        PROVE  all[j] = both[j]
    <3>1. CASE j <= h
      <4>1. j < next /\ j \in 1 .. h
        BY <1>1, <1>6, <3>1
      <4> QED
        BY <1>2, <1>5, <2>1, <2>5, <2>6, <3>1, <4>1
    <3>2. CASE ~(j <= h)
      <4> DEFINE i == j - h
      <4>1. i \in 1 .. (len - h) + 1 /\ h + i = j /\ (i < k <=> j < next) /\ (i = k <=> j = next)
        BY <1>1, <3>2 DEF k
      <4>2. both[j] = high[i]
        BY <2>5, <2>6, <3>2
      <4>3. CASE i < k
        <5>1. i \in 1 .. len - h
          BY <1>1, <2>2, <4>1, <4>3
        <5> QED
          BY <1>3, <1>5, <2>4, <4>1, <4>2, <4>3, <5>1
      <4>4. CASE i = k
        BY <1>5, <2>4, <4>1, <4>2, <4>4
      <4>5. CASE ~(i < k) /\ i # k
        <5>1. i - 1 \in 1 .. len - h /\ h + (i - 1) = j - 1
          BY <1>1, <2>2, <4>1, <4>5
        <5> QED
          BY <1>3, <1>5, <2>4, <4>1, <4>2, <4>5, <5>1
      <4> QED
        BY <4>3, <4>4, <4>5
    <3> QED
      BY <3>1, <3>2
  <2>8. all = both
    <3>1. Len(all) = len + 1 /\ Len(both) = len + 1 /\ all \in Seq(Entry) /\ both \in Seq(Entry)
      BY <1>4, <1>5, <2>5, <2>6
    <3> HIDE DEF both
    <3> QED
      BY ONLY <2>7, <3>1, SeqEqual
  <2>9. Len(low) \in Nat \ {0} /\ Len(high) \in Nat \ {0} /\ 1 \in 1 .. h /\ 1 \in 1 .. (len - h) + 1
        /\ 1 < k /\ 1 \in 1 .. len - h
    BY <1>1, <1>2, <2>1, <2>2, <2>4
  <2>10. low[1] = entries[1] /\ high[1] = entries[h + 1]
    BY <1>2, <1>3, <2>1, <2>4, <2>9
  <2> QED
    BY <1>2, <2>1, <2>3, <2>8, <2>9, <2>10 DEF HalvedRow, low, high, all, h
<1>7. CASE ~(next > h + 1)
  <2>1. low = InsertAt(lower, next, e) /\ high = upper
    BY <1>7 DEF LowHalf, HighHalf
  <2>2. next \in 2 .. h + 1
    BY <1>1, <1>7
  <2> HIDE DEF lower, upper, low, high, all, h, len
  <2>3. low \in Seq(Entry) /\ Inserted(lower, next, e, low)
    <3>1. next \in 1 .. Len(lower) + 1 /\ lower \in Seq(Entry) /\ e \in Entry
      BY <1>1, <1>2, <2>2
    <3> QED
      BY ONLY <2>1, <3>1, InsertAtIs
  <2>4. Len(low) = h + 1 /\ \A j \in 1 .. h + 1 :
           low[j] = IF j < next THEN lower[j] ELSE IF j = next THEN e ELSE lower[j - 1]
    BY <1>2, <2>3 DEF Inserted
  <2>5. /\ both \in Seq(Entry) /\ Len(both) = (h + 1) + (len - h)
        /\ \A j \in 1 .. (h + 1) + (len - h) : both[j] = IF j <= h + 1 THEN low[j] ELSE high[j - (h + 1)]
    BY <1>3, <2>1, <2>3, <2>4, ConcatAt
  <2>6. (h + 1) + (len - h) = len + 1
    BY <1>1
  <2>7. ASSUME NEW j \in 1 .. len + 1
        PROVE  all[j] = both[j]
    <3>1. CASE j <= h + 1
      <4>1. j \in 1 .. h + 1 /\ both[j] = low[j]
        <5>1. j \in 1 .. (h + 1) + (len - h)
          BY ONLY <2>6, j \in 1 .. len + 1
        <5>2. both[j] = low[j]
          BY ONLY <2>5, <3>1, <5>1
        <5>3. len \in Nat /\ h \in Nat
          BY <1>1
        <5> QED
          BY ONLY <3>1, <5>2, <5>3, j \in 1 .. len + 1
      <4>2. CASE j < next
        <5>1. j \in 1 .. h
          BY <1>1, <2>2, <4>1, <4>2
        <5> QED
          BY <1>2, <1>5, <2>4, <4>1, <4>2, <5>1
      <4>3. CASE j = next
        BY <1>5, <2>4, <4>1, <4>3
      <4>4. CASE ~(j < next) /\ j # next
        <5>1. j - 1 \in 1 .. h
          BY <1>1, <2>2, <4>1, <4>4
        <5> QED
          BY <1>2, <1>5, <2>4, <4>1, <4>4, <5>1
      <4> QED
        BY <4>2, <4>3, <4>4
    <3>2. CASE ~(j <= h + 1)
      <4> DEFINE i == j - (h + 1)
      <4>1. i \in 1 .. len - h /\ h + i = j - 1 /\ ~(j < next) /\ j # next
        BY <1>1, <2>2, <3>2
      <4>2. both[j] = high[i]
        BY <2>5, <2>6, <3>2
      <4> HIDE DEF i
      <4> QED
        BY <1>3, <1>5, <2>1, <4>1, <4>2
    <3> QED
      BY <3>1, <3>2
  <2>8. all = both
    <3>1. Len(all) = len + 1 /\ Len(both) = len + 1 /\ all \in Seq(Entry) /\ both \in Seq(Entry)
      BY <1>4, <1>5, <2>5, <2>6
    <3> HIDE DEF both
    <3> QED
      BY ONLY <2>7, <3>1, SeqEqual
  <2>9. Len(low) \in Nat \ {0} /\ Len(high) \in Nat \ {0} /\ 1 \in 1 .. h /\ 1 \in 1 .. h + 1
        /\ 1 < next /\ 1 \in 1 .. len - h
    BY <1>1, <1>3, <2>1, <2>2, <2>4
  <2>10. low[1] = entries[1] /\ high[1] = entries[h + 1]
    BY <1>2, <1>3, <2>1, <2>4, <2>9
  <2> QED
    BY <1>3, <2>1, <2>3, <2>8, <2>9, <2>10 DEF HalvedRow, low, high, all, h
<1> QED
  BY <1>6, <1>7

\* Node s gets an entry at position next.
PutIn(index, index2, s, next, e) ==
    /\ DOMAIN index2 = DOMAIN index /\ index2[s] = InsertAt(index[s], next, e)
    /\ \A t \in DOMAIN index : t # s => index2[t] = index[t]

\* Node s gets an entry and gives its upper half to n.
CutNode(index, index2, s, n, next, e) ==
    /\ DOMAIN index2 = DOMAIN index \union {n} /\ n \notin DOMAIN index
    /\ index2[s] = LowHalf(index[s], next, e) /\ index2[n] = HighHalf(index[s], next, e)
    /\ \A t \in DOMAIN index : t # s => index2[t] = index[t]

\* The state of a climb.
ClimbOf(index, key, child, fresh) == [node |-> index, key |-> key, child |-> child, fresh |-> fresh]

\* Nothing is left to put in.
LEMMA ClimbDone ==
    ASSUME NEW t, NEW step, t.child = NIL
    PROVE  ClimbOne(t, step) = t
BY DEF ClimbOne

\* The child goes into a node with room.
LEMMA ClimbRoom ==
    ASSUME NEW index, NEW key, NEW child, child # NIL, NEW fresh, NEW t, t = ClimbOf(index, key, child, fresh),
           NEW step, NEW s, s = step.sector, s \in DOMAIN index, Len(index[s]) < AllocPerNode,
           NEW next, next = step.next, NEW u, u = ClimbOne(t, step)
    PROVE  u.child = NIL /\ PutIn(index, u.node, s, next, [key |-> key, sector |-> child])
<1> DEFINE e == [key |-> key, sector |-> child]
           new == [index EXCEPT ![s] = InsertAt(index[s], next, e)]
<1>1. t.node = index /\ t.key = key /\ t.child = child /\ t.fresh = fresh
      /\ t = [node |-> index, key |-> key, child |-> child, fresh |-> fresh]
  BY DEF ClimbOf
<1>2. u = [t EXCEPT !.node[s] = InsertAt(index[s], next, e), !.child = NIL]
  BY <1>1 DEF ClimbOne
<1> HIDE DEF e
<1>3. u = [node |-> new, key |-> key, child |-> NIL, fresh |-> fresh]
  BY <1>1, <1>2
<1>4. u.node = new /\ u.child = NIL
  BY <1>3
<1>5. DOMAIN new = DOMAIN index /\ new[s] = InsertAt(index[s], next, e)
      /\ \A x \in DOMAIN index : x # s => new[x] = index[x]
  OBVIOUS
<1> QED
  BY <1>4, <1>5 DEF PutIn, e

\* The node of the path is full, and block n is free.
NodeFull(index, child, fresh, step, s, n) ==
    /\ child # NIL /\ s = step.sector /\ s \in DOMAIN index /\ ~(Len(index[s]) < AllocPerNode)
    /\ n = Min(fresh) /\ n \notin DOMAIN index

\* The node is split, and the new one waits for a parent.
NodeSplit(index, key, child, fresh, step, s, n, u) ==
    /\ u = ClimbOf(u.node, index[s][NodeHalf(index[s]) + 1].key, n, fresh \ {n})
    /\ u.key = index[s][NodeHalf(index[s]) + 1].key /\ u.child = n /\ u.fresh = fresh \ {n}
    /\ CutNode(index, u.node, s, n, step.next, [key |-> key, sector |-> child])

\* A full node is split.
LEMMA ClimbFull ==
    ASSUME NEW index, NEW key, NEW child, NEW fresh, NEW step, NEW s, NEW n,
           NodeFull(index, child, fresh, step, s, n)
    PROVE  NodeSplit(index, key, child, fresh, step, s, n, ClimbOne(ClimbOf(index, key, child, fresh), step))
<1> DEFINE t == ClimbOf(index, key, child, fresh)
           u == ClimbOne(t, step)
           next == step.next
<1>0. /\ child # NIL /\ s = step.sector /\ s \in DOMAIN index /\ ~(Len(index[s]) < AllocPerNode)
      /\ n = Min(fresh) /\ n \notin DOMAIN index
  BY DEF NodeFull
<1> DEFINE e == [key |-> key, sector |-> child]
           old == index[s]
           h == NodeHalf(old)
           lower == SubSeq(old, 1, h)
           upper == SubSeq(old, h + 1, Len(old))
           new == [x \in DOMAIN index \union {n} |->
                     IF x = n THEN IF next > h + 1 THEN InsertAt(upper, next - h, e) ELSE upper
                     ELSE IF x = s THEN IF next > h + 1 THEN lower ELSE InsertAt(lower, next, e)
                     ELSE index[x]]
<1>1. t.node = index /\ t.key = key /\ t.child = child /\ t.fresh = fresh
      /\ t = [node |-> index, key |-> key, child |-> child, fresh |-> fresh]
  BY DEF ClimbOf
<1> HIDE DEF t
<1>2. u = [t EXCEPT !.node = new, !.key = old[h + 1].key, !.child = n, !.fresh = fresh \ {n}]
  BY <1>0, <1>1 DEF ClimbOne
<1>3. new[n] = HighHalf(old, next, e) /\ new[s] = LowHalf(old, next, e) /\ DOMAIN new = DOMAIN index \union {n}
      /\ \A x \in DOMAIN index : x # s => new[x] = index[x]
  BY <1>0 DEF HighHalf, LowHalf
<1> HIDE DEF new, u
<1>4. u = [node |-> new, key |-> old[h + 1].key, child |-> n, fresh |-> fresh \ {n}]
  BY <1>1, <1>2
<1>5. u.node = new /\ u.key = old[h + 1].key /\ u.child = n /\ u.fresh = fresh \ {n}
  BY <1>4
<1> QED
  BY <1>0, <1>3, <1>4, <1>5 DEF CutNode, ClimbOf, NodeSplit, u, t

\* The climb of a path of one level, and of two.
LEMMA ClimbsAre ==
    ASSUME NEW path, Len(path) \in 1 .. 2, NEW key, NEW child, NEW fresh,
           NEW start, start = ClimbOf(node, key, child, fresh)
    PROVE  /\ Len(path) = 1 => Climbed(path, key, child, fresh) = ClimbOne(start, path[1])
           /\ Len(path) = 2 => Climbed(path, key, child, fresh)
                                 = ClimbOne(ClimbOne(start, path[2]), path[1])
<1> DEFINE good(from) == Climbs(from, path, start)
           from0 == CHOOSE from : good(from)
<1>1. Climbed(path, key, child, fresh) = from0[1]
  BY ClimbedIs DEF ClimbOf
<1>2. \E from : good(from)
  BY ClimbExists
<1>3. good(from0)
  BY <1>2
<1> HIDE DEF from0
<1>4. Len(path) \in Nat
  OBVIOUS
<1>5. \A l \in 1 .. Len(path) + 1 :
         from0[l] = IF l = Len(path) + 1 THEN start ELSE ClimbOne(from0[l + 1], path[l])
  BY <1>3, <1>4 DEF Climbs
<1>6. CASE Len(path) = 1
  <2>1. from0[2] = start /\ from0[1] = ClimbOne(from0[2], path[1])
    BY <1>5, <1>6
  <2> QED
    BY <1>1, <1>6, <2>1
<1>7. CASE Len(path) = 2
  <2>1. from0[3] = start /\ from0[2] = ClimbOne(from0[3], path[2]) /\ from0[1] = ClimbOne(from0[2], path[1])
    BY <1>5, <1>7
  <2> QED
    BY <1>1, <1>7, <2>1
<1> QED
  BY <1>6, <1>7

\* The nodes with another one at place i.
RowPut(rows, m, i, row) == [k \in 1 .. m |-> IF k = i THEN row ELSE rows[k]]

\* Only that one is another.
LEMMA RowPutIs ==
    ASSUME NEW rows, NEW m, NEW i, i \in 1 .. m, NEW row
    PROVE  OnlyRow(rows, RowPut(rows, m, i, row), m, i) /\ RowPut(rows, m, i, row)[i] = row
BY DEF OnlyRow, RowPut

\* The key of the entry for a node is its first one.
LEMMA HeadedAt ==
    ASSUME NEW index, NEW top, NEW depth, Headed(index, top, depth), depth = 2,
           NEW k, k \in 2 .. Len(index[top]), NEW x, x = index[top][k].sector, Len(index[x]) >= 1
    PROVE  index[top][k].key = index[x][1].key
BY DEF Headed

\* An entry that is put into a lowest node, behind the first.
LEMMA LowNodeGrows ==
    ASSUME NEW leafs, NEW index, NEW top, NEW depth, NEW lv, Rooted(leafs, index, top, depth, lv),
           depth \in 1 .. 2, Headed(index, top, depth),
           NEW rows, NEW m, RowsAre(index, top, depth, rows, m), NEW i, i \in 1 .. m,
           NEW s, s = LowNode(index, top, depth, i),
           NEW next, next \in 2 .. Len(index[s]) + 1, NEW e, e \in Entry,
           NEW index2, PutIn(index, index2, s, next, e),
           NEW rows2, rows2 = RowPut(rows, m, i, InsertAt(rows[i], next, e))
    PROVE  Headed(index2, top, depth) /\ RowsAre(index2, top, depth, rows2, m)
<1>1. /\ m = LowCount(index, top, depth) /\ m \in Nat
      /\ \A k \in 1 .. m : rows[k] = index[LowNode(index, top, depth, k)]
      /\ \A k \in 1 .. m : LowNode(index, top, depth, k) \in DOMAIN index
      /\ \A k \in 1 .. m : LowNode(index, top, depth, k) = s => k = i
      /\ s \in DOMAIN index /\ index[s] \in Seq(Entry) /\ Len(index[s]) \in Nat /\ lv[s] = depth
  BY LowNodesAre DEF RowsAre
<1>2. /\ DOMAIN index2 = DOMAIN index /\ index2[s] = InsertAt(index[s], next, e)
      /\ \A t \in DOMAIN index : t # s => index2[t] = index[t]
  BY DEF PutIn
<1>3. \A k \in 1 .. m : rows2[k] = IF k = i THEN InsertAt(index[s], next, e) ELSE rows[k]
  BY <1>1 DEF RowPut
<1>4. CASE depth = 1
  <2>1. m = 1 /\ s = top /\ i = 1
    BY <1>1, <1>4 DEF LowCount, LowNode
  <2>2. Headed(index2, top, depth)
    BY <1>4 DEF Headed
  <2>3. \A k \in 1 .. m : rows2[k] = index2[LowNode(index2, top, depth, k)]
    BY <1>2, <1>3, <1>4, <2>1 DEF LowNode
  <2> QED
    BY <1>4, <2>1, <2>2, <2>3 DEF RowsAre, LowCount
<1>5. CASE depth = 2
  <2>1. s # top /\ top \in DOMAIN index
    BY <1>1, <1>5 DEF Rooted
  <2>2. index2[top] = index[top]
    BY <1>2, <2>1
  <2>3. m = Len(index[top]) /\ \A k \in 1 .. m : LowNode(index, top, depth, k) = index[top][k].sector
        /\ LowNode(index2, top, depth, k) = index[top][k].sector
    BY <1>1, <1>5, <2>2 DEF LowCount, LowNode
  <2>4. LowCount(index2, top, depth) = m
    BY <1>5, <2>2, <2>3 DEF LowCount
  <2>5. \A k \in 1 .. m : rows2[k] = index2[index[top][k].sector]
    <3> TAKE k \in 1 .. m
    <3>1. CASE k = i
      BY <1>2, <1>3, <2>3, <3>1
    <3>2. CASE k # i
      BY <1>1, <1>2, <1>3, <2>3, <3>2
    <3> QED
      BY <3>1, <3>2
  <2>6. RowsAre(index2, top, depth, rows2, m)
    BY <2>3, <2>4, <2>5 DEF RowsAre
  <2>7. index2[s][1] = index[s][1] /\ Len(index[s]) >= 1
    <3>1. next \in 1 .. Len(index[s]) + 1 /\ 1 \in 1 .. Len(index[s]) + 1 /\ 1 < next
          /\ Len(index[s]) >= 1
      BY <1>1
    <3>2. Inserted(index[s], next, e, index2[s])
      <4>1. index[s] \in Seq(Entry) /\ e \in Entry /\ index2[s] = InsertAt(index[s], next, e)
        BY <1>1, <1>2
      <4> QED
        BY ONLY <3>1, <4>1, InsertAtIs
    <3> QED
      BY <3>1, <3>2 DEF Inserted
  <2>8. ASSUME NEW k \in 2 .. Len(index2[top]), Len(index2[index2[top][k].sector]) >= 1
        PROVE  index2[top][k].key = index2[index2[top][k].sector][1].key
    <3> DEFINE x == index[top][k].sector
    <3>1. k \in 1 .. m /\ k \in 2 .. Len(index[top])
      BY <1>1, <2>2, <2>3, <2>8
    <3>2. x \in DOMAIN index
      BY <1>1, <2>3, <3>1
    <3>3. CASE x = s
      <4>1. index[top][k].key = index[s][1].key
        BY <1>5, <2>7, <3>1, <3>3, HeadedAt
      <4> QED
        BY <2>2, <2>7, <3>3, <4>1
    <3>4. CASE x # s
      <4>1. index2[x] = index[x] /\ Len(index[x]) >= 1
        BY <1>2, <2>2, <2>8, <3>2, <3>4
      <4>2. index[top][k].key = index[x][1].key
        BY <1>5, <3>1, <4>1, HeadedAt
      <4> QED
        BY <2>2, <4>1, <4>2
    <3> QED
      BY <3>3, <3>4
  <2>9. Headed(index2, top, depth)
    BY <2>8 DEF Headed
  <2> QED
    BY <2>6, <2>9
<1> QED
  BY <1>4, <1>5

\* The root is split into itself and n, and r is the root above them.
RootSplit(index, top, next, e, n, index1, r, key, index2, rows1) ==
    /\ top \in DOMAIN index /\ index[top] \in Seq(Entry) /\ Len(index[top]) >= 2
    /\ next \in 2 .. Len(index[top]) + 1 /\ e \in Entry
    /\ CutNode(index, index1, top, n, next, e)
    /\ r \notin DOMAIN index1 /\ key = index[top][NodeHalf(index[top]) + 1].key
    /\ index2[r] = <<[key |-> 0, sector |-> top], [key |-> key, sector |-> n]>>
    /\ \A t \in DOMAIN index1 : index2[t] = index1[t]
    /\ rows1[1] = InsertAt(index[top], next, e)

\* A root that is the only node is split below a new root.
LEMMA RootCut ==
    ASSUME NEW index, NEW top, NEW next, NEW e, NEW n, NEW index1, NEW r, NEW key, NEW index2, NEW rows1,
           RootSplit(index, top, next, e, n, index1, r, key, index2, rows1)
    PROVE  /\ Headed(index2, r, 2)
           /\ \E rows2 : RowsAre(index2, r, 2, rows2, 2) /\ Parted(rows1, 1, 1, rows2)
<1> USE DEF RootSplit
<1> DEFINE low == LowHalf(index[top], next, e)
           high == HighHalf(index[top], next, e)
           rows2 == [k \in 1 .. 2 |-> IF k = 1 THEN low ELSE high]
<1>1. HalvedRow(index[top], next, e, low, high)
  BY RowHalves
<1>2. index2[top] = low /\ index2[n] = high
  BY DEF CutNode
<1> HIDE DEF low, high
<1>3. Len(index2[r]) = 2 /\ index2[r][1].sector = top /\ index2[r][2].sector = n /\ index2[r][2].key = key
  OBVIOUS
<1>4. Headed(index2, r, 2)
  <2>1. \A k \in 2 .. 2 : k = 2
    OBVIOUS
  <2>2. key = high[1].key
    BY <1>1 DEF HalvedRow
  <2> QED
    BY <1>2, <1>3, <2>1, <2>2 DEF Headed
<1>5. RowsAre(index2, r, 2, rows2, 2)
  <2>1. rows2[1] = index2[top] /\ rows2[2] = index2[n]
    BY <1>2
  <2>2. \A k \in 1 .. 2 : k = 1 \/ k = 2
    OBVIOUS
  <2>3. LowCount(index2, r, 2) = 2 /\ LowNode(index2, r, 2, 1) = top /\ LowNode(index2, r, 2, 2) = n
    BY <1>3 DEF LowCount, LowNode
  <2> HIDE DEF rows2
  <2> QED
    BY <2>1, <2>2, <2>3 DEF RowsAre
<1>6. Parted(rows1, 1, 1, rows2)
  <2>1. rows2[1] = low /\ rows2[1 + 1] = high
    OBVIOUS
  <2>2. \A k \in 1 .. 1 : ~(k < 1) /\ ~(1 < k)
    OBVIOUS
  <2>3. low \in Seq(Entry) /\ high \in Seq(Entry) /\ rows1[1] = low \o high
    BY <1>1 DEF HalvedRow
  <2> HIDE DEF rows2
  <2> QED
    BY <2>1, <2>2, <2>3 DEF Parted
<1> HIDE DEF rows2
<1> QED
  BY <1>4, <1>5, <1>6

\* Lowest node s is split into itself and n, and the root gets the entry e2 for
\* that.
LowNodeSplit(leafs, index, top, lv, rows, m, i, s, next, e, n, index1, e2, index2) ==
    /\ Rooted(leafs, index, top, 2, lv) /\ Headed(index, top, 2) /\ RowsAre(index, top, 2, rows, m)
    /\ i \in 1 .. m /\ s = LowNode(index, top, 2, i) /\ Len(index[s]) >= 2
    /\ next \in 2 .. Len(index[s]) + 1 /\ e \in Entry /\ CutNode(index, index1, s, n, next, e)
    /\ e2 \in Entry /\ e2.key = index[s][NodeHalf(index[s]) + 1].key /\ e2.sector = n
    /\ PutIn(index1, index2, top, i + 1, e2)

\* A lowest node is split, and the new one goes behind it into the root.
LEMMA LowNodeCut ==
    ASSUME NEW leafs, NEW index, NEW top, NEW lv, NEW rows, NEW m, NEW i, NEW s, NEW next, NEW e, NEW n,
           NEW index1, NEW e2, NEW index2,
           LowNodeSplit(leafs, index, top, lv, rows, m, i, s, next, e, n, index1, e2, index2),
           NEW rows1, rows1 = RowPut(rows, m, i, InsertAt(rows[i], next, e))
    PROVE  /\ Headed(index2, top, 2)
           /\ \E rows2 : RowsAre(index2, top, 2, rows2, m + 1) /\ Parted(rows1, m, i, rows2)
<1> DEFINE depth == 2
           place == i + 1
<1>0. /\ Rooted(leafs, index, top, depth, lv) /\ Headed(index, top, depth) /\ RowsAre(index, top, depth, rows, m)
      /\ i \in 1 .. m /\ s = LowNode(index, top, depth, i) /\ Len(index[s]) >= 2
      /\ next \in 2 .. Len(index[s]) + 1 /\ e \in Entry /\ CutNode(index, index1, s, n, next, e)
      /\ e2 \in Entry /\ e2.key = index[s][NodeHalf(index[s]) + 1].key /\ e2.sector = n
      /\ PutIn(index1, index2, top, place, e2) /\ depth = 2 /\ place = i + 1
  BY DEF LowNodeSplit
<1> USE <1>0
<1> HIDE DEF depth, place
<1> DEFINE low == LowHalf(index[s], next, e)
           high == HighHalf(index[s], next, e)
           was == index[top]
           is == index2[top]
           rows2 == [k \in 1 .. m + 1 |-> IF k = i THEN low ELSE IF k = i + 1 THEN high
                                          ELSE IF k < i THEN rows[k] ELSE rows[k - 1]]
<1>1. /\ m = Len(was) /\ m \in Nat /\ was \in Seq(Entry) /\ top \in DOMAIN index /\ s # top
      /\ \A k \in 1 .. m : rows[k] = index[was[k].sector]
      /\ \A k \in 1 .. m : was[k].sector \in DOMAIN index /\ was[k].sector # top
      /\ \A k \in 1 .. m : was[k].sector = s <=> k = i
      /\ s \in DOMAIN index /\ index[s] \in Seq(Entry) /\ was[i].sector = s
  <2>1. \A k : LowNode(index, top, depth, k) = was[k].sector
    BY DEF LowNode
  <2>2. m = Len(was)
    BY DEF RowsAre, LowCount
  <2>3. /\ m \in Nat
        /\ \A k \in 1 .. m : was[k].sector \in DOMAIN index /\ lv[was[k].sector] = depth
        /\ \A k, j \in 1 .. m : was[k].sector = was[j].sector => k = j
    <3>1. m = LowCount(index, top, depth)
      BY DEF RowsAre
    <3>2. /\ m \in Nat
          /\ \A k \in 1 .. m : LowNode(index, top, depth, k) \in DOMAIN index
                               /\ lv[LowNode(index, top, depth, k)] = depth
          /\ \A k, j \in 1 .. m : LowNode(index, top, depth, k) = LowNode(index, top, depth, j) => k = j
      BY <3>1, LowNodesAre
    <3> QED
      BY <2>1, <3>2
  <2>4. lv[top] = 1 /\ top \in DOMAIN index /\ \A t \in DOMAIN index : index[t] \in Seq(Entry)
    BY DEF Rooted, Forest, Levelled
  <2>5. s = was[i].sector
    BY <2>1
  <2>6. \A k \in 1 .. m : rows[k] = index[was[k].sector]
    BY <2>1 DEF RowsAre
  <2> HIDE DEF was
  <2>7. was \in Seq(Entry)
    BY <2>4 DEF was
  <2> QED
    BY <2>2, <2>3, <2>4, <2>5, <2>6, <2>7
<1>2. HalvedRow(index[s], next, e, low, high)
  BY <1>1, RowHalves
<1>3. /\ \A t \in DOMAIN index : t # s => index1[t] = index[t]
      /\ index1[s] = low /\ index1[n] = high /\ n \notin DOMAIN index /\ DOMAIN index1 = DOMAIN index \union {n}
  BY DEF CutNode
<1> HIDE DEF low, high
<1>4. /\ is = InsertAt(was, place, e2) /\ index2[s] = low /\ index2[n] = high
      /\ \A t \in DOMAIN index : t # s /\ t # top => index2[t] = index[t]
  <2>1. index2[top] = InsertAt(index1[top], place, e2) /\ \A t \in DOMAIN index1 : t # top => index2[t] = index1[t]
    BY DEF PutIn
  <2>2. index1[top] = index[top] /\ n # top
    BY <1>1, <1>3
  <2> QED
    BY <1>1, <1>3, <2>1, <2>2
<1>5. Len(is) = m + 1 /\ \A k \in 1 .. m + 1 :
         is[k] = IF k < place THEN was[k] ELSE IF k = place THEN e2 ELSE was[k - 1]
  <2>1. place \in 1 .. Len(was) + 1 /\ was \in Seq(Entry) /\ e2 \in Entry
    BY <1>1
  <2> HIDE DEF was, is
  <2>2. Inserted(was, place, e2, is)
    BY ONLY <1>4, <2>1, InsertAtIs
  <2> QED
    BY <1>1, <2>2 DEF Inserted
<1> HIDE DEF was, is
\* the nodes the entries lead to
<1>6. ASSUME NEW k \in 1 .. m + 1
      PROVE  /\ rows2[k] = index2[is[k].sector]
             /\ k < i => k \in 1 .. m /\ is[k] = was[k] /\ index2[is[k].sector] = rows[k]
             /\ k = i => is[k] = was[k] /\ index2[is[k].sector] = low
             /\ k = i + 1 => is[k] = e2 /\ index2[is[k].sector] = high
             /\ i + 1 < k => k - 1 \in 1 .. m /\ is[k] = was[k - 1] /\ index2[is[k].sector] = rows[k - 1]
  <2>1. CASE k < i
    <3>1. k \in 1 .. m /\ k < place /\ k # i /\ k # i + 1 /\ ~(i + 1 < k)
      BY <1>1, <2>1
    <3>2. is[k] = was[k]
      BY <1>5, <3>1
    <3>3. index2[was[k].sector] = rows[k]
      BY <1>1, <1>4, <3>1
    <3> QED
      BY <2>1, <3>1, <3>2, <3>3
  <2>2. CASE k = i
    <3>1. k < place /\ ~(k < i) /\ k # i + 1 /\ ~(i + 1 < k)
      BY <1>1, <2>2
    <3>2. is[k] = was[k]
      BY <1>5, <3>1
    <3> QED
      BY <1>1, <1>4, <2>2, <3>1, <3>2
  <2>3. CASE k = i + 1
    <3>1. k = place /\ ~(k < i) /\ k # i /\ ~(i + 1 < k) /\ ~(k < place)
      BY <1>1, <2>3
    <3>2. is[k] = e2
      BY <1>5, <3>1
    <3> QED
      BY <1>4, <2>3, <3>1, <3>2
  <2>4. CASE i + 1 < k
    <3>1. k # place /\ ~(k < i) /\ k # i /\ ~(k < place) /\ k # i + 1 /\ k - 1 \in 1 .. m /\ k - 1 # i
      BY <1>1, <2>4
    <3>2. is[k] = was[k - 1]
      BY <1>5, <3>1
    <3>3. index2[was[k - 1].sector] = rows[k - 1]
      BY <1>1, <1>4, <3>1
    <3> QED
      BY <2>4, <3>1, <3>2, <3>3
  <2>5. k < i \/ k = i \/ k = i + 1 \/ i + 1 < k
    BY <1>1
  <2> QED
    BY <2>1, <2>2, <2>3, <2>4, <2>5
<1>7. RowsAre(index2, top, depth, rows2, m + 1)
  <2>1. LowCount(index2, top, depth) = m + 1 /\ \A k : LowNode(index2, top, depth, k) = is[k].sector
    BY <1>5 DEF LowCount, LowNode, is
  <2> HIDE DEF rows2
  <2>2. \A k \in 1 .. m + 1 : rows2[k] = index2[LowNode(index2, top, depth, k)]
    BY <1>6, <2>1
  <2> QED
    BY <2>1, <2>2 DEF RowsAre
<1>8. Parted(rows1, m, i, rows2)
  <2>1. m \in Nat \ {0} /\ i \in 1 .. m + 1 /\ i + 1 \in 1 .. m + 1
    BY <1>1
  <2>2. rows2[i] = low /\ rows2[i + 1] = high
    <3>1. i # i + 1
      BY <1>1
    <3> QED
      BY <2>1, <3>1
  <2>3. rows1[i] = low \o high
    <3>1. rows1[i] = InsertAt(rows[i], next, e) /\ rows[i] = index[s]
      BY <1>1 DEF RowPut
    <3> QED
      BY <1>2, <3>1 DEF HalvedRow
  <2>4. ASSUME NEW k \in 1 .. m
        PROVE  (k < i => rows2[k] = rows1[k]) /\ (i < k => rows2[k + 1] = rows1[k])
    <3>1. k < i => k \in 1 .. m + 1 /\ k # i /\ k # i + 1
      BY <1>1
    <3>2. i < k => k + 1 \in 1 .. m + 1 /\ k # i /\ k + 1 # i /\ k + 1 # i + 1 /\ ~(k + 1 < i) /\ (k + 1) - 1 = k
      BY <1>1
    <3>3. k # i => rows1[k] = rows[k]
      BY DEF RowPut
    <3> QED
      BY <3>1, <3>2, <3>3
  <2> HIDE DEF rows2
  <2> QED
    BY <1>2, <2>1, <2>2, <2>3, <2>4 DEF Parted, HalvedRow
<1>9. Headed(index2, top, depth)
  <2> SUFFICES ASSUME NEW k \in 2 .. m + 1, Len(index2[is[k].sector]) >= 1
               PROVE  is[k].key = index2[is[k].sector][1].key
    BY <1>5 DEF Headed, is
  <2>1. k \in 1 .. m + 1 /\ k # 1 /\ (k < i \/ k = i \/ k = i + 1 \/ i + 1 < k)
    BY <1>1
  <2>0. ASSUME NEW h \in 2 .. m, Len(index[was[h].sector]) >= 1
        PROVE  was[h].key = index[was[h].sector][1].key
    BY <1>1, <2>0 DEF Headed, was
  <2>2. CASE k < i
    <3>1. is[k] = was[k] /\ index2[is[k].sector] = rows[k] /\ k \in 1 .. m
      BY <1>6, <2>1, <2>2
    <3>2. rows[k] = index[was[k].sector] /\ k \in 2 .. Len(index[top])
      BY <1>1, <2>1, <3>1 DEF was
    <3>3. index[top][k].key = index[was[k].sector][1].key
      BY <3>1, <3>2, HeadedAt DEF was
    <3> QED
      BY <3>1, <3>2, <3>3 DEF was
  <2>3. CASE k = i
    <3>1. is[k] = was[k] /\ index2[is[k].sector] = low /\ was[k].sector = s
      BY <1>1, <1>6, <2>1, <2>3
    <3>2. k \in 2 .. m /\ Len(index[s]) >= 1
      BY <1>1, <2>1, <2>3
    <3>3. was[k].key = index[s][1].key
      BY <2>0, <3>1, <3>2
    <3>4. low[1] = index[s][1]
      BY <1>2 DEF HalvedRow
    <3> QED
      BY <3>1, <3>3, <3>4
  <2>4. CASE k = i + 1
    <3>1. is[k] = e2 /\ index2[is[k].sector] = high
      BY <1>6, <2>1, <2>4
    <3>2. high[1] = index[s][NodeHalf(index[s]) + 1]
      BY <1>2 DEF HalvedRow
    <3> QED
      BY <3>1, <3>2
  <2>5. CASE i + 1 < k
    <3> DEFINE j == k - 1
    <3>1. is[k] = was[j] /\ index2[is[k].sector] = rows[j] /\ j \in 1 .. m
      BY <1>6, <2>1, <2>5
    <3>2. rows[j] = index[was[j].sector] /\ j \in 2 .. m
      BY <1>1, <2>1, <2>5, <3>1
    <3> HIDE DEF j
    <3>3. Len(index[was[j].sector]) >= 1
      BY <3>1, <3>2
    <3>4. was[j].key = index[was[j].sector][1].key
      BY <2>0, <3>2, <3>3
    <3> QED
      BY <3>1, <3>2, <3>4
  <2> QED
    BY <2>1, <2>2, <2>3, <2>4, <2>5
<1> HIDE DEF rows2
<1> QED
  BY <1>7, <1>8, <1>9

\* The leaf of chunk c is split, and the new one, n, is to go into the lowest
\* node of the path, at place next of row i.
Opened(rows, m, i, s, next, c) ==
    /\ RowsAre(node, root, levels, rows, m) /\ i \in 1 .. m
    /\ s = LowNode(node, root, levels, i) /\ s \in DOMAIN node /\ rows[i] = node[s]
    /\ next \in 2 .. Len(node[s]) + 1 /\ Guides(rows, m, i, next - 1, c)
    /\ rows[i][next - 1].sector = LeafOf(c)
    /\ Probe(c)[levels].sector = s /\ Probe(c)[levels].next = next
    /\ levels = 2 => /\ Probe(c)[1].sector = root /\ Probe(c)[1].next = i + 1
                     /\ i + 1 \in 2 .. Len(node[root]) + 1

\* Probe tells the place.
LEMMA ProbeOpens ==
    ASSUME NEW lv, Tree(lv), \A s \in DOMAIN node : node[s] # <<>>, levels \in 1 .. 2,
           Headed(node, root, levels), NEW c, c \in Nat
    PROVE  \E rows, m, i, s, next : Opened(rows, m, i, s, next, c)
<1>1. PICK rows, m : RowsAre(node, root, levels, rows, m)
  BY RowsExist
<1> DEFINE path == Probe(c)
           i == RowAt(path, levels)
           j == EntryAt(path, levels)
           s == path[levels].sector
           next == path[levels].next
<1>2. Guides(rows, m, i, j, c) /\ rows[i][j].sector = LeafOf(c) /\ rows[i] = node[s]
  BY <1>1, ProbeGuides
<1>3. /\ path[1].sector = root
      /\ \A l \in 1 .. levels :
            LET below == IF l = levels THEN LeafOf(c) ELSE path[l + 1].sector
            IN  /\ path[l].sector \in DOMAIN node
                /\ path[l].next \in 2 .. Len(node[path[l].sector]) + 1
                /\ node[path[l].sector][path[l].next - 1].sector = below
  BY ProbeIs DEF Level
<1>4. s \in DOMAIN node /\ next \in 2 .. Len(node[s]) + 1 /\ j = next - 1
  BY <1>3 DEF EntryAt
<1>5. i \in 1 .. m
  BY <1>2 DEF Guides
<1>6. levels = 2 => /\ path[1].next \in 2 .. Len(node[root]) + 1
                    /\ node[root][path[1].next - 1].sector = s /\ i = path[1].next - 1
  BY <1>3 DEF RowAt
<1> HIDE DEF path
<1>7. s = LowNode(node, root, levels, i)
  BY <1>3, <1>6 DEF LowNode
<1>8. levels = 2 => path[1].next = i + 1 /\ i + 1 \in 2 .. Len(node[root]) + 1
  BY <1>6
<1> HIDE DEF i, j, s, next
<1>9. path[levels].sector = s /\ path[levels].next = next
  BY DEF s, next
<1> QED
  BY <1>1, <1>2, <1>3, <1>4, <1>5, <1>7, <1>8, <1>9 DEF Opened, path

\* The entry for the new leaf makes the order that of the leaves.
LEMMA OpenedRanks ==
    ASSUME NEW c, NEW rows, NEW m, NEW i, NEW s, NEW next, Opened(rows, m, i, s, next, c),
           NEW ch, Ranks(rows, m, ch), Numbered(ch), NEW e, e \in Entry,
           NEW ch2, SplitIn(ch, LeafOf(c), e.key, e.sector, ch2),
           NEW rows1, rows1 = RowPut(rows, m, i, InsertAt(rows[i], next, e))
    PROVE  Ranks(rows1, m, ch2)
<1> DEFINE j == next - 1
<1>1. i \in 1 .. m /\ j \in 1 .. Len(rows[i]) /\ rows[i][j].sector = LeafOf(c)
  BY DEF Opened, Guides
<1>2. next = j + 1
  BY DEF Opened
<1>3. OnlyRow(rows, rows1, m, i) /\ rows1[i] = InsertAt(rows[i], next, e)
  BY <1>1, RowPutIs
<1> HIDE DEF j
<1>4. SplitIn(ch, rows[i][j].sector, e.key, e.sector, ch2)
  BY <1>1
<1> QED
  BY <1>1, <1>2, <1>3, <1>4, RanksSplit

\* The lowest node has room.
LEMMA OpenedRoom ==
    ASSUME NEW lv, Tree(lv), levels \in 1 .. 2, Headed(node, root, levels),
           NEW c, NEW rows, NEW m, NEW i, NEW s, NEW next, Opened(rows, m, i, s, next, c),
           Len(Probe(c)) = levels, Len(node[s]) < AllocPerNode,
           NEW key, NEW n, n # NIL, NEW fresh, NEW t, t = Climbed(Probe(c), key, n, fresh),
           NEW e, e = [key |-> key, sector |-> n], e \in Entry,
           NEW rows1, rows1 = RowPut(rows, m, i, InsertAt(rows[i], next, e))
    PROVE  t.child = NIL /\ Headed(t.node, root, levels) /\ RowsAre(t.node, root, levels, rows1, m)
<1> DEFINE start == ClimbOf(node, key, n, fresh)
           u == ClimbOne(start, Probe(c)[levels])
<1>1. s \in DOMAIN node /\ Probe(c)[levels].sector = s /\ Probe(c)[levels].next = next
  BY DEF Opened
<1>2. u.child = NIL /\ PutIn(node, u.node, s, next, e)
  <2> HIDE DEF start
  <2>1. start = ClimbOf(node, key, n, fresh)
    BY DEF start
  <2> QED
    BY <1>1, <2>1, ClimbRoom
<1>3. t = u
  <2>1. levels = 1 \/ levels = 2
    OBVIOUS
  <2>2. levels = 1 => t = u
    BY ClimbsAre
  <2>3. levels = 2 => t = ClimbOne(u, Probe(c)[1])
    BY ClimbsAre
  <2> HIDE DEF u
  <2>4. ClimbOne(u, Probe(c)[1]) = u
    BY <1>2, ClimbDone
  <2> QED
    BY <2>1, <2>2, <2>3, <2>4
<1> HIDE DEF u
<1>4. RowsAre(node, root, levels, rows, m) /\ i \in 1 .. m /\ s = LowNode(node, root, levels, i)
      /\ next \in 2 .. Len(node[s]) + 1
  BY DEF Opened
<1>5. Rooted(DOMAIN leaf, node, root, levels, lv) /\ levels \in 1 .. 2 /\ Headed(node, root, levels)
  BY DEF Tree, Rooted
<1> DEFINE index2 == t.node
<1>6. PutIn(node, index2, s, next, e) /\ e \in Entry /\ rows1 = RowPut(rows, m, i, InsertAt(rows[i], next, e))
  BY <1>2, <1>3
<1> HIDE DEF index2
<1>7. Headed(index2, root, levels) /\ RowsAre(index2, root, levels, rows1, m)
  BY ONLY <1>4, <1>5, <1>6, LowNodeGrows
<1> QED
  BY <1>2, <1>3, <1>7 DEF index2

\* The root is full and the only node.
LEMMA OpenedRoot ==
    ASSUME NEW lv, Tree(lv), levels = 1,
           NEW c, NEW rows, NEW m, NEW i, NEW s, NEW next, Opened(rows, m, i, s, next, c),
           Len(Probe(c)) = levels, ~(Len(node[s]) < AllocPerNode),
           NEW key, NEW n, n # NIL, NEW fresh, Min(fresh) \notin DOMAIN node,
           NEW t, t = Climbed(Probe(c), key, n, fresh), NEW r, r = Min(t.fresh), r \notin DOMAIN t.node,
           NEW e, e = [key |-> key, sector |-> n], e \in Entry,
           NEW rows1, rows1 = RowPut(rows, m, i, InsertAt(rows[i], next, e)),
           NEW index2, index2 = NewRoot(t)
    PROVE  /\ Headed(index2, r, 2)
           /\ \E rows2 : RowsAre(index2, r, 2, rows2, 2) /\ Parted(rows1, 1, 1, rows2)
<1> DEFINE start == ClimbOf(node, key, n, fresh)
           n2 == Min(fresh)
<1>1. s \in DOMAIN node /\ Probe(c)[1].sector = s /\ Probe(c)[1].next = next
  BY DEF Opened
<1>2. t = ClimbOne(start, Probe(c)[1])
  BY ClimbsAre
<1>3. /\ t.key = node[s][NodeHalf(node[s]) + 1].key /\ t.child = n2
      /\ CutNode(node, t.node, s, n2, next, e)
  <2> DEFINE step == Probe(c)[1]
  <2>1. NodeFull(node, n, fresh, step, s, n2)
    BY <1>1 DEF NodeFull
  <2> HIDE DEF n2, step
  <2>2. NodeSplit(node, key, n, fresh, step, s, n2, ClimbOne(ClimbOf(node, key, n, fresh), step))
    BY <2>1, ClimbFull
  <2>3. NodeSplit(node, key, n, fresh, step, s, n2, t)
    BY <1>2, <2>2 DEF step
  <2>4. step.next = next
    BY <1>1 DEF step
  <2> QED
    BY <2>3, <2>4 DEF NodeSplit
<1>4. m = 1 /\ i = 1 /\ s = root /\ rows[i] = node[root] /\ next \in 2 .. Len(node[root]) + 1
  BY DEF Opened, RowsAre, LowCount, LowNode
<1>5. root \in DOMAIN node /\ node[root] \in Seq(Entry) /\ Len(node[root]) >= 2
  <2>1. root \in DOMAIN node
    BY DEF Tree
  <2>2. node[root] \in Seq(Entry) /\ Len(node[root]) \in Nat
    BY <2>1, TreeTypes
  <2> QED
    BY <1>4, <2>1, <2>2, TreeAssumption
<1>6. rows1[1] = InsertAt(node[root], next, e)
  BY <1>4 DEF RowPut
<1>7. index2[r] = <<[key |-> 0, sector |-> root], [key |-> t.key, sector |-> n2]>>
      /\ \A x \in DOMAIN t.node : index2[x] = t.node[x]
  BY <1>3 DEF NewRoot
<1> HIDE DEF n2
<1> DEFINE key2 == t.key
           index1 == t.node
<1>8. key2 = node[root][NodeHalf(node[root]) + 1].key /\ CutNode(node, index1, root, n2, next, e)
  BY <1>3, <1>4
<1>9. r \notin DOMAIN index1 /\ index2[r] = <<[key |-> 0, sector |-> root], [key |-> key2, sector |-> n2]>>
      /\ \A x \in DOMAIN index1 : index2[x] = index1[x]
  BY <1>7
<1> HIDE DEF key2, index1
<1>10. next \in 2 .. Len(node[root]) + 1 /\ e \in Entry
  BY <1>4
<1> QED
  <2>1. RootSplit(node, root, next, e, n2, index1, r, key2, index2, rows1)
    BY <1>5, <1>6, <1>8, <1>9, <1>10 DEF RootSplit
  <2> QED
    BY <2>1, RootCut

\* The lowest node is full, and the root above it is not.
LEMMA OpenedBelow ==
    ASSUME NEW lv, Tree(lv), levels = 2, Headed(node, root, levels),
           NEW c, NEW rows, NEW m, NEW i, NEW s, NEW next, Opened(rows, m, i, s, next, c),
           Len(Probe(c)) = levels, ~(Len(node[s]) < AllocPerNode),
           NEW key, NEW n, n # NIL, NEW fresh, fresh \in SUBSET Sectors, Min(fresh) \in fresh,
           Min(fresh) \notin DOMAIN node, Min(fresh \ {Min(fresh)}) # NIL,
           NEW t, t = Climbed(Probe(c), key, n, fresh), t.child = NIL,
           NEW e, e = [key |-> key, sector |-> n], e \in Entry,
           NEW rows1, rows1 = RowPut(rows, m, i, InsertAt(rows[i], next, e))
    PROVE  /\ Headed(t.node, root, levels)
           /\ \E rows2 : RowsAre(t.node, root, levels, rows2, m + 1) /\ Parted(rows1, m, i, rows2)
<1> DEFINE start == ClimbOf(node, key, n, fresh)
           n2 == Min(fresh)
           u == ClimbOne(start, Probe(c)[2])
           key2 == node[s][NodeHalf(node[s]) + 1].key
           fresh2 == fresh \ {n2}
           e2 == [key |-> key2, sector |-> n2]
           place == i + 1
<1>1. s \in DOMAIN node /\ Probe(c)[2].sector = s /\ Probe(c)[2].next = next
      /\ Probe(c)[1].sector = root /\ Probe(c)[1].next = place /\ place \in 2 .. Len(node[root]) + 1
      /\ RowsAre(node, root, levels, rows, m) /\ i \in 1 .. m /\ s = LowNode(node, root, levels, i)
      /\ next \in 2 .. Len(node[s]) + 1
  BY DEF Opened
<1>2. t = ClimbOne(u, Probe(c)[1])
  BY ClimbsAre
<1>3. u = ClimbOf(u.node, key2, n2, fresh2) /\ CutNode(node, u.node, s, n2, next, e)
  <2> DEFINE step == Probe(c)[2]
  <2>1. NodeFull(node, n, fresh, step, s, n2)
    BY <1>1 DEF NodeFull
  <2>2. step.next = next
    BY <1>1
  <2> HIDE DEF n2, step
  <2>3. NodeSplit(node, key, n, fresh, step, s, n2, ClimbOne(ClimbOf(node, key, n, fresh), step))
    BY <2>1, ClimbFull
  <2>4. NodeSplit(node, key, n, fresh, step, s, n2, u)
    BY <2>3 DEF step
  <2> HIDE DEF u, start
  <2> QED
    BY <2>2, <2>4 DEF NodeSplit
<1>4. n2 # NIL /\ n2 \in Sectors /\ node[s] \in Seq(Entry) /\ root \in DOMAIN node /\ Len(node[s]) >= 2
      /\ Len(node[s]) \in Nat
  <2>1. root \in DOMAIN node
    BY DEF Tree
  <2>2. node[s] \in Seq(Entry) /\ Len(node[s]) \in Nat
    BY <1>1, TreeTypes
  <2>3. n2 \in Sectors
    OBVIOUS
  <2> HIDE DEF n2
  <2> QED
    BY <2>1, <2>2, <2>3, TreeAssumption DEF NIL
<1>5. e2 \in Entry
  <2>1. NodeHalf(node[s]) + 1 \in 1 .. Len(node[s])
    <3> DEFINE len == Len(node[s])
    <3>1. len \in Nat /\ len >= 2
      BY <1>4
    <3> HIDE DEF len
    <3>2. (len \div 2) + 1 \in 1 .. len
      BY <3>1
    <3> QED
      BY <3>2 DEF NodeHalf, len
  <2>2. node[s][NodeHalf(node[s]) + 1] \in Entry
    BY <1>4, <2>1
  <2> QED
    BY <1>4, <2>2 DEF Entry
<1>6. s # root /\ Rooted(DOMAIN leaf, node, root, levels, lv)
  <2>1. Rooted(DOMAIN leaf, node, root, levels, lv)
    BY DEF Tree, Rooted
  <2>2. m = LowCount(node, root, levels)
    BY <1>1 DEF RowsAre
  <2>3. lv[s] = 2 /\ lv[root] = 1
    <3>1. lv[LowNode(node, root, levels, i)] = levels
      BY <1>1, <2>1, <2>2, LowNodesAre
    <3> QED
      BY <1>1, <3>1 DEF Tree
  <2> QED
    BY <2>1, <2>3
<1>7. root \in DOMAIN u.node /\ u.node[root] = node[root] /\ root # n2
  BY <1>3, <1>4, <1>6 DEF CutNode
<1>8. PutIn(u.node, t.node, root, place, e2)
  <2> DEFINE index1 == u.node
             step == Probe(c)[1]
  <2> HIDE DEF key2, fresh2, n2, u, index1, step, place
  <2>1. u = ClimbOf(index1, key2, n2, fresh2) /\ n2 # NIL /\ root \in DOMAIN index1
    BY <1>3, <1>4, <1>7 DEF index1
  <2>2. root = step.sector /\ place = step.next /\ t = ClimbOne(u, step)
    BY <1>1, <1>2 DEF step
  <2>3. CASE Len(index1[root]) < AllocPerNode
    <3>1. PutIn(index1, t.node, root, place, [key |-> key2, sector |-> n2])
      BY ONLY <2>1, <2>2, <2>3, ClimbRoom
    <3> QED
      BY <3>1 DEF index1, e2
  <2>4. CASE ~(Len(index1[root]) < AllocPerNode)
    <3>1. u = [node |-> index1, key |-> key2, child |-> n2, fresh |-> fresh2]
      BY <2>1 DEF ClimbOf
    <3> DEFINE n3 == Min(fresh2)
    <3>2. u.child = n2 /\ u.fresh = fresh2 /\ u.node = index1
      BY <3>1
    <3>3. t.child = n3
      <4> DEFINE old == index1[root]
                 half == NodeHalf(old)
                 upper == SubSeq(old, half + 1, Len(old))
                 lower == SubSeq(old, 1, half)
                 new == [x \in DOMAIN index1 \union {n3} |->
                           IF x = n3 THEN IF place > half + 1 THEN InsertAt(upper, place - half, e2) ELSE upper
                           ELSE IF x = root THEN IF place > half + 1 THEN lower ELSE InsertAt(lower, place, e2)
                           ELSE index1[x]]
      <4> HIDE DEF n3
      <4>1. t = [u EXCEPT !.node = new, !.key = old[half + 1].key, !.child = n3, !.fresh = fresh2 \ {n3}]
        BY <2>1, <2>2, <2>4, <3>1, <3>2 DEF ClimbOne, n3, e2
      <4> HIDE DEF new, old, half
      <4> QED
        BY <3>1, <4>1
    <3>4. n3 # NIL
      BY DEF fresh2, n2
    <3> HIDE DEF n3
    <3> QED
      BY <3>3, <3>4
  <2> QED
    BY <2>3, <2>4
<1> HIDE DEF key2, n2, fresh2, u, e2, place, start
<1>9. e2.key = node[s][NodeHalf(node[s]) + 1].key /\ e2.sector = n2 /\ place = i + 1
  BY DEF e2, key2, place
<1> DEFINE index1 == u.node
           index2 == t.node
<1>10. CutNode(node, index1, s, n2, next, e) /\ PutIn(index1, index2, root, place, e2)
  BY <1>3, <1>8
<1> HIDE DEF index1
<1>11. levels = 2 /\ Rooted(DOMAIN leaf, node, root, levels, lv) /\ Headed(node, root, levels)
       /\ Len(node[s]) >= 2
  BY <1>4, <1>6
<1>12. rows1 = RowPut(rows, m, i, InsertAt(rows[i], next, e)) /\ e \in Entry
  OBVIOUS
<1>13. LowNodeSplit(DOMAIN leaf, node, root, lv, rows, m, i, s, next, e, n2, index1, e2, index2)
  BY <1>1, <1>5, <1>9, <1>10, <1>11, <1>12 DEF LowNodeSplit
<1>14. Headed(index2, root, 2)
       /\ \E rows2 : RowsAre(index2, root, 2, rows2, m + 1) /\ Parted(rows1, m, i, rows2)
  <2> HIDE DEF index2
  <2> QED
    BY <1>12, <1>13, LowNodeCut
<1> QED
  BY <1>11, <1>14

\* The index an insertion leaves is in order over the leaves it leaves.
LEMMA IndexInLine ==
    ASSUME NEW lv, Tree(lv), Filling(node), Cardinality(Fresh) >= levels + 2,
           levels \in 1 .. 2, Headed(node, root, levels),
           NEW ch, InLine(node, root, levels, ch), Numbered(ch), NEW c, c \in Nat,
           NEW key, key \in Int, NEW n, n = Min(Fresh),
           NEW t, t = Climbed(Probe(c), key, n, Fresh \ {n}),
           NEW ch2, SplitIn(ch, LeafOf(c), key, n, ch2)
    PROVE  /\ t.child = NIL => Headed(t.node, root, levels) /\ InLine(t.node, root, levels, ch2)
           /\ t.child # NIL /\ levels = 1
                => Headed(NewRoot(t), Min(t.fresh), 2) /\ InLine(NewRoot(t), Min(t.fresh), 2, ch2)
<1> DEFINE fresh == Fresh \ {n}
           n2 == Min(fresh)
           e == [key |-> key, sector |-> n]
<1>1. /\ n \in Sectors /\ n # NIL /\ fresh \in SUBSET Sectors /\ n2 \in fresh /\ n2 \notin DOMAIN node
      /\ Min(fresh \ {n2}) # NIL
  <2>1. Fresh \in SUBSET Sectors /\ Fresh \intersect DOMAIN node = {}
    BY DEF Fresh
  <2>2. n \in Fresh /\ fresh \in SUBSET Sectors /\ Cardinality(fresh) >= levels + 1
    <3>1. levels + 1 \in Nat /\ Cardinality(Fresh) >= (levels + 1) + 1
      BY <2>1
    <3> HIDE DEF fresh
    <3> QED
      BY <2>1, <3>1, FreshBlock DEF fresh
  <2> HIDE DEF fresh
  <2>3. n2 \in fresh /\ fresh \ {n2} \in SUBSET Sectors /\ Cardinality(fresh \ {n2}) >= levels
    BY <2>2, FreshBlock
  <2> HIDE DEF n2
  <2>4. Min(fresh \ {n2}) \in fresh \ {n2}
    <3>1. levels - 1 \in Nat /\ Cardinality(fresh \ {n2}) >= (levels - 1) + 1
      BY <2>3
    <3> DEFINE S == fresh \ {n2}
               l == levels - 1
    <3>2. S \in SUBSET Sectors /\ l \in Nat /\ Cardinality(S) >= l + 1
      BY <2>3, <3>1
    <3> HIDE DEF S, l
    <3>3. Min(S) \in S
      BY <3>2, FreshBlock
    <3> QED
      BY <3>3 DEF S
  <2>5. n2 \in Fresh
    BY <2>3 DEF fresh
  <2> QED
    BY <2>1, <2>2, <2>3, <2>4, <2>5, TreeAssumption DEF NIL
<1>2. e \in Entry /\ e.key = key /\ e.sector = n
  BY <1>1 DEF Entry
<1>3. \A s \in DOMAIN node : node[s] # <<>>
  <2>1. \A s \in DOMAIN node : Len(node[s]) # 0
    BY TreeAssumption DEF Filling
  <2> QED
    BY <2>1
<1>4. PICK rows, m, i, s, next : Opened(rows, m, i, s, next, c)
  BY <1>3, ProbeOpens
<1> HIDE DEF fresh, n2, e
<1> DEFINE rows1 == RowPut(rows, m, i, InsertAt(rows[i], next, e))
<1>5. Ranks(rows, m, ch)
  BY <1>4, InLineIs DEF Opened
<1>6. Ranks(rows1, m, ch2)
  <2>1. SplitIn(ch, LeafOf(c), e.key, e.sector, ch2)
    BY <1>2
  <2> QED
    BY <1>2, <1>4, <1>5, <2>1, OpenedRanks
<1>7. Len(Probe(c)) = levels
  BY DEF Probe
<1> HIDE DEF rows1
<1>70. rows1 = RowPut(rows, m, i, InsertAt(rows[i], next, e)) /\ e = [key |-> key, sector |-> n]
       /\ t = Climbed(Probe(c), key, n, fresh)
  BY DEF rows1, e, fresh
<1>8. CASE Len(node[s]) < AllocPerNode
  <2>1. t.child = NIL /\ Headed(t.node, root, levels) /\ RowsAre(t.node, root, levels, rows1, m)
    BY <1>1, <1>2, <1>4, <1>7, <1>70, <1>8, OpenedRoom
  <2> QED
    BY <1>6, <2>1 DEF InLine
<1>9. CASE ~(Len(node[s]) < AllocPerNode) /\ levels = 1
  <2>1. t.child # NIL
    <3> DEFINE step == Probe(c)[1]
    <3>1. NodeFull(node, n, fresh, step, s, n2)
      BY <1>1, <1>4, <1>9 DEF NodeFull, Opened, n2
    <3> HIDE DEF step
    <3>2. NodeSplit(node, key, n, fresh, step, s, n2, ClimbOne(ClimbOf(node, key, n, fresh), step))
      BY <3>1, ClimbFull
    <3>3. t = ClimbOne(ClimbOf(node, key, n, fresh), step)
      BY <1>7, <1>9, <1>70, ClimbsAre DEF step
    <3>4. t.child = n2
      BY <3>2, <3>3 DEF NodeSplit
    <3> QED
      BY <1>1, <3>4, TreeAssumption DEF NIL
  <2>2. Min(t.fresh) \notin DOMAIN t.node
    <3> DEFINE leafs == DOMAIN leaf \union {n}
    <3>1. \E lw : Climbing(t, 1, leafs, root, levels, lw)
      BY IndexClimbed
    <3>2. t.fresh \in SUBSET Sectors /\ t.fresh \intersect Blocks(leafs, t.node) = {} /\ Cardinality(t.fresh) >= 1
      BY <3>1 DEF Climbing
    <3>3. Min(t.fresh) \in t.fresh
      <4>1. Cardinality(t.fresh) >= 0 + 1 /\ 0 \in Nat
        BY <3>2
      <4> QED
        BY <3>2, <4>1, FreshBlock
    <3> QED
      BY <3>2, <3>3 DEF Blocks
  <2> DEFINE index2 == NewRoot(t)
             r == Min(t.fresh)
  <2>3. m = 1 /\ i = 1
    BY <1>4, <1>9 DEF Opened, RowsAre, LowCount
  <2>4. Headed(index2, r, 2) /\ \E rows2 : RowsAre(index2, r, 2, rows2, 2) /\ Parted(rows1, 1, 1, rows2)
    <3>1. index2 = NewRoot(t) /\ r = Min(t.fresh) /\ r \notin DOMAIN t.node
      BY <2>2
    <3>2. Min(fresh) \notin DOMAIN node
      BY <1>1 DEF n2
    <3> HIDE DEF index2, r
    <3> QED
      BY <1>1, <1>2, <1>4, <1>7, <1>9, <1>70, <3>1, <3>2, OpenedRoot
  <2> HIDE DEF index2, r
  <2>5. PICK rows2 : RowsAre(index2, r, 2, rows2, 2) /\ Parted(rows1, 1, 1, rows2)
    BY <2>4
  <2>6. Ranks(rows2, 1 + 1, ch2)
    BY <1>6, <2>3, <2>5, RanksCut
  <2>7. InLine(index2, r, 2, ch2)
    BY <2>5, <2>6 DEF InLine
  <2> QED
    BY <2>1, <2>4, <2>7 DEF index2, r
<1>10. CASE ~(Len(node[s]) < AllocPerNode) /\ levels = 2 /\ t.child = NIL
  <2> DEFINE index2 == t.node
  <2>1. Headed(index2, root, levels)
        /\ \E rows2 : RowsAre(index2, root, levels, rows2, m + 1) /\ Parted(rows1, m, i, rows2)
    <3>1. Min(fresh) \in fresh /\ Min(fresh) \notin DOMAIN node /\ Min(fresh \ {Min(fresh)}) # NIL
      BY <1>1 DEF n2
    <3> QED
      BY <1>1, <1>2, <1>4, <1>7, <1>10, <1>70, <3>1, OpenedBelow
  <2> HIDE DEF index2
  <2>2. PICK rows2 : RowsAre(index2, root, levels, rows2, m + 1) /\ Parted(rows1, m, i, rows2)
    BY <2>1
  <2>3. Ranks(rows2, m + 1, ch2)
    BY <1>6, <2>2, RanksCut
  <2>4. InLine(index2, root, levels, ch2)
    BY <2>2, <2>3 DEF InLine
  <2> QED
    BY <1>10, <2>1, <2>4 DEF index2
<1>11. CASE ~(Len(node[s]) < AllocPerNode) /\ levels = 2 /\ t.child # NIL
  BY <1>11
<1>12. levels = 1 \/ levels = 2
  OBVIOUS
<1> QED
  BY <1>8, <1>9, <1>10, <1>11, <1>12

-----------------------------------------------------------------------------
(* The exceptions of a chunk, wherever they are. *)

FoundIn(lf, d) == UNION {Found(lf[s], d) : s \in DOMAIN lf}

\* They are in the only leaf that has the chunk.
LEMMA OneLeafHas ==
    ASSUME NEW lf, NEW mask, Tidy(lf, mask), NEW d, NEW s, s \in DOMAIN lf,
           \A t \in DOMAIN lf : d \in Rchunks(lf[t]) => t = s
    PROVE  FoundIn(lf, d) = Found(lf[s], d)
<1>1. ASSUME NEW t \in DOMAIN lf, t # s
      PROVE  Found(lf[t], d) = {}
  <2>1. Neat(lf[t]) /\ d \notin Rchunks(lf[t])
    BY <1>1 DEF Tidy
  <2> QED
    BY <2>1 DEF Found
<1> QED
  BY <1>1 DEF FoundIn

\* A leaf has an exception more.
LEMMA FoundGrown ==
    ASSUME NEW lf, NEW mask, Tidy(lf, mask), NEW lf2, Tidy(lf2, mask), NEW s, s \in DOMAIN lf,
           NEW c, \A t \in DOMAIN lf : c \in Rchunks(lf[t]) => t = s,
           NEW b, NEW new, NEW active, Grown(lf, lf2, s, c, b, new, active)
    PROVE  /\ \A d : d # c => FoundIn(lf2, d) = FoundIn(lf, d)
           /\ FoundIn(lf2, c) = WithNew(FoundIn(lf, c), b, new, active)
<1>1. /\ DOMAIN lf2 = DOMAIN lf /\ \A t \in DOMAIN lf : t # s => lf2[t] = lf[t]
      /\ \A d : d # c => Found(lf2[s], d) = Found(lf[s], d)
      /\ Found(lf2[s], c) = WithNew(Found(lf[s], c), b, new, active)
  BY DEF Grown
<1>2. ASSUME NEW d, d # c
      PROVE  FoundIn(lf2, d) = FoundIn(lf, d)
  <2>1. \A t \in DOMAIN lf : Found(lf2[t], d) = Found(lf[t], d)
    BY <1>1, <1>2
  <2> QED
    BY <1>1, <2>1 DEF FoundIn
<1>3. FoundIn(lf, c) = Found(lf[s], c)
  BY OneLeafHas
<1>4. FoundIn(lf2, c) = Found(lf2[s], c)
  <2>1. s \in DOMAIN lf2 /\ \A t \in DOMAIN lf2 : c \in Rchunks(lf2[t]) => t = s
    BY <1>1
  <2> QED
    BY <2>1, OneLeafHas
<1> QED
  BY <1>1, <1>2, <1>3, <1>4

\* A leaf is split.
LEMMA FoundHalved ==
    ASSUME NEW lf, NEW lf2, NEW s, s \in DOMAIN lf, NEW n, n \notin DOMAIN lf,
           NEW key, Halved(lf, lf2, s, n, key), NEW d
    PROVE  FoundIn(lf2, d) = FoundIn(lf, d)
<1>1. /\ DOMAIN lf2 = DOMAIN lf \union {n} /\ \A t \in DOMAIN lf : t # s => lf2[t] = lf[t]
      /\ d < key => d \notin Rchunks(lf2[n]) /\ Found(lf2[s], d) = Found(lf[s], d)
      /\ ~(d < key) => d \notin Rchunks(lf2[s]) /\ Found(lf2[n], d) = Found(lf[s], d)
  BY DEF Halved
<1>2. Found(lf2[s], d) \union Found(lf2[n], d) = Found(lf[s], d)
  <2>1. CASE d < key
    <3>1. Found(lf2[n], d) = {}
      BY <1>1, <2>1 DEF Found
    <3> QED
      BY <1>1, <2>1, <3>1
  <2>2. CASE ~(d < key)
    <3>1. Found(lf2[s], d) = {}
      BY <1>1, <2>2 DEF Found
    <3> QED
      BY <1>1, <2>2, <3>1
  <2> QED
    BY <2>1, <2>2
<1>3. \A t \in DOMAIN lf : t # s => Found(lf2[t], d) = Found(lf[t], d)
  BY <1>1
<1>4. FoundIn(lf2, d) \subseteq FoundIn(lf, d)
  BY <1>1, <1>2, <1>3 DEF FoundIn
<1>5. FoundIn(lf, d) \subseteq FoundIn(lf2, d)
  <2>1. ASSUME NEW e \in FoundIn(lf, d)
        PROVE  e \in FoundIn(lf2, d)
    <3>1. PICK t \in DOMAIN lf : e \in Found(lf[t], d)
      BY <2>1 DEF FoundIn
    <3>2. CASE t = s
      BY <1>1, <1>2, <3>1, <3>2 DEF FoundIn
    <3>3. CASE t # s
      BY <1>1, <1>3, <3>1, <3>3 DEF FoundIn
    <3> QED
      BY <3>2, <3>3
  <2> QED
    BY <2>1
<1> QED
  BY <1>4, <1>5

\* Bits are taken out of a leaf: a chunk in it loses them.
LEMMA FoundCleared ==
    ASSUME NEW lf, NEW mask, Tidy(lf, mask), NEW lf2, Tidy(lf2, mask), NEW s, s \in DOMAIN lf,
           NEW bits, ClearedAt(lf, lf2, s, bits), NEW d,
           \A t, u \in DOMAIN lf : d \in Rchunks(lf[t]) /\ d \in Rchunks(lf[u]) => t = u
    PROVE  FoundIn(lf2, d) = FoundIn(lf, d) \/ FoundIn(lf2, d) = Cut(FoundIn(lf, d), bits)
<1>1. /\ DOMAIN lf2 = DOMAIN lf /\ \A t \in DOMAIN lf : t # s => lf2[t] = lf[t]
      /\ Rchunks(lf2[s]) \subseteq Rchunks(lf[s]) /\ Found(lf2[s], d) = Cut(Found(lf[s], d), bits)
  BY DEF ClearedAt
<1>2. CASE d \in Rchunks(lf[s])
  <2>1. FoundIn(lf, d) = Found(lf[s], d)
    BY <1>2, OneLeafHas
  <2>2. FoundIn(lf2, d) = Found(lf2[s], d)
    <3>1. s \in DOMAIN lf2 /\ \A t \in DOMAIN lf2 : d \in Rchunks(lf2[t]) => t = s
      BY <1>1, <1>2
    <3> QED
      BY <3>1, OneLeafHas
  <2> QED
    BY <1>1, <2>1, <2>2
<1>3. CASE d \notin Rchunks(lf[s])
  <2>1. Found(lf[s], d) = {} /\ Found(lf2[s], d) = {}
    BY <1>1, <1>3 DEF Found
  <2>2. \A t \in DOMAIN lf : Found(lf2[t], d) = Found(lf[t], d)
    BY <1>1, <2>1
  <2> QED
    BY <1>1, <2>2 DEF FoundIn
<1> QED
  BY <1>2, <1>3

\* Leaf s has gone into p, as far as chunk d is concerned.
GoneInto(lf, lf2, s, p, d) ==
    /\ s \in DOMAIN lf /\ p \in DOMAIN lf /\ p # s /\ DOMAIN lf2 = DOMAIN lf \ {s}
    /\ Found(lf2[p], d) = Found(lf[p], d) \union Found(lf[s], d)
    /\ \A t \in DOMAIN lf : t # s /\ t # p => lf2[t] = lf[t]

\* A leaf goes into another one.
LEMMA FoundMerged ==
    ASSUME NEW lf, NEW lf2, NEW s, NEW p, NEW d, GoneInto(lf, lf2, s, p, d)
    PROVE  FoundIn(lf2, d) = FoundIn(lf, d)
<1> USE DEF GoneInto
<1>1. \A t \in DOMAIN lf : t # s /\ t # p => Found(lf2[t], d) = Found(lf[t], d)
  OBVIOUS
<1>2. FoundIn(lf2, d) \subseteq FoundIn(lf, d)
  BY <1>1 DEF FoundIn
<1>3. ASSUME NEW e \in FoundIn(lf, d)
      PROVE  e \in FoundIn(lf2, d)
  <2>1. PICK t \in DOMAIN lf : e \in Found(lf[t], d)
    BY <1>3 DEF FoundIn
  <2>2. CASE t = s \/ t = p
    BY <2>1, <2>2 DEF FoundIn
  <2>3. CASE t # s /\ t # p
    BY <1>1, <2>1, <2>3 DEF FoundIn
  <2> QED
    BY <2>2, <2>3
<1> QED
  BY <1>2, <1>3

\* No chunk is in two leaves.
LEMMA RanksApart ==
    ASSUME NEW rows, NEW m, NEW ch, Ranks(rows, m, ch), Numbered(ch), NEW c,
           NEW s, s \in DOMAIN ch, c \in ch[s], NEW t, t \in DOMAIN ch, c \in ch[t]
    PROVE  s = t
<1>1. PICK n, f, b : Flat(rows, m, n, f, b) /\ Straight(f, n, ch)
  BY DEF Ranks
<1>2. PICK p \in 1 .. n, q \in 1 .. n : f[p].sector = s /\ f[q].sector = t
  BY <1>1 DEF Straight
<1>3. n \in Nat /\ f[p].key \in Int /\ f[q].key \in Int /\ c \in Nat
  BY <1>1, <1>2, FlatListed, ListedIs DEF Numbered
<1>4. ~(p < q)
  <2>1. SUFFICES ASSUME p < q PROVE FALSE
    OBVIOUS
  <2>2. c < f[q].key /\ q \in 2 .. n
    BY <1>1, <1>2, <1>3, <2>1 DEF Straight
  <2>3. f[q].key <= c
    BY <1>1, <1>2, <2>2 DEF Straight
  <2> QED
    BY <1>3, <2>2, <2>3
<1>5. ~(q < p)
  <2>1. SUFFICES ASSUME q < p PROVE FALSE
    OBVIOUS
  <2>2. c < f[p].key /\ p \in 2 .. n
    BY <1>1, <1>2, <1>3, <2>1 DEF Straight
  <2>3. f[p].key <= c
    BY <1>1, <1>2, <2>2 DEF Straight
  <2> QED
    BY <1>3, <2>2, <2>3
<1> QED
  BY <1>2, <1>3, <1>4, <1>5

\* Exceptions shared by snapshots of a mask are shared by ones of a larger one.
LEMMA TidyWider ==
    ASSUME NEW lf, NEW mask, Tidy(lf, mask), NEW wide, mask \subseteq wide
    PROVE  Tidy(lf, wide)
BY DEF Tidy, SharesFit

-----------------------------------------------------------------------------
(* An insertion keeps the order. *)

\* The index is in order over the leaves, and the depth of the tree is one it
\* may have.
InKeyOrder ==
    /\ levels \in 1 .. MaxLevels
    /\ super.root \in Sectors /\ super.levels \in 1 .. MaxLevels
    /\ Headed(node, root, levels)
    /\ InLine(node, root, levels, ChunksIn(leaf))

\* What a leaf has that no insertion is under way in.
LEMMA AtRest ==
    ASSUME IInv, walk = Idle
    PROVE  /\ Filling(node) /\ Fitting(leaf, used) /\ snapmask \in SUBSET Bit
           /\ \E lv : Tree(lv)
           /\ \A s \in DOMAIN node : node[s] # <<>>
<1>1. Filling(node) /\ \E lv : Rooted(DOMAIN leaf, node, root, levels, lv)
  BY RestIsSound DEF IInv
<1>2. \E lv : Tree(lv)
  BY <1>1 DEF Rooted, Tree
<1>3. PICK lv : Tree(lv)
  BY <1>2
<1>4. \A s \in DOMAIN node : node[s] # <<>>
  <2>1. \A s \in DOMAIN node : Len(node[s]) # 0
    BY <1>1, TreeAssumption DEF Filling
  <2> QED
    BY <2>1
<1> QED
  BY <1>1, <1>2, <1>4 DEF IInv

\* The leaf of a chunk is the only one that may have it.
LEMMA LeafOfHas ==
    ASSUME NEW lv, Tree(lv), \A s \in DOMAIN node : node[s] # <<>>, levels \in 1 .. 2,
           Headed(node, root, levels), NEW ch, InLine(node, root, levels, ch), Numbered(ch),
           NEW c, c \in Nat
    PROVE  /\ LeafOf(c) \in DOMAIN ch
           /\ \A s \in DOMAIN ch : c \in ch[s] => s = LeafOf(c)
           /\ \A ch2 : /\ DOMAIN ch2 = DOMAIN ch /\ ch2[LeafOf(c)] = ch[LeafOf(c)] \union {c}
                       /\ \A t \in DOMAIN ch : t # LeafOf(c) => ch2[t] = ch[t]
                       => InLine(node, root, levels, ch2)
<1>1. PICK rows, m, i, s, next : Opened(rows, m, i, s, next, c)
  BY ProbeOpens
<1> DEFINE j == next - 1
<1>2. Guides(rows, m, i, j, c) /\ rows[i][j].sector = LeafOf(c) /\ RowsAre(node, root, levels, rows, m)
      /\ i \in 1 .. m /\ j \in 1 .. Len(rows[i])
  BY <1>1 DEF Opened, Guides
<1> HIDE DEF j
<1>3. Ranks(rows, m, ch)
  BY <1>2, InLineIs
<1>4. LeafOf(c) \in DOMAIN ch
  BY <1>2, <1>3, RanksReach
<1>40. Numbered(ch) /\ c \in Nat
  OBVIOUS
<1> DEFINE s0 == LeafOf(c)
<1>45. s0 = rows[i][j].sector
  BY <1>2
<1> HIDE DEF s0
<1>46. \A x \in DOMAIN ch : c \in ch[x] => x = rows[i][j].sector
  <2>1. Guides(rows, m, i, j, c)
    BY ONLY <1>2
  <2> QED
    BY ONLY <1>3, <1>40, <2>1, RanksFind
<1>5. \A x \in DOMAIN ch : c \in ch[x] => x = s0
  BY <1>45, <1>46
<1>6. ASSUME NEW ch2, DOMAIN ch2 = DOMAIN ch, ch2[s0] = ch[s0] \union {c},
             \A t \in DOMAIN ch : t # s0 => ch2[t] = ch[t]
      PROVE  InLine(node, root, levels, ch2)
  <2>1. Ranks(rows, m, ch2)
    BY ONLY <1>2, <1>3, <1>40, <1>45, <1>6, RanksAdd
  <2> QED
    BY <1>2, <2>1, InLineIs
<1> QED
  BY <1>4, <1>5, <1>6 DEF s0

\* The chunks of the leaves when one has a chunk more.
LEMMA ChunksGrown ==
    ASSUME NEW lf, NEW lf2, NEW s, s \in DOMAIN lf, NEW c, NEW b, NEW new, NEW active,
           Grown(lf, lf2, s, c, b, new, active)
    PROVE  /\ DOMAIN ChunksIn(lf2) = DOMAIN ChunksIn(lf)
           /\ ChunksIn(lf2)[s] = ChunksIn(lf)[s] \union {c}
           /\ \A t \in DOMAIN ChunksIn(lf) : t # s => ChunksIn(lf2)[t] = ChunksIn(lf)[t]
BY DEF Grown, ChunksIn

\* An insertion into leaf s of lf, or into one of its halves: what it needs.
Writes(lf, mask, s, c, b, new, active) ==
    /\ Tidy(lf, mask) /\ s \in DOMAIN lf /\ c \in Chunks /\ new \in StoreChunks
    /\ b \in Bit \union {ORIGIN} /\ active \in SUBSET Bit /\ active \subseteq mask /\ (b # ORIGIN => b \in mask)
    /\ HasRoom(lf[s], c) /\ Wanted(Found(lf[s], c), b, active)

\* The leaf has one exception more.
LEMMA Written ==
    ASSUME NEW lf, NEW mask, NEW s, NEW c, NEW b, NEW new, NEW active,
           Writes(lf, mask, s, c, b, new, active),
           NEW lf2, lf2 = With(lf, s, AddExceptionToLeaf(lf[s], c, new, b, active))
    PROVE  Tidy(lf2, mask) /\ Grown(lf, lf2, s, c, b, new, active)
BY TidyGrows DEF Writes

\* The exceptions of chunk c are one more, and all others what they were.
OneMade(lf, lf2, c, b, new, active) ==
    /\ \A d : d # c => FoundIn(lf2, d) = FoundIn(lf, d)
    /\ FoundIn(lf2, c) = WithNew(FoundIn(lf, c), b, new, active)

\* A chunk gets an exception in its leaf.
LEMMA AddInOrder ==
    ASSUME IInv, walk = Idle, InKeyOrder, MaxLevels <= 2,
           NEW mask, NEW c, NEW b, NEW new,
           Writes(leaf, mask, LeafOf(c), c, b, new, snapmask), AddToLeaf(LeafOf(c), c, b, new),
           super' = super
    PROVE  InKeyOrder' /\ Tidy(leaf', mask) /\ OneMade(leaf, leaf', c, b, new, snapmask)
<1> DEFINE s == LeafOf(c)
           ch == ChunksIn(leaf)
           lf2 == leaf'
<1>1. levels \in 1 .. 2 /\ levels \in 1 .. MaxLevels
  BY TreeAssumption DEF InKeyOrder
<1>2. PICK lv : Tree(lv) /\ \A x \in DOMAIN node : node[x] # <<>>
  BY AtRest
<1>3. Tidy(leaf, mask) /\ c \in Nat /\ s \in DOMAIN leaf
  BY LeafAssumption DEF Writes
<1>4. /\ Numbered(ch) /\ DOMAIN ch = DOMAIN leaf
      /\ \A x \in DOMAIN leaf : ch[x] = Rchunks(leaf[x])
  BY <1>3, ChunksNumbered
<1>5. lf2 = With(leaf, s, AddExceptionToLeaf(leaf[s], c, new, b, snapmask))
      /\ node' = node /\ root' = root /\ levels' = levels
  BY DEF AddToLeaf, With
<1>6. Tidy(lf2, mask) /\ Grown(leaf, lf2, s, c, b, new, snapmask)
  <2> HIDE DEF s, lf2
  <2>1. Writes(leaf, mask, s, c, b, new, snapmask)
    BY DEF s
  <2> QED
    BY <1>5, <2>1, Written
<1>7. Headed(node, root, levels) /\ InLine(node, root, levels, ch)
  BY DEF InKeyOrder
<1> HIDE DEF ch
<1>8. /\ \A x \in DOMAIN leaf : c \in Rchunks(leaf[x]) => x = s
      /\ InLine(node, root, levels, ChunksIn(lf2))
  <2> DEFINE ch2 == ChunksIn(lf2)
  <2>1. DOMAIN ch2 = DOMAIN ch /\ ch2[s] = ch[s] \union {c} /\ \A t \in DOMAIN ch : t # s => ch2[t] = ch[t]
    <3> HIDE DEF lf2, s
    <3>1. DOMAIN ChunksIn(lf2) = DOMAIN ChunksIn(leaf) /\ ChunksIn(lf2)[s] = ChunksIn(leaf)[s] \union {c}
          /\ \A t \in DOMAIN ChunksIn(leaf) : t # s => ChunksIn(lf2)[t] = ChunksIn(leaf)[t]
      BY <1>3, <1>6 DEF Grown, ChunksIn
    <3> QED
      BY <3>1 DEF ch
  <2> HIDE DEF ch2
  <2>2. /\ \A x \in DOMAIN ch : c \in ch[x] => x = LeafOf(c)
        /\ \A ch3 : /\ DOMAIN ch3 = DOMAIN ch /\ ch3[LeafOf(c)] = ch[LeafOf(c)] \union {c}
                    /\ \A t \in DOMAIN ch : t # LeafOf(c) => ch3[t] = ch[t]
                    => InLine(node, root, levels, ch3)
    BY <1>1, <1>2, <1>3, <1>4, <1>7, LeafOfHas
  <2>3. InLine(node, root, levels, ch2)
    BY <2>1, <2>2
  <2> QED
    BY <1>4, <2>2, <2>3 DEF ch2
<1>9. OneMade(leaf, lf2, c, b, new, snapmask)
  <2> HIDE DEF lf2, s
  <2> QED
    BY <1>3, <1>6, <1>8, FoundGrown DEF OneMade
<1>10. InKeyOrder'
  BY <1>1, <1>5, <1>7, <1>8 DEF InKeyOrder
<1> QED
  BY <1>6, <1>9, <1>10

\* Leaf s is split at key and the half of chunk c, to, has got it.
Parts(lf, cut, lf2, s, n, key, c, to, b, new, active) ==
    /\ Halved(lf, cut, s, n, key) /\ Grown(cut, lf2, to, c, b, new, active)
    /\ to = (IF c < key THEN s ELSE n)

\* The chunks of the two are those of the leaf and c, cut at the key.
LEMMA PartsSplit ==
    ASSUME NEW lf, NEW cut, NEW lf2, NEW s, s \in DOMAIN lf, NEW n, n \notin DOMAIN lf, NEW key, NEW c, NEW to,
           NEW b, NEW new, NEW active, Parts(lf, cut, lf2, s, n, key, c, to, b, new, active),
           NEW ch1, DOMAIN ch1 = DOMAIN lf, ch1[s] = Rchunks(lf[s]) \union {c},
           \A t \in DOMAIN lf : t # s => ch1[t] = Rchunks(lf[t])
    PROVE  SplitIn(ch1, s, key, n, ChunksIn(lf2))
<1>1. /\ DOMAIN cut = DOMAIN lf \union {n} /\ \A t \in DOMAIN lf : t # s => cut[t] = lf[t]
      /\ key \in Rchunks(lf[s]) /\ \E d \in Rchunks(lf[s]) : d < key
      /\ Rchunks(cut[s]) = {d \in Rchunks(lf[s]) : d < key}
      /\ Rchunks(cut[n]) = {d \in Rchunks(lf[s]) : ~(d < key)}
  BY DEF Parts, Halved
<1>2. /\ DOMAIN lf2 = DOMAIN cut /\ \A t \in DOMAIN cut : t # to => lf2[t] = cut[t]
      /\ Rchunks(lf2[to]) = Rchunks(cut[to]) \union {c}
  BY DEF Parts, Grown
<1> DEFINE ch2 == ChunksIn(lf2)
           low == {d \in ch1[s] : d < key}
           high == {d \in ch1[s] : ~(d < key)}
<1>3. DOMAIN ch2 = DOMAIN lf2 /\ \A t \in DOMAIN lf2 : ch2[t] = Rchunks(lf2[t])
  BY DEF ChunksIn
<1> HIDE DEF ch2
<1>4. s # n /\ s \in DOMAIN lf2 /\ n \in DOMAIN lf2
  BY <1>1, <1>2
<1>5. ch2[s] = low /\ ch2[n] = high
  <2>1. CASE c < key
    <3>1. to = s
      BY <2>1 DEF Parts
    <3>2. ch2[s] = {d \in Rchunks(lf[s]) : d < key} \union {c} /\ ch2[n] = {d \in Rchunks(lf[s]) : ~(d < key)}
      BY <1>1, <1>2, <1>3, <1>4, <3>1
    <3> QED
      BY <2>1, <3>2
  <2>2. CASE ~(c < key)
    <3>1. to = n
      BY <2>2 DEF Parts
    <3>2. ch2[s] = {d \in Rchunks(lf[s]) : d < key} /\ ch2[n] = {d \in Rchunks(lf[s]) : ~(d < key)} \union {c}
      BY <1>1, <1>2, <1>3, <1>4, <3>1
    <3> QED
      BY <2>2, <3>2
  <2> QED
    BY <2>1, <2>2
<1>6. ASSUME NEW t \in DOMAIN lf, t # s
      PROVE  ch2[t] = ch1[t]
  <2>1. t # to /\ t \in DOMAIN cut
    BY <1>1, <1>6 DEF Parts
  <2> QED
    BY <1>1, <1>2, <1>3, <1>6, <2>1
<1>7. key \in ch1[s] /\ \E d \in ch1[s] : d < key
  BY <1>1
<1>8. DOMAIN ch2 = DOMAIN ch1 \union {n} /\ n \notin DOMAIN ch1 /\ s \in DOMAIN ch1
  BY <1>1, <1>2, <1>3
<1>9. SplitIn(ch1, s, key, n, ch2)
  BY <1>5, <1>6, <1>7, <1>8 DEF SplitIn
<1> QED
  BY <1>9 DEF ch2

\* The chunk has one exception more, and no other has changed.
LEMMA PartsMade ==
    ASSUME NEW lf, NEW mask, NEW cut, Tidy(cut, mask), NEW lf2, Tidy(lf2, mask),
           NEW s, s \in DOMAIN lf, NEW n, n \notin DOMAIN lf, NEW key, NEW c, NEW to,
           NEW b, NEW new, NEW active, Parts(lf, cut, lf2, s, n, key, c, to, b, new, active),
           \A t \in DOMAIN lf : c \in Rchunks(lf[t]) => t = s
    PROVE  OneMade(lf, lf2, c, b, new, active)
<1>1. Halved(lf, cut, s, n, key) /\ Grown(cut, lf2, to, c, b, new, active) /\ to \in DOMAIN cut
  BY DEF Parts, Halved
<1>2. \A d : FoundIn(cut, d) = FoundIn(lf, d)
  BY <1>1, FoundHalved
<1>3. ASSUME NEW t \in DOMAIN cut, c \in Rchunks(cut[t])
      PROVE  t = to
  <2>1. t \in DOMAIN lf /\ t # s => cut[t] = lf[t]
    BY <1>1 DEF Halved
  <2>2. t = s \/ t = n
    <3>1. t \in DOMAIN lf \union {n}
      BY <1>1 DEF Halved
    <3> QED
      BY <1>3, <2>1, <3>1
  <2>3. t = s => c < key
    BY <1>1, <1>3 DEF Halved
  <2>4. t = n => ~(c < key)
    BY <1>1, <1>3 DEF Halved
  <2> QED
    BY <2>2, <2>3, <2>4 DEF Parts
<1>4. /\ \A d : d # c => FoundIn(lf2, d) = FoundIn(cut, d)
      /\ FoundIn(lf2, c) = WithNew(FoundIn(cut, c), b, new, active)
  BY <1>1, <1>3, FoundGrown
<1> QED
  BY <1>2, <1>4 DEF OneMade

\* A full leaf is split for a chunk of it.
LEMMA LeafParts ==
    ASSUME NEW s, s \in DOMAIN leaf, NEW c, c \in Chunks, NEW b, b \in Bit \union {ORIGIN},
           NEW new, new \in StoreChunks, NEW mask, mask \subseteq Bit, Tidy(leaf, mask),
           snapmask \in SUBSET Bit, snapmask \subseteq mask, b # ORIGIN => b \in mask,
           Fitting(leaf, used), Wanted(Found(leaf[s], c), b, snapmask),
           ~HasRoom(leaf[s], c), SplitMakesRoom(s, c), SplitAndAdd(s, c, b, new),
           NEW n, n = Min(Fresh), n \notin DOMAIN leaf,
           NEW key, key = SplitPoint(leaf[s])
    PROVE  /\ Tidy(leaf', mask) /\ key \in Nat
           /\ \E cut, to : Tidy(cut, mask) /\ Parts(leaf, cut, leaf', s, n, key, c, to, b, new, snapmask)
<1> DEFINE l == leaf[s]
           cut == SplitAt(leaf, s, n)
           to == IF c < key THEN s ELSE n
           x == AddExceptionToLeaf(cut[to], c, new, b, snapmask)
           lf2 == leaf'
           leafs == DOMAIN leaf \union {n}
<1>1. Count(leaf[s]) >= 2
  <2>1. Neat(l) /\ Distinct(l.area)
    BY DEF Tidy, Fitting
  <2>2. \A d : SharesFit(Found(l, d), Bit)
    BY TidyWider DEF Tidy
  <2> HIDE DEF l
  <2>3. ~HasRoom(l, c)
    BY DEF l
  <2>4. Count(l) >= 2
    BY <2>1, <2>2, <2>3, RoomForOne
  <2> QED
    BY <2>4 DEF l
<1>2. Tidy(cut, mask) /\ Halved(leaf, cut, s, n, key)
  <2> HIDE DEF cut
  <2>1. cut = SplitAt(leaf, s, n)
    BY DEF cut
  <2> QED
    BY <1>1, <2>1, TidySplits
<1>3. key \in Nat /\ c \in Nat
  <2>1. Numbered(ChunksIn(leaf)) /\ DOMAIN ChunksIn(leaf) = DOMAIN leaf /\ ChunksIn(leaf)[s] = Rchunks(leaf[s])
    BY ChunksNumbered
  <2>2. Rchunks(leaf[s]) \in SUBSET Nat
    BY <2>1 DEF Numbered
  <2> QED
    BY <1>2, <2>2, LeafAssumption DEF Halved
<1>4. lf2 = With(cut, to, x)
  <2> DEFINE grown(y) == AddExceptionToLeaf(y, c, new, b, snapmask)
             low == Head1(leaf[s])
             high == Tail1(leaf[s])
  <2>1. lf2 = [y \in leafs |-> IF y = s THEN IF c < key THEN grown(low) ELSE low
                               ELSE IF y = n THEN IF c >= key THEN grown(high) ELSE high
                               ELSE leaf[y]]
    BY DEF SplitAndAdd
  <2>2. cut = [y \in leafs |-> IF y = s THEN low ELSE IF y = n THEN high ELSE leaf[y]]
    BY DEF SplitAt
  <2>3. (c >= key) = ~(c < key)
    BY <1>3
  <2>4. s # n /\ s \in leafs /\ n \in leafs
    OBVIOUS
  <2> HIDE DEF low, high, cut, lf2, leafs
  <2>5. CASE c < key
    <3>1. to = s /\ x = grown(low)
      BY <2>2, <2>4, <2>5
    <3> HIDE DEF x, to, grown
    <3> QED
      BY <2>1, <2>2, <2>3, <2>4, <2>5, <3>1 DEF With
  <2>6. CASE ~(c < key)
    <3>1. to = n /\ x = grown(high)
      BY <2>2, <2>4, <2>6
    <3> HIDE DEF x, to, grown
    <3> QED
      BY <2>1, <2>2, <2>3, <2>4, <2>6, <3>1 DEF With
  <2> QED
    BY <2>5, <2>6
<1>5. Writes(cut, mask, to, c, b, new, snapmask)
  <2>1. to \in DOMAIN cut
    BY DEF SplitAt
  <2>2. Found(cut[to], c) = Found(leaf[s], c)
    <3> HIDE DEF cut
    <3> QED
      BY <1>2 DEF Halved
  <2>3. HasRoom(cut[to], c)
    <3>1. cut[to] = IF c < SplitPoint(leaf[s]) THEN Head1(leaf[s]) ELSE Tail1(leaf[s])
      BY DEF SplitAt
    <3> QED
      BY <3>1 DEF SplitMakesRoom
  <2> HIDE DEF cut, to
  <2> QED
    BY <1>2, <2>1, <2>2, <2>3 DEF Writes
<1>6. to = IF c < key THEN s ELSE n
  OBVIOUS
<1> HIDE DEF cut, to, lf2
<1>7. Tidy(lf2, mask) /\ Grown(cut, lf2, to, c, b, new, snapmask)
  BY <1>4, <1>5, Written
<1>8. Parts(leaf, cut, lf2, s, n, key, c, to, b, new, snapmask)
  BY <1>2, <1>6, <1>7 DEF Parts
<1> QED
  BY <1>2, <1>3, <1>7, <1>8 DEF lf2

\* A leaf is split for a chunk.
LEMMA SplitInOrder ==
    ASSUME IInv, walk = Idle, InKeyOrder, MaxLevels <= 2, Cardinality(Fresh) >= levels + 2,
           NEW c, c \in Chunks, NEW b, b \in Bit \union {ORIGIN},
           NEW new, new \in StoreChunks, NEW mask, mask \subseteq Bit, Tidy(leaf, mask),
           snapmask \subseteq mask, b # ORIGIN => b \in mask,
           NEW s, s = LeafOf(c), Wanted(Found(leaf[s], c), b, snapmask),
           ~HasRoom(leaf[s], c), SplitMakesRoom(s, c), SplitAndAdd(s, c, b, new), super' = super
    PROVE  InKeyOrder' /\ Tidy(leaf', mask) /\ OneMade(leaf, leaf', c, b, new, snapmask)
<1> DEFINE n == Min(Fresh)
           key == SplitPoint(leaf[s])
           t == Climbed(Probe(c), key, n, Fresh \ {n})
           ch == ChunksIn(leaf)
           ch1 == [ch EXCEPT ![s] = ch[s] \union {c}]
           lf2 == leaf'
           ch2 == ChunksIn(lf2)
<1>1. levels \in 1 .. MaxLevels /\ (levels < MaxLevels => levels = 1 /\ levels + 1 = 2 /\ 2 \in 1 .. MaxLevels)
  BY TreeAssumption DEF InKeyOrder
<1>10. levels \in 1 .. 2
  BY TreeAssumption DEF InKeyOrder
<1>2. PICK lv : Tree(lv)
  BY AtRest
<1>3. /\ Filling(node) /\ Fitting(leaf, used) /\ snapmask \in SUBSET Bit
      /\ \A x \in DOMAIN node : node[x] # <<>>
  BY AtRest
<1>4. c \in Nat /\ Headed(node, root, levels) /\ InLine(node, root, levels, ch)
  BY LeafAssumption DEF InKeyOrder
<1>5. /\ Numbered(ch) /\ DOMAIN ch = DOMAIN leaf
      /\ \A x \in DOMAIN leaf : ch[x] = Rchunks(leaf[x])
  BY ChunksNumbered
<1> HIDE DEF ch
<1>6. /\ s \in DOMAIN leaf
      /\ \A x \in DOMAIN ch : c \in ch[x] => x = s
      /\ InLine(node, root, levels, ch1)
  <2>1. /\ LeafOf(c) \in DOMAIN ch
        /\ \A x \in DOMAIN ch : c \in ch[x] => x = LeafOf(c)
        /\ \A ch3 : /\ DOMAIN ch3 = DOMAIN ch /\ ch3[LeafOf(c)] = ch[LeafOf(c)] \union {c}
                    /\ \A x \in DOMAIN ch : x # LeafOf(c) => ch3[x] = ch[x]
                    => InLine(node, root, levels, ch3)
    BY <1>10, <1>2, <1>3, <1>4, <1>5, LeafOfHas
  <2>2. s \in DOMAIN ch
    BY <2>1
  <2>3. DOMAIN ch1 = DOMAIN ch /\ ch1[s] = ch[s] \union {c} /\ \A x \in DOMAIN ch : x # s => ch1[x] = ch[x]
    BY <2>2
  <2> HIDE DEF ch1
  <2> QED
    BY <1>5, <2>1, <2>3
<1>7. DOMAIN ch1 = DOMAIN ch /\ ch1[s] = ch[s] \union {c} /\ \A x \in DOMAIN ch : x # s => ch1[x] = ch[x]
  BY <1>5, <1>6
<1> HIDE DEF ch1
<1>8. Numbered(ch1)
  BY <1>4, <1>5, <1>7 DEF Numbered
<1>9. n \in Fresh /\ n \notin DOMAIN leaf
  <2>1. Fresh \in SUBSET Sectors /\ Fresh \intersect DOMAIN leaf = {}
    BY DEF Fresh
  <2>2. levels + 1 \in Nat /\ Cardinality(Fresh) >= (levels + 1) + 1
    BY <1>10
  <2>3. Min(Fresh) \in Fresh
    BY <2>1, <2>2, FreshBlock
  <2> QED
    BY <2>1, <2>3
<1>11. /\ Tidy(lf2, mask) /\ key \in Nat
       /\ \E cut, to : Tidy(cut, mask) /\ Parts(leaf, cut, lf2, s, n, key, c, to, b, new, snapmask)
  <2>1. n = Min(Fresh) /\ key = SplitPoint(leaf[s])
    OBVIOUS
  <2> HIDE DEF n, key
  <2> QED
    BY <1>3, <1>6, <1>9, <2>1, LeafParts
<1>12. PICK cut, to : Tidy(cut, mask) /\ Parts(leaf, cut, lf2, s, n, key, c, to, b, new, snapmask)
  BY <1>11
<1>13. /\ t.child = NIL => node' = t.node /\ root' = root /\ levels' = levels
       /\ t.child # NIL => node' = NewRoot(t) /\ root' = Min(t.fresh) /\ levels' = levels + 1 /\ levels < MaxLevels
  BY DEF SplitAndAdd
<1>14. n = Min(Fresh) /\ t = Climbed(Probe(c), key, n, Fresh \ {n})
  OBVIOUS
<1> HIDE DEF n, key, t, lf2
<1>15. SplitIn(ch1, s, key, n, ch2)
  <2>1. DOMAIN ch1 = DOMAIN leaf /\ ch1[s] = Rchunks(leaf[s]) \union {c}
        /\ \A x \in DOMAIN leaf : x # s => ch1[x] = Rchunks(leaf[x])
    BY <1>5, <1>6, <1>7
  <2> QED
    BY <1>6, <1>9, <1>12, <2>1, PartsSplit
<1> HIDE DEF ch2
<1>16. /\ t.child = NIL => Headed(t.node, root, levels) /\ InLine(t.node, root, levels, ch2)
       /\ t.child # NIL /\ levels = 1
            => Headed(NewRoot(t), Min(t.fresh), 2) /\ InLine(NewRoot(t), Min(t.fresh), 2, ch2)
  <2>1. key \in Int
    BY <1>11
  <2>2. SplitIn(ch1, LeafOf(c), key, n, ch2)
    BY <1>15
  <2> QED
    BY <1>10, <1>14, <1>2, <1>3, <1>4, <1>6, <1>8, <2>1, <2>2, IndexInLine
<1>17. Headed(node', root', levels') /\ InLine(node', root', levels', ch2) /\ levels' \in 1 .. MaxLevels
  <2>1. CASE t.child = NIL
    BY <1>1, <1>13, <1>16, <2>1 DEF InKeyOrder
  <2>2. CASE t.child # NIL
    <3>1. levels = 1 /\ levels' = 2 /\ levels' \in 1 .. MaxLevels
      BY <1>1, <1>13, <2>2
    <3>2. node' = NewRoot(t) /\ root' = Min(t.fresh)
      BY <1>13, <2>2
    <3> QED
      BY <1>16, <2>2, <3>1, <3>2
  <2> QED
    BY <2>1, <2>2
<1>18. InKeyOrder'
  BY <1>17 DEF InKeyOrder, ch2, lf2
<1>19. OneMade(leaf, lf2, c, b, new, snapmask)
  <2>1. \A x \in DOMAIN leaf : c \in Rchunks(leaf[x]) => x = s
    BY <1>5, <1>6
  <2> QED
    BY <1>6, <1>9, <1>11, <1>12, <2>1, PartsMade
<1> QED
  BY <1>11, <1>18, <1>19 DEF lf2

\* make_unique keeps the order, and makes one exception.
LEMMA MakeInOrder ==
    ASSUME IInv, InKeyOrder, MaxLevels <= 2,
           NEW mask, mask \subseteq Bit, snapmask \subseteq mask, Tidy(leaf, mask),
           NEW c, c \in Chunks, NEW b, b \in Bit \union {ORIGIN}, MakeUnique(c, b),
           NEW new, new = Min(Pool[c] \ used)
    PROVE  /\ InKeyOrder' /\ Tidy(leaf', mask) /\ OneMade(leaf, leaf', c, b, new, snapmask)
           /\ new \in StoreChunks /\ new \notin used
           /\ LeafOf(c) \in DOMAIN leaf /\ Wanted(FoundIn(leaf, c), b, snapmask)
<1> DEFINE s == LeafOf(c)
<1>1. /\ walk = Idle /\ super' = super /\ Pool[c] \ used # {} /\ Cardinality(Fresh) >= levels + 2
      /\ b # ORIGIN => b \in mask
      /\ HasRoom(leaf[s], c) => AddToLeaf(s, c, b, new)
      /\ ~HasRoom(leaf[s], c) => SplitMakesRoom(s, c) /\ SplitAndAdd(s, c, b, new)
  BY DEF MakeUnique
<1>2. new \in StoreChunks /\ new \notin used
  <2> DEFINE S == Pool[c] \ used
  <2>1. S \in SUBSET StoreChunks /\ S \in SUBSET Nat /\ S # {}
    BY <1>1, TreeAssumption
  <2>2. new = Min(S) /\ S \intersect used = {}
    OBVIOUS
  <2> HIDE DEF S
  <2>3. new \in S
    BY <2>1, <2>2, LeastNat DEF Min
  <2> QED
    BY <2>1, <2>2, <2>3
<1>3. Wanted(Found(leaf[s], c), b, snapmask)
  BY DEF MakeUnique, Wanted, OriginChunkUnique, SnapshotChunkUnique
<1>4. snapmask \in SUBSET Bit
  BY <1>1, AtRest
<1>5. s \in DOMAIN leaf /\ \A x \in DOMAIN leaf : c \in Rchunks(leaf[x]) => x = s
  <2> DEFINE ch == ChunksIn(leaf)
  <2>1. /\ Numbered(ch) /\ DOMAIN ch = DOMAIN leaf
        /\ \A x \in DOMAIN leaf : ch[x] = Rchunks(leaf[x])
    BY ChunksNumbered
  <2>2. PICK lv : Tree(lv)
    BY <1>1, AtRest
  <2>3. /\ \A x \in DOMAIN node : node[x] # <<>>
        /\ levels \in 1 .. 2 /\ Headed(node, root, levels) /\ InLine(node, root, levels, ch) /\ c \in Nat
    BY <1>1, AtRest, LeafAssumption, TreeAssumption DEF InKeyOrder
  <2> HIDE DEF ch
  <2>4. LeafOf(c) \in DOMAIN ch /\ \A x \in DOMAIN ch : c \in ch[x] => x = LeafOf(c)
    BY <2>1, <2>2, <2>3, LeafOfHas
  <2> QED
    BY <2>1, <2>4
<1>6. Wanted(FoundIn(leaf, c), b, snapmask)
  <2> HIDE DEF s
  <2>1. FoundIn(leaf, c) = Found(leaf[s], c)
    BY <1>5, OneLeafHas
  <2> QED
    BY <1>3, <2>1
<1>7. CASE HasRoom(leaf[s], c)
  <2>1. Writes(leaf, mask, s, c, b, new, snapmask)
    BY <1>1, <1>2, <1>3, <1>4, <1>5, <1>7 DEF Writes
  <2> QED
    BY <1>1, <1>2, <1>5, <1>6, <1>7, <2>1, AddInOrder
<1>8. CASE ~HasRoom(leaf[s], c)
  <2>1. s = LeafOf(c)
    OBVIOUS
  <2> HIDE DEF s
  <2>2. InKeyOrder' /\ Tidy(leaf', mask) /\ OneMade(leaf, leaf', c, b, new, snapmask)
    BY <1>1, <1>2, <1>3, <1>8, <2>1, SplitInOrder
  <2> QED
    BY <1>2, <1>5, <1>6, <2>1, <2>2
<1> QED
  BY <1>7, <1>8

-----------------------------------------------------------------------------
(* The index when an entry goes. *)

\* remove_index takes entry j out of s, the lowest node at place i; the entries
\* of the root before the path are not the first when the node's first goes.
EntryGoes(leafs, index, top, depth, lv, rows, m, i, s, j, path) ==
    /\ Rooted(leafs, index, top, depth, lv) /\ depth \in 1 .. 2 /\ Headed(index, top, depth)
    /\ RowsAre(index, top, depth, rows, m) /\ i \in 1 .. m /\ s = LowNode(index, top, depth, i)
    /\ path[depth].sector = s /\ j = path[depth].next - 1 /\ j \in 1 .. Len(index[s])
    /\ depth = 2 => path[1].sector = top /\ path[1].next - 1 = i
    /\ j = 1 => depth = 2 /\ i # 1

\* Only the root has another key: the one of the node's new first entry.
WithoutEntry(index, index2, top, depth, i, s, j) ==
    /\ DOMAIN index2 = DOMAIN index /\ index2[s] = RemoveAt(index[s], j)
    /\ depth = 1 => \A t \in DOMAIN index : t # s => index2[t] = index[t]
    /\ depth = 2 => /\ \A t \in DOMAIN index : t # s /\ t # top => index2[t] = index[t]
                    /\ index2[top] = IF j = Len(index[s]) \/ j # 1 THEN index[top]
                                     ELSE [index[top] EXCEPT ![i].key = index[s][2].key]

\* That is what remove_index does.
LEMMA EntryGone ==
    ASSUME NEW leafs, NEW index, NEW top, NEW depth, NEW lv, NEW rows, NEW m, NEW i, NEW s, NEW j, NEW path,
           EntryGoes(leafs, index, top, depth, lv, rows, m, i, s, j, path),
           NEW index2, index2 = RemoveIndex(index, path, depth)
    PROVE  WithoutEntry(index, index2, top, depth, i, s, j)
<1> DEFINE without == [index EXCEPT ![s] = RemoveAt(index[s], j)]
<1>1. /\ depth \in 1 .. 2 /\ path[depth].sector = s /\ j = path[depth].next - 1
      /\ depth = 2 => path[1].sector = top /\ path[1].next - 1 = i
      /\ j = 1 => depth = 2 /\ i # 1
  BY DEF EntryGoes
<1>2. s \in DOMAIN index /\ top \in DOMAIN index /\ (depth = 2 => s # top)
  <2>1. /\ Rooted(leafs, index, top, depth, lv) /\ m = LowCount(index, top, depth) /\ i \in 1 .. m
        /\ s = LowNode(index, top, depth, i)
    BY DEF EntryGoes, RowsAre
  <2>2. s \in DOMAIN index /\ lv[s] = depth
    BY <1>1, <2>1, LowNodesAre
  <2> QED
    BY <2>1, <2>2 DEF Rooted
<1>3. /\ DOMAIN without = DOMAIN index /\ without[s] = RemoveAt(index[s], j)
      /\ \A t \in DOMAIN index : t # s => without[t] = index[t]
  BY <1>2
<1> HIDE DEF without
<1>4. index2 = IF j = Len(index[s]) \/ j # 1 THEN without
               ELSE Pivot(without, path, depth, index[s][j + 1].key)
  BY <1>1 DEF RemoveIndex, without
<1>5. CASE j = Len(index[s]) \/ j # 1
  BY <1>2, <1>3, <1>4, <1>5 DEF WithoutEntry
<1>6. CASE ~(j = Len(index[s]) \/ j # 1)
  <2> DEFINE up == {k \in 1 .. depth - 1 : path[k].next - 1 # 1}
             pivot == index[s][2].key
  <2>1. j = 1 /\ depth = 2 /\ i # 1 /\ path[1].sector = top /\ path[1].next - 1 = i
    BY <1>1, <1>6
  <2>2. up = {1}
    BY <2>1
  <2> HIDE DEF up
  <2>3. Max(up) = 1
    BY <2>2 DEF Max
  <2>4. index2 = Pivot(without, path, depth, pivot)
    BY <1>4, <1>6, <2>1
  <2>5. Pivot(without, path, depth, pivot) =
          IF up = {} THEN without
          ELSE [without EXCEPT ![path[Max(up)].sector][path[Max(up)].next - 1].key = pivot]
    BY DEF Pivot, up
  <2> HIDE DEF pivot
  <2>6. index2 = [without EXCEPT ![top][i].key = pivot]
    BY <2>1, <2>2, <2>3, <2>4, <2>5
  <2>7. /\ DOMAIN index2 = DOMAIN without /\ index2[top] = [without[top] EXCEPT ![i].key = pivot]
        /\ \A t \in DOMAIN without : t # top => index2[t] = without[t]
    BY <1>2, <1>3, <2>6
  <2> QED
    BY <1>2, <1>3, <1>6, <2>1, <2>7 DEF pivot, WithoutEntry
<1> QED
  BY <1>5, <1>6

\* The lowest nodes are what they were but for that entry.
LEMMA LowNodeShrinks ==
    ASSUME NEW leafs, NEW index, NEW top, NEW depth, NEW lv, NEW rows, NEW m, NEW i, NEW s, NEW j, NEW path,
           EntryGoes(leafs, index, top, depth, lv, rows, m, i, s, j, path),
           NEW index2, index2 = RemoveIndex(index, path, depth),
           NEW rows2, rows2 = RowPut(rows, m, i, RemoveAt(rows[i], j))
    PROVE  Headed(index2, top, depth) /\ RowsAre(index2, top, depth, rows2, m)
<1>1. /\ Rooted(leafs, index, top, depth, lv) /\ depth \in 1 .. 2 /\ Headed(index, top, depth)
      /\ RowsAre(index, top, depth, rows, m) /\ i \in 1 .. m /\ s = LowNode(index, top, depth, i)
      /\ j \in 1 .. Len(index[s]) /\ (j = 1 => depth = 2)
  BY DEF EntryGoes
<1>2. /\ m = LowCount(index, top, depth) /\ m \in Nat
      /\ \A k \in 1 .. m : rows[k] = index[LowNode(index, top, depth, k)]
      /\ \A k \in 1 .. m : LowNode(index, top, depth, k) \in DOMAIN index /\ lv[LowNode(index, top, depth, k)] = depth
      /\ \A k \in 1 .. m : LowNode(index, top, depth, k) = s => k = i
      /\ s \in DOMAIN index /\ index[s] \in Seq(Entry) /\ lv[s] = depth /\ top \in DOMAIN index
  <2>1. m = LowCount(index, top, depth) /\ \A k \in 1 .. m : rows[k] = index[LowNode(index, top, depth, k)]
    BY <1>1 DEF RowsAre
  <2>2. /\ m \in Nat
        /\ \A k \in 1 .. m : /\ LowNode(index, top, depth, k) \in DOMAIN index
                             /\ lv[LowNode(index, top, depth, k)] = depth
                             /\ index[LowNode(index, top, depth, k)] \in Seq(Entry)
        /\ \A k, h \in 1 .. m : LowNode(index, top, depth, k) = LowNode(index, top, depth, h) => k = h
    BY <1>1, <2>1, LowNodesAre
  <2>3. top \in DOMAIN index
    BY <1>1 DEF Rooted
  <2> QED
    BY <1>1, <2>1, <2>2, <2>3
<1>3. /\ DOMAIN index2 = DOMAIN index /\ index2[s] = RemoveAt(index[s], j)
      /\ depth = 1 => \A t \in DOMAIN index : t # s => index2[t] = index[t]
      /\ depth = 2 => /\ \A t \in DOMAIN index : t # s /\ t # top => index2[t] = index[t]
                      /\ index2[top] = IF j = Len(index[s]) \/ j # 1 THEN index[top]
                                       ELSE [index[top] EXCEPT ![i].key = index[s][2].key]
  <2>1. EntryGoes(leafs, index, top, depth, lv, rows, m, i, s, j, path)
    OBVIOUS
  <2>2. index2 = RemoveIndex(index, path, depth)
    OBVIOUS
  <2>3. WithoutEntry(index, index2, top, depth, i, s, j)
    BY ONLY <2>1, <2>2, EntryGone
  <2> QED
    BY <2>3 DEF WithoutEntry
<1>4. \A k \in 1 .. m : rows2[k] = IF k = i THEN RemoveAt(index[s], j) ELSE rows[k]
  BY <1>1, <1>2 DEF RowPut
<1>5. CASE depth = 1
  <2>1. m = 1 /\ s = top /\ i = 1
    BY <1>1, <1>2, <1>5 DEF LowCount, LowNode
  <2>2. Headed(index2, top, depth)
    BY <1>5 DEF Headed
  <2>3. \A k \in 1 .. m : rows2[k] = index2[LowNode(index2, top, depth, k)]
    BY <1>3, <1>4, <1>5, <2>1 DEF LowNode
  <2> QED
    BY <1>5, <2>1, <2>2, <2>3 DEF RowsAre, LowCount
<1>6. CASE depth = 2
  <2> DEFINE was == index[top]
             is == index2[top]
  <2>1. s # top
    BY <1>1, <1>2, <1>6 DEF Rooted
  <2>2. m = Len(was) /\ was \in Seq(Entry) /\ \A k \in 1 .. m : LowNode(index, top, depth, k) = was[k].sector
    <3>1. was \in Seq(Entry)
      BY <1>1, <1>2 DEF Rooted, Forest, Levelled
    <3> QED
      BY <1>2, <1>6, <3>1 DEF LowCount, LowNode
  <2>3. /\ Len(is) = m /\ \A k \in 1 .. m : is[k].sector = was[k].sector
        /\ \A k \in 1 .. m : k # i => is[k].key = was[k].key
        /\ j = Len(index[s]) \/ j # 1 => is[i].key = was[i].key
        /\ ~(j = Len(index[s]) \/ j # 1) => is[i].key = index[s][2].key
    <3>1. CASE j = Len(index[s]) \/ j # 1
      <4>1. is = was
        BY <1>3, <1>6, <3>1
      <4> QED
        BY <2>2, <3>1, <4>1
    <3>2. CASE ~(j = Len(index[s]) \/ j # 1)
      <4> DEFINE x == index[s][2].key
                 f == [key |-> x, sector |-> was[i].sector]
      <4>1. is = [was EXCEPT ![i].key = x]
        BY <1>3, <1>6, <3>2
      <4>2. was \in Seq(Entry) /\ m = Len(was) /\ i \in 1 .. m /\ m \in Nat
        BY <1>1, <1>2, <2>2
      <4> HIDE DEF x, was, is
      <4>3. DOMAIN was = 1 .. m /\ \A k \in 1 .. m : was[k] \in Entry
        BY ONLY <4>2, ElementOfSeq, LenProperties
      <4>4. is = [was EXCEPT ![i] = [was[i] EXCEPT !.key = x]]
        BY <4>1
      <4> DEFINE e == was[i]
      <4>5. e \in Entry
        BY <4>2, <4>3
      <4>6. [e EXCEPT !.key = x] = [key |-> x, sector |-> e.sector]
        BY <4>5 DEF Entry
      <4>7. is = [was EXCEPT ![i] = f]
        BY <4>4, <4>6
      <4> HIDE DEF f
      <4>8. DOMAIN is = 1 .. m /\ is[i] = f /\ \A k \in 1 .. m : k # i => is[k] = was[k]
        BY <4>2, <4>3, <4>7
      <4>9. Len(is) = m
        <5>1. is \in [1 .. m -> {is[k] : k \in 1 .. m}]
          BY <4>3, <4>7
        <5>2. is \in Seq({is[k] : k \in 1 .. m})
          BY <4>2, <5>1
        <5> QED
          BY <4>2, <4>8, <5>2, LenProperties
      <4>10. f.key = x /\ f.sector = was[i].sector
        BY DEF f
      <4> QED
        BY <3>2, <4>8, <4>9, <4>10 DEF x
    <3> QED
      BY <3>1, <3>2
  <2> HIDE DEF was, is
  <2>4. LowCount(index2, top, depth) = m /\ \A k : LowNode(index2, top, depth, k) = is[k].sector
    BY <1>6, <2>3 DEF LowCount, LowNode, is
  <2>5. \A k \in 1 .. m : /\ index2[is[k].sector] = rows2[k]
                          /\ k # i => index2[is[k].sector] = index[was[k].sector]
    <3> TAKE k \in 1 .. m
    <3>1. is[k].sector = was[k].sector /\ was[k].sector = LowNode(index, top, depth, k)
      BY <2>2, <2>3
    <3>2. CASE k = i
      BY <1>1, <1>3, <1>4, <3>1, <3>2
    <3>3. CASE k # i
      <4>1. was[k].sector # s /\ was[k].sector # top /\ was[k].sector \in DOMAIN index
        BY <1>1, <1>2, <1>6, <3>1, <3>3 DEF Rooted
      <4>2. index2[was[k].sector] = index[was[k].sector]
        BY <1>3, <1>6, <4>1
      <4> QED
        BY <1>2, <1>4, <3>1, <3>3, <4>2
    <3> QED
      BY <3>2, <3>3
  <2>6. RowsAre(index2, top, depth, rows2, m)
    BY <2>4, <2>5 DEF RowsAre
  <2>7. ASSUME NEW k \in 2 .. m, Len(index2[is[k].sector]) >= 1
        PROVE  is[k].key = index2[is[k].sector][1].key
    <3>0. k \in 1 .. m
      BY <1>2
    <3>1. ASSUME Len(index[was[k].sector]) >= 1
          PROVE  was[k].key = index[was[k].sector][1].key
      BY <1>1, <1>6, <2>2, <3>1 DEF Headed, was
    <3>2. CASE k # i
      BY <2>3, <2>5, <2>7, <3>0, <3>1, <3>2
    <3>3. CASE k = i
      <4> DEFINE old == index[s]
                 r == RemoveAt(old, j)
      <4>1. is[i].sector = s /\ was[i].sector = s /\ index2[s] = r
        BY <1>1, <1>3, <2>2, <2>3, <3>0, <3>3
      <4>2. Removed(old, j, r) /\ r \in Seq(Entry)
        BY <1>1, <1>2, RemoveAtIs
      <4> HIDE DEF old, r
      <4>3. Len(r) >= 1 /\ Len(old) = Len(r) + 1 /\ Len(r) \in Nat
            /\ r[1] = IF 1 < j THEN old[1] ELSE old[2]
        <5>1. Len(r) >= 1 /\ Len(r) \in Nat
          BY <2>7, <3>3, <4>1, <4>2
        <5>2. 1 \in 1 .. Len(r) /\ 1 + 1 = 2
          BY <5>1
        <5> QED
          BY <4>2, <5>1, <5>2 DEF Removed
      <4>4. j \in Nat \ {0} /\ Len(old) \in Nat /\ Len(old) >= 2
        BY <1>1, <4>3 DEF old
      <4>5. CASE j # 1
        <5>1. r[1] = old[1] /\ is[i].key = was[i].key
          BY <2>3, <4>3, <4>4, <4>5
        <5>2. was[i].key = old[1].key
          BY <3>1, <3>3, <4>1, <4>4 DEF old
        <5> QED
          BY <3>3, <4>1, <5>1, <5>2
      <4>6. CASE j = 1
        <5> DEFINE q == Len(old)
        <5>0. q \in Nat /\ q >= 2
          BY <4>4
        <5> HIDE DEF q
        <5>1. j # q
          BY ONLY <4>6, <5>0
        <5>2. is[i].key = old[2].key
          BY <2>3, <4>6, <5>1 DEF old, q
        <5>3. r[1] = old[2]
          BY <4>3, <4>6
        <5> QED
          BY <3>3, <4>1, <5>2, <5>3
      <4> QED
        BY <4>5, <4>6
    <3> QED
      BY <3>2, <3>3
  <2>8. Headed(index2, top, depth)
    BY <2>3, <2>7 DEF Headed, is
  <2> QED
    BY <2>6, <2>8
<1> QED
  BY <1>1, <1>5, <1>6

-----------------------------------------------------------------------------
(* Where the walk is among the lowest nodes. *)

\* The walk is at entry j of node s at place i.
AtPlace(w, leafs, index, top, depth, lv, rows, m, i, j, s) ==
    /\ Rooted(leafs, index, top, depth, lv) /\ depth \in 1 .. 2 /\ AtLeaf(w, leafs, index, top, depth, lv)
    /\ RowsAre(index, top, depth, rows, m) /\ Headed(index, top, depth)
    /\ i = RowAt(w.path, depth) /\ j = EntryAt(w.path, depth) /\ s = w.path[depth].sector

\* The entry leads to the leaf the walk is at.
LEMMA PlaceFound ==
    ASSUME NEW w, NEW leafs, NEW index, NEW top, NEW depth, NEW lv, NEW rows, NEW m, NEW i, NEW j, NEW s,
           AtPlace(w, leafs, index, top, depth, lv, rows, m, i, j, s)
    PROVE  /\ i \in 1 .. m /\ s = LowNode(index, top, depth, i) /\ s \in DOMAIN index
           /\ j \in 1 .. Len(index[s]) /\ rows[i] = index[s] /\ rows[i][j].sector = w.this
           /\ depth = 2 => w.path[1].sector = top /\ w.path[1].next - 1 = i
<1>1. /\ Rooted(leafs, index, top, depth, lv) /\ depth \in 1 .. 2 /\ RowsAre(index, top, depth, rows, m)
      /\ i = RowAt(w.path, depth) /\ j = w.path[depth].next - 1 /\ s = w.path[depth].sector
  BY DEF AtPlace, EntryAt
<1>2. /\ w.path[depth].next \in 2 .. Len(index[s]) + 1 /\ w.this = index[s][j].sector
      /\ Between(w.path, depth, w.hold, w.prev, w.path[depth].next - 2, leafs, index, top, depth, lv)
  BY <1>1 DEF AtPlace, AtLeaf
<1>3. /\ w.path[1].sector = top /\ s \in DOMAIN index
      /\ \A k \in 1 .. depth - 1 : Leads(index, w.path[k].sector, w.path[k].next - 1, w.path[k + 1].sector)
  BY <1>1, <1>2 DEF Between, OnLevel
<1>4. index[s] \in Seq(Entry)
  BY <1>1, <1>3 DEF Rooted, Forest, Levelled
<1>5. j \in 1 .. Len(index[s])
  <2> DEFINE q == Len(index[s])
             x == w.path[depth].next
  <2>1. q \in Nat /\ x \in 2 .. q + 1 /\ j = x - 1
    BY <1>1, <1>2, <1>4
  <2> HIDE DEF q, x
  <2>2. j \in 1 .. q
    BY ONLY <2>1
  <2> QED
    BY <2>2 DEF q
<1>6. CASE depth = 1
  <2>1. i = 1 /\ m = 1 /\ s = top /\ LowNode(index, top, depth, i) = top /\ rows[1] = index[top]
    BY <1>1, <1>3, <1>6 DEF RowAt, RowsAre, LowCount, LowNode
  <2> QED
    BY <1>2, <1>3, <1>5, <1>6, <2>1
<1>7. CASE depth = 2
  <2>1. i = w.path[1].next - 1 /\ m = Len(index[top])
        /\ \A k \in 1 .. m : rows[k] = index[index[top][k].sector]
    BY <1>1, <1>7 DEF RowAt, RowsAre, LowCount, LowNode
  <2>2. Leads(index, top, i, s)
    <3>1. 1 \in 1 .. depth - 1 /\ 1 + 1 = depth
      BY <1>7
    <3> QED
      BY <1>1, <1>3, <1>7, <2>1, <3>1
  <2>3. i \in 1 .. m /\ s = index[top][i].sector
    BY <2>1, <2>2 DEF Leads
  <2>4. LowNode(index, top, depth, i) = s
    BY <1>7, <2>3 DEF LowNode
  <2> QED
    BY <1>2, <1>3, <1>5, <1>7, <2>1, <2>3, <2>4
<1> QED
  BY <1>1, <1>6, <1>7

\* The entry before leads to the leaf before.
LEMMA PlaceBefore ==
    ASSUME NEW w, NEW leafs, NEW index, NEW top, NEW depth, NEW lv, NEW rows, NEW m, NEW i, NEW j, NEW s,
           AtPlace(w, leafs, index, top, depth, lv, rows, m, i, j, s), w.prev # NIL
    PROVE  /\ j = 1 => depth = 2 /\ i # 1
           /\ \E k \in 1 .. m : \E h : Precedes(rows, k, h, i, j) /\ rows[k][h].sector = w.prev
<1>1. /\ Rooted(leafs, index, top, depth, lv) /\ depth \in 1 .. 2 /\ RowsAre(index, top, depth, rows, m)
      /\ i = RowAt(w.path, depth) /\ j = w.path[depth].next - 1 /\ s = w.path[depth].sector
      /\ AtLeaf(w, leafs, index, top, depth, lv)
  BY DEF AtPlace, EntryAt
<1>2. /\ i \in 1 .. m /\ j \in 1 .. Len(index[s]) /\ rows[i] = index[s] /\ s \in DOMAIN index
      /\ depth = 2 => w.path[1].sector = top /\ w.path[1].next - 1 = i
  BY PlaceFound
<1> DEFINE x == w.path[depth].next
           len == Len(index[s])
<1>3. Between(w.path, depth, w.hold, w.prev, x - 2, leafs, index, top, depth, lv)
  BY <1>1 DEF AtLeaf
<1>4. /\ LastDone(w.path, w.hold, index, depth, x - 2, LastBelow(w.hold, w.prev, depth, depth))
      /\ \A k \in 1 .. depth - 1 :
            LastDone(w.path, w.hold, index, k, w.path[k].next - 2, LastBelow(w.hold, w.prev, depth, k))
      /\ w.hold[1] = NIL
      /\ \A k \in 1 .. depth : w.hold[k] # NIL => OnLevel(index, lv, w.hold[k], k)
      /\ x \in Nat
  <2>1. w.path \in [1 .. depth -> [sector : Sectors, next : Nat]] /\ depth \in 1 .. depth
    BY <1>1, <1>3 DEF Between
  <2>2. x \in Nat
    BY <2>1
  <2> QED
    BY <1>3, <2>2 DEF Between
<1>5. IF x - 2 >= 1 THEN Leads(index, s, x - 2, w.prev) ELSE w.hold[depth] # NIL /\ EndsIn(index, w.hold[depth], w.prev)
  BY <1>1, <1>4 DEF LastDone, LastBelow
<1>6. len \in Nat /\ x \in Nat /\ j \in 1 .. len /\ j = x - 1
  <2>1. index[s] \in Seq(Entry)
    BY <1>1, <1>2 DEF Rooted, Forest, Levelled
  <2> QED
    BY <1>1, <1>2, <1>4, <2>1
<1> HIDE DEF x, len
<1>7. CASE j # 1
  <2>1. x - 2 >= 1 /\ x - 2 = j - 1
    BY ONLY <1>6, <1>7
  <2>2. rows[i][j - 1].sector = w.prev
    BY <1>2, <1>5, <2>1 DEF Leads
  <2>3. Precedes(rows, i, j - 1, i, j)
    BY <1>7 DEF Precedes
  <2> QED
    BY <1>2, <1>7, <2>2, <2>3
<1>8. CASE j = 1
  <2>1. ~(x - 2 >= 1)
    BY ONLY <1>6, <1>8
  <2>2. w.hold[depth] # NIL /\ EndsIn(index, w.hold[depth], w.prev)
    BY <1>5, <2>1
  <2>3. depth = 2
    BY <1>1, <1>4, <2>2
  <2> DEFINE p == w.hold[2]
             y == w.path[1].next
  <2>4. p # NIL /\ EndsIn(index, p, w.prev) /\ p \in DOMAIN index
    BY <1>4, <2>2, <2>3 DEF OnLevel
  <2>5. LastDone(w.path, w.hold, index, 1, y - 2, p)
    <3>1. 1 \in 1 .. depth - 1 /\ 1 # depth /\ 1 + 1 = 2
      BY <2>3
    <3> QED
      BY <1>4, <3>1 DEF LastBelow
  <2>6. y - 2 >= 1 /\ Leads(index, top, y - 2, p)
    BY <1>2, <1>4, <2>3, <2>4, <2>5 DEF LastDone
  <2>7. m = Len(index[top]) /\ m \in Nat /\ \A k \in 1 .. m : rows[k] = index[index[top][k].sector]
    <3>1. index[top] \in Seq(Entry)
      BY <1>1 DEF Rooted, Forest, Levelled
    <3> QED
      BY <1>1, <2>3, <3>1 DEF RowsAre, LowCount, LowNode
  <2>8. y - 2 \in 1 .. m /\ index[top][y - 2].sector = p
    BY <2>6, <2>7 DEF Leads
  <2>9. y \in Nat /\ i = y - 1
    <3>1. w.path \in [1 .. depth -> [sector : Sectors, next : Nat]] /\ 1 \in 1 .. depth
      BY <1>3, <2>3 DEF Between
    <3>2. w.path[1] \in [sector : Sectors, next : Nat]
      BY <3>1
    <3> QED
      BY <1>2, <2>3, <3>2
  <2> HIDE DEF y
  <2> DEFINE k == i - 1
             h == Len(rows[k])
  <2>10. k = y - 2 /\ k \in 1 .. m /\ i # 1
    BY ONLY <2>8, <2>9, <2>7
  <2>11. rows[k] = index[p]
    BY <2>7, <2>8, <2>10
  <2>12. h \in 1 .. h /\ rows[k][h].sector = w.prev
    BY <2>4, <2>11 DEF EndsIn, Leads
  <2>13. h \in Nat
    <3>1. index[p] \in Seq(Entry)
      BY <1>1, <2>4 DEF Rooted, Forest, Levelled
    <3> QED
      BY <2>11, <3>1
  <2>14. Precedes(rows, k, h, i, j)
    <3> DEFINE g == Len(rows[k])
    <3>1. h = g /\ g \in Nat /\ g \in 1 .. g
      BY <2>12, <2>13
    <3> HIDE DEF g
    <3>2. g \in Nat \ {0}
      BY ONLY <3>1
    <3>3. h \in Nat \ {0}
      BY <3>1, <3>2
    <3> QED
      BY <1>8, <3>3 DEF Precedes
  <2> QED
    BY <1>8, <2>3, <2>10, <2>12, <2>14
<1> QED
  BY <1>7, <1>8

\* So the entry may go.
LEMMA PlaceGoes ==
    ASSUME NEW w, NEW leafs, NEW index, NEW top, NEW depth, NEW lv, NEW rows, NEW m, NEW i, NEW j, NEW s,
           AtPlace(w, leafs, index, top, depth, lv, rows, m, i, j, s), w.prev # NIL
    PROVE  EntryGoes(leafs, index, top, depth, lv, rows, m, i, s, j, w.path)
<1>1. j = 1 => depth = 2 /\ i # 1
  BY PlaceBefore
<1>2. /\ i \in 1 .. m /\ s = LowNode(index, top, depth, i) /\ j \in 1 .. Len(index[s])
      /\ depth = 2 => w.path[1].sector = top /\ w.path[1].next - 1 = i
  BY PlaceFound
<1>3. /\ Rooted(leafs, index, top, depth, lv) /\ depth \in 1 .. 2 /\ RowsAre(index, top, depth, rows, m)
      /\ Headed(index, top, depth)
      /\ j = w.path[depth].next - 1 /\ s = w.path[depth].sector
  BY DEF AtPlace, EntryAt
<1> QED
  BY <1>1, <1>2, <1>3 DEF EntryGoes

-----------------------------------------------------------------------------
(* A leaf is cleared and merged into the one before. *)

\* Leaf l has no exception for the bits.
Clean(l, bits) == \A c : \A e \in Found(l, c) : e.share \intersect bits = {}

\* The leaves with those bits taken out of one.
Wiped(lf, cut, rows, m, s, bits, mask) ==
    /\ Tidy(cut, mask) /\ ClearedAt(lf, cut, s, bits) /\ Ranks(rows, m, ChunksIn(cut)) /\ Clean(cut[s], bits)
    /\ \A d : FoundIn(cut, d) = FoundIn(lf, d) \/ FoundIn(cut, d) = Cut(FoundIn(lf, d), bits)

\* It is that when the leaf is cleared.
LEMMA WipedOne ==
    ASSUME NEW lf, NEW mask, Tidy(lf, mask), NEW rows, NEW m, Ranks(rows, m, ChunksIn(lf)),
           NEW s, s \in DOMAIN lf, NEW bits, NEW cut, cut = With(lf, s, DeleteFromLeaf(lf[s], bits))
    PROVE  Wiped(lf, cut, rows, m, s, bits, mask)
<1>1. Tidy(cut, mask) /\ ClearedAt(lf, cut, s, bits)
  BY TidyCleared
<1>2. Numbered(ChunksIn(lf)) /\ DOMAIN ChunksIn(lf) = DOMAIN lf /\ \A t \in DOMAIN lf : ChunksIn(lf)[t] = Rchunks(lf[t])
  BY ChunksNumbered
<1>3. DOMAIN ChunksIn(cut) = DOMAIN cut /\ \A t \in DOMAIN cut : ChunksIn(cut)[t] = Rchunks(cut[t])
  BY <1>1, ChunksNumbered
<1>4. /\ DOMAIN cut = DOMAIN lf /\ Rchunks(cut[s]) \subseteq Rchunks(lf[s])
      /\ \A t \in DOMAIN lf : t # s => cut[t] = lf[t]
      /\ \A c : Found(cut[s], c) = Cut(Found(lf[s], c), bits)
  BY <1>1 DEF ClearedAt
<1>5. \A t \in DOMAIN ChunksIn(lf) : ChunksIn(cut)[t] \subseteq ChunksIn(lf)[t]
  <2> TAKE t \in DOMAIN ChunksIn(lf)
  <2>1. CASE t = s
    BY <1>2, <1>3, <1>4, <2>1
  <2>2. CASE t # s
    <3>1. t \in DOMAIN lf /\ cut[t] = lf[t]
      BY <1>2, <1>4, <2>2
    <3> QED
      BY <1>2, <1>3, <1>4, <3>1
  <2> QED
    BY <2>1, <2>2
<1>6. Ranks(rows, m, ChunksIn(cut))
  BY <1>2, <1>3, <1>4, <1>5, RanksShrink
<1>7. \A d : \A t, u \in DOMAIN lf : d \in Rchunks(lf[t]) /\ d \in Rchunks(lf[u]) => t = u
  BY <1>2, RanksApart
<1>8. \A d : FoundIn(cut, d) = FoundIn(lf, d) \/ FoundIn(cut, d) = Cut(FoundIn(lf, d), bits)
  <2> TAKE d
  <2>1. \A t, u \in DOMAIN lf : d \in Rchunks(lf[t]) /\ d \in Rchunks(lf[u]) => t = u
    BY <1>7
  <2> QED
    BY <1>1, <2>1, FoundCleared
<1>9. Clean(cut[s], bits)
  <2> SUFFICES ASSUME NEW c, NEW e \in Found(cut[s], c)
               PROVE  e.share \intersect bits = {}
    BY DEF Clean
  <2>1. PICK x \in Found(lf[s], c) : e = [x EXCEPT !.share = @ \ bits]
    BY <1>4 DEF Cut
  <2>2. x \in Exception
    <3>1. Neat(lf[s])
      BY DEF Tidy
    <3> QED
      BY <3>1, NeatFound
  <2>3. e.share = x.share \ bits
    BY <2>1, <2>2 DEF Exception
  <2> QED
    BY <2>3
<1> QED
  BY <1>1, <1>6, <1>8, <1>9 DEF Wiped

\* The chunks of the entry before are before those of an entry.
LEMMA RanksOrder ==
    ASSUME NEW rows, NEW m, NEW ch, Ranks(rows, m, ch), Numbered(ch),
           NEW i, i \in 1 .. m, NEW j, j \in 1 .. Len(rows[i]), NEW k, k \in 1 .. m, NEW h, Precedes(rows, k, h, i, j)
    PROVE  /\ rows[k][h].sector \in DOMAIN ch /\ rows[i][j].sector \in DOMAIN ch
           /\ rows[k][h].sector # rows[i][j].sector
           /\ \A c \in ch[rows[k][h].sector], d \in ch[rows[i][j].sector] : c < d
<1>1. PICK n, f, b : Flat(rows, m, n, f, b) /\ Straight(f, n, ch)
  BY DEF Ranks
<1> DEFINE a == b[i]
           r == (a + j) - 1
           p == (b[k] + h) - 1
<1>2. r \in 1 .. n /\ f[r] = rows[i][j] /\ a \in Int /\ Len(rows[i]) \in Nat
  <2>1. Flat(rows, m, n, f, b) /\ i \in 1 .. m /\ j \in 1 .. Len(rows[i])
    BY <1>1
  <2> QED
    BY ONLY <2>1, FlatAt
<1>3. h \in 1 .. Len(rows[k])
  <2>1. CASE j # 1
    BY <1>2, <2>1 DEF Precedes
  <2>2. CASE j = 1
    BY <2>2 DEF Precedes
  <2> QED
    BY <2>1, <2>2
<1>4. p \in 1 .. n /\ f[p] = rows[k][h] /\ b[k] \in Int /\ b[k + 1] = b[k] + Len(rows[k]) /\ Len(rows[k]) \in Nat
  <2>1. Flat(rows, m, n, f, b) /\ k \in 1 .. m
    BY <1>1
  <2> QED
    BY ONLY <1>3, <2>1, FlatAt
<1>5. r = p + 1
  <2>1. CASE j # 1
    <3>1. k = i /\ h = j - 1
      BY <2>1 DEF Precedes
    <3>2. p = (a + (j - 1)) - 1
      BY <3>1
    <3> QED
      BY <1>2, <3>2
  <2>2. CASE j = 1
    <3>1. k = i - 1 /\ h = Len(rows[k])
      BY <2>2 DEF Precedes
    <3>2. k + 1 = i
      BY <3>1
    <3>3. a = b[k] + h
      BY <1>4, <3>1, <3>2
    <3> QED
      BY <1>2, <1>4, <2>2, <3>3
  <2> QED
    BY <2>1, <2>2
<1> HIDE DEF p, r
<1>6. n \in Nat
  BY <1>1 DEF Flat
<1>7. p < r /\ p # r /\ r \in 2 .. n
  BY ONLY <1>2, <1>4, <1>5, <1>6
<1>8. /\ f[p].sector \in DOMAIN ch /\ f[r].sector \in DOMAIN ch /\ f[p].sector # f[r].sector
      /\ \A c \in ch[f[p].sector] : c < f[r].key
      /\ \A d \in ch[f[r].sector] : f[r].key <= d
  BY <1>1, <1>2, <1>4, <1>7 DEF Straight
<1>9. f[r].key \in Int
  BY <1>1, <1>2, FlatListed, ListedIs
<1>10. ASSUME NEW c \in ch[f[p].sector], NEW d \in ch[f[r].sector]
       PROVE  c < d
  <2>1. c \in Nat /\ d \in Nat
    BY <1>8 DEF Numbered
  <2>2. c < f[r].key /\ f[r].key <= d
    BY <1>8
  <2> QED
    BY <1>9, <2>1, <2>2
<1> QED
  BY <1>2, <1>4, <1>8, <1>10

\* Leaf s is put into p before it.
Merging(cut, lf2, p, s) ==
    /\ CanMerge(cut[p], cut[s])
    /\ DOMAIN lf2 = DOMAIN cut \ {s} /\ lf2[p] = MergeLeaves(cut[p], cut[s])
    /\ \A t \in DOMAIN cut : t # s /\ t # p => lf2[t] = cut[t]

\* Leaf s of entry j of node i is put into the one of the entry before, and the
\* entry is taken out.
MergesAt(cut, lf2, rows, rows2, m, i, j, k, h, p, s) ==
    /\ Ranks(rows, m, ChunksIn(cut)) /\ i \in 1 .. m /\ j \in 1 .. Len(rows[i])
    /\ k \in 1 .. m /\ Precedes(rows, k, h, i, j) /\ p = rows[k][h].sector /\ s = rows[i][j].sector
    /\ Merging(cut, lf2, p, s) /\ rows2 = RowPut(rows, m, i, RemoveAt(rows[i], j))

\* The order is kept, and all exceptions.
LEMMA MergedOne ==
    ASSUME NEW cut, NEW mask, Tidy(cut, mask), NEW lf2, NEW rows, NEW rows2, NEW m, NEW i, NEW j, NEW k, NEW h,
           NEW p, NEW s, MergesAt(cut, lf2, rows, rows2, m, i, j, k, h, p, s)
    PROVE  /\ Tidy(lf2, mask) /\ Ranks(rows2, m, ChunksIn(lf2))
           /\ \A d : FoundIn(lf2, d) = FoundIn(cut, d)
           /\ \A c : Found(lf2[p], c) = Found(cut[p], c) \union Found(cut[s], c)
<1> USE DEF MergesAt
<1>1. Numbered(ChunksIn(cut)) /\ DOMAIN ChunksIn(cut) = DOMAIN cut /\ \A t \in DOMAIN cut : ChunksIn(cut)[t] = Rchunks(cut[t])
  BY ChunksNumbered
<1>2. /\ p \in DOMAIN cut /\ s \in DOMAIN cut /\ p # s
      /\ \A c \in Rchunks(cut[p]), d \in Rchunks(cut[s]) : c < d
  BY <1>1, RanksOrder
<1>3. /\ CanMerge(cut[p], cut[s])
      /\ DOMAIN lf2 = DOMAIN cut \ {s} /\ lf2[p] = MergeLeaves(cut[p], cut[s])
      /\ \A t \in DOMAIN cut : t # s /\ t # p => lf2[t] = cut[t]
  BY DEF Merging
<1>4. /\ Tidy(lf2, mask) /\ JoinIn(ChunksIn(cut), p, s, ChunksIn(lf2))
      /\ \A c : Found(lf2[p], c) = Found(cut[p], c) \union Found(cut[s], c)
  <2>1. Tidy(cut, mask) /\ s \in DOMAIN cut /\ p \in DOMAIN cut /\ p # s
    BY <1>2
  <2>2. CanMerge(cut[p], cut[s])
    BY <1>3
  <2>3. \A c \in Rchunks(cut[p]), d \in Rchunks(cut[s]) : c < d
    BY <1>2
  <2>4. DOMAIN lf2 = DOMAIN cut \ {s} /\ lf2[p] = MergeLeaves(cut[p], cut[s])
    BY <1>3
  <2>5. \A t \in DOMAIN cut : t # s /\ t # p => lf2[t] = cut[t]
    BY <1>3
  <2> QED
    BY ONLY <2>1, <2>2, <2>3, <2>4, <2>5, TidyMerged
<1>5. OnlyRow(rows, rows2, m, i) /\ rows2[i] = RemoveAt(rows[i], j)
  BY RowPutIs
<1>6. Ranks(rows2, m, ChunksIn(lf2))
  BY <1>1, <1>4, <1>5, RanksMerge
<1>7. \A d : FoundIn(lf2, d) = FoundIn(cut, d)
  <2> TAKE d
  <2>1. Found(lf2[p], d) = Found(cut[p], d) \union Found(cut[s], d)
    BY <1>4
  <2> QED
    <3>1. s \in DOMAIN cut /\ p \in DOMAIN cut /\ p # s /\ DOMAIN lf2 = DOMAIN cut \ {s}
      BY <1>2, <1>3
    <3>2. \A t \in DOMAIN cut : t # s /\ t # p => lf2[t] = cut[t]
      BY <1>3
    <3>3. GoneInto(cut, lf2, s, p, d)
      BY ONLY <2>1, <3>1, <3>2 DEF GoneInto
    <3> QED
      BY ONLY <3>3, FoundMerged
<1> QED
  BY <1>4, <1>6, <1>7

-----------------------------------------------------------------------------
(* How far a deletion has come. *)

\* The leaves of the entries before entry j of node i have none of the bits.
Cleaned(lf, rows, m, i, j, bits) ==
    \A k \in 1 .. m : \A h \in 1 .. Len(rows[k]) :
        k < i \/ (k = i /\ h < j) => Clean(lf[rows[k][h].sector], bits)

\* Behind the last entry of a node begins the next node.
LEMMA CleanedRow ==
    ASSUME NEW lf, NEW rows, NEW m, NEW i, i \in Int, NEW j, j \in Int, NEW bits, Cleaned(lf, rows, m, i, j, bits),
           Len(rows[i]) \in Nat, j = Len(rows[i]) + 1
    PROVE  Cleaned(lf, rows, m, i + 1, 1, bits)
<1> SUFFICES ASSUME NEW k \in 1 .. m, NEW h \in 1 .. Len(rows[k]), k < i + 1 \/ (k = i + 1 /\ h < 1)
             PROVE  Clean(lf[rows[k][h].sector], bits)
  BY DEF Cleaned
<1>1. CASE k = i
  <2> DEFINE n == Len(rows[i])
  <2>1. n \in Nat /\ j = n + 1 /\ h \in 1 .. n
    BY <1>1
  <2> HIDE DEF n
  <2>2. h < j
    BY ONLY <2>1
  <2> QED
    BY <1>1, <2>2 DEF Cleaned
<1>2. CASE k # i
  <2>1. k \in Nat
    OBVIOUS
  <2>2. ~(k = i + 1 /\ h < 1)
    <3> DEFINE n == Len(rows[k])
    <3>1. h \in 1 .. n
      OBVIOUS
    <3> HIDE DEF n
    <3> QED
      BY ONLY <3>1
  <2>3. k < i
    BY <1>2, <2>1, <2>2
  <2> QED
    BY <2>3 DEF Cleaned
<1> QED
  BY <1>1, <1>2

\* An entry more when its leaf is cleared.
LEMMA CleanedOn ==
    ASSUME NEW lf, NEW rows, NEW m, NEW i, i \in 1 .. m, NEW j, j \in 1 .. Len(rows[i]), NEW bits,
           Cleaned(lf, rows, m, i, j, bits),
           \A k \in 1 .. m : \A h \in 1 .. Len(rows[k]) : rows[k][h].sector \in DOMAIN lf,
           NEW cut, ClearedAt(lf, cut, rows[i][j].sector, bits), Clean(cut[rows[i][j].sector], bits)
    PROVE  Cleaned(cut, rows, m, i, j + 1, bits)
<1> SUFFICES ASSUME NEW k \in 1 .. m, NEW h \in 1 .. Len(rows[k]), k < i \/ (k = i /\ h < j + 1)
             PROVE  Clean(cut[rows[k][h].sector], bits)
  BY DEF Cleaned
<1> DEFINE x == rows[k][h].sector
           s == rows[i][j].sector
<1>1. x \in DOMAIN lf /\ \A t \in DOMAIN lf : t # s => cut[t] = lf[t]
  BY DEF ClearedAt
<1>2. CASE x = s
  BY <1>2
<1>3. CASE x # s
  <2>1. cut[x] = lf[x]
    BY <1>1, <1>3
  <2>2. k < i \/ (k = i /\ h < j)
    <3> DEFINE a == Len(rows[k])
               b == Len(rows[i])
    <3>1. ~(k = i /\ h = j)
      BY <1>3
    <3>2. h \in 1 .. a /\ j \in 1 .. b /\ (k < i \/ (k = i /\ h < j + 1))
      OBVIOUS
    <3> HIDE DEF a, b
    <3> QED
      BY ONLY <3>1, <3>2
  <2> QED
    BY <2>1, <2>2 DEF Cleaned
<1> QED
  BY <1>2, <1>3

\* Where its leaf is merged, the entry is gone.
LEMMA CleanedLess ==
    ASSUME NEW cut, NEW lf2, NEW rows, NEW rows2, NEW m, NEW i, NEW j, NEW k, NEW h,
           NEW p, NEW s, MergesAt(cut, lf2, rows, rows2, m, i, j, k, h, p, s),
           \A c : Found(lf2[p], c) = Found(cut[p], c) \union Found(cut[s], c),
           Ranks(rows2, m, ChunksIn(lf2)), NEW bits, Cleaned(cut, rows, m, i, j + 1, bits)
    PROVE  Cleaned(lf2, rows2, m, i, j, bits)
<1> USE DEF MergesAt
<1> DEFINE len == Len(rows[i])
           last == Len(rows[k])
<1>1. rows[i] \in Seq(Entry) /\ rows[k] \in Seq(Entry) /\ len \in Nat /\ last \in Nat
  <2>1. PICK n, f, b : Flat(rows, m, n, f, b)
    BY DEF Ranks
  <2>2. rows[i] \in Seq(Entry) /\ rows[k] \in Seq(Entry)
    BY <2>1 DEF Flat
  <2> QED
    BY <2>2
<1>2. Removed(rows[i], j, rows2[i]) /\ rows2[i] = RemoveAt(rows[i], j)
  <2>1. rows2[i] = RemoveAt(rows[i], j)
    BY RowPutIs
  <2> QED
    BY <1>1, <2>1, RemoveAtIs
<1>3. h \in 1 .. last /\ (k < i \/ (k = i /\ h < j + 1))
  <2>0. j \in 1 .. len
    OBVIOUS
  <2>1. CASE j # 1
    <3>1. k = i /\ h = j - 1
      BY <2>1 DEF Precedes
    <3>2. last = len
      BY <3>1
    <3> HIDE DEF len, last
    <3> QED
      BY ONLY <1>1, <2>0, <2>1, <3>1, <3>2
  <2>2. CASE j = 1
    <3>1. k = i - 1 /\ h = last /\ h \in Nat \ {0}
      BY <2>2 DEF Precedes
    <3> HIDE DEF last
    <3>2. i \in Nat
      OBVIOUS
    <3> QED
      BY ONLY <3>1, <3>2
  <2> QED
    BY <2>1, <2>2
<1>4. Clean(cut[p], bits)
  BY <1>3 DEF Cleaned
<1>5. Clean(cut[s], bits)
  <2>1. j < j + 1
    <3>1. j \in 1 .. len
      OBVIOUS
    <3> HIDE DEF len
    <3> QED
      BY ONLY <3>1
  <2> QED
    BY <2>1 DEF Cleaned
<1>6. Clean(lf2[p], bits)
  BY <1>4, <1>5 DEF Clean
<1> SUFFICES ASSUME NEW g \in 1 .. m, NEW q \in 1 .. Len(rows2[g]), g < i \/ (g = i /\ q < j)
             PROVE  Clean(lf2[rows2[g][q].sector], bits)
  BY DEF Cleaned
<1> DEFINE x == rows2[g][q].sector
<1>7. x \in DOMAIN lf2 /\ x \in DOMAIN cut /\ x # s /\ (x # p => lf2[x] = cut[x])
  <2>1. x \in DOMAIN ChunksIn(lf2)
    BY RanksReach
  <2> QED
    BY <2>1 DEF Merging, ChunksIn
<1>8. q \in 1 .. Len(rows[g]) /\ rows2[g][q] = rows[g][q] /\ (g < i \/ (g = i /\ q < j + 1))
  <2>1. CASE g = i
    <3> DEFINE n2 == Len(rows2[i])
    <3>1. q \in 1 .. n2 /\ q < j /\ j \in 1 .. len
      BY <2>1
    <3>2. len = n2 + 1 \/ n2 = len - 1
      BY <1>2 DEF Removed
    <3>3. rows2[i][q] = rows[i][q]
      BY <1>2, <2>1, <3>1 DEF Removed
    <3> HIDE DEF n2, len
    <3>4. q \in 1 .. len /\ q < j + 1
      BY ONLY <3>1, <3>2, <1>1
    <3> QED
      BY <2>1, <3>3, <3>4 DEF len
  <2>2. CASE g # i
    <3>1. rows2[g] = rows[g]
      BY <2>2 DEF RowPut
    <3> QED
      BY <2>2, <3>1
  <2> QED
    BY <2>1, <2>2
<1>9. Clean(cut[x], bits)
  BY <1>8 DEF Cleaned
<1> QED
  BY <1>6, <1>7, <1>9

\* An element of two lists is one of either.
LEMMA JoinedFrom ==
    ASSUME NEW S, NEW s, s \in Seq(S), NEW t, t \in Seq(S), NEW h, h \in 1 .. Len(s \o t)
    PROVE  (\E q \in 1 .. Len(s) : (s \o t)[h] = s[q]) \/ (\E q \in 1 .. Len(t) : (s \o t)[h] = t[q])
<1> DEFINE a == Len(s)
           b == Len(t)
           n == Len(s \o t)
<1>1. a \in Nat /\ b \in Nat /\ n = a + b
  OBVIOUS
<1>2. /\ \A q \in 1 .. a : (s \o t)[q] = s[q]
      /\ \A q \in 1 .. b : (s \o t)[a + q] = t[q]
  OBVIOUS
<1> HIDE DEF a, b, n
<1>3. h \in 1 .. a \/ (h - a \in 1 .. b /\ a + (h - a) = h)
  <2>1. h \in 1 .. n
    BY DEF n
  <2> QED
    BY ONLY <1>1, <2>1
<1> QED
  BY <1>2, <1>3 DEF a, b

\* The place behind node i is behind the two that became it.
LEMMA CleanedJoined ==
    ASSUME NEW lf, NEW rows, NEW m, NEW i, NEW rows2, Parted(rows, m, i, rows2), NEW bits,
           Cleaned(lf, rows2, m + 1, i + 2, 1, bits)
    PROVE  Cleaned(lf, rows, m, i + 1, 1, bits)
<1>1. /\ m \in Nat \ {0} /\ i \in 1 .. m
      /\ \A k \in 1 .. m : (k < i => rows2[k] = rows[k]) /\ (i < k => rows2[k + 1] = rows[k])
      /\ rows2[i] \in Seq(Entry) /\ rows2[i + 1] \in Seq(Entry) /\ rows[i] = rows2[i] \o rows2[i + 1]
  BY DEF Parted
<1> SUFFICES ASSUME NEW k \in 1 .. m, NEW h \in 1 .. Len(rows[k]), k < i + 1 \/ (k = i + 1 /\ h < 1)
             PROVE  Clean(lf[rows[k][h].sector], bits)
  BY DEF Cleaned
<1>2. \A g \in 1 .. m + 1 : \A q \in 1 .. Len(rows2[g]) : g < i + 2 => Clean(lf[rows2[g][q].sector], bits)
  BY DEF Cleaned
<1>3. k < i \/ k = i
  <2> DEFINE n == Len(rows[k])
  <2>1. h \in 1 .. n
    OBVIOUS
  <2> HIDE DEF n
  <2>2. h \in Nat \ {0} /\ k \in Nat /\ i \in Nat
    BY <1>1, <2>1
  <2> QED
    BY <2>2
<1>4. CASE k < i
  <2>1. rows2[k] = rows[k] /\ k \in 1 .. m + 1 /\ k < i + 2
    BY <1>1, <1>4
  <2> QED
    BY <1>2, <2>1
<1>5. CASE k = i
  <2> DEFINE x == rows2[i]
             y == rows2[i + 1]
             e == rows[k][h]
  <2>1. x \in Seq(Entry) /\ y \in Seq(Entry) /\ h \in 1 .. Len(x \o y) /\ e = (x \o y)[h]
    BY <1>1, <1>5
  <2>2. i \in 1 .. m + 1 /\ i < i + 2 /\ i + 1 \in 1 .. m + 1 /\ i + 1 < i + 2
    BY <1>1
  <2>3. (\A q \in 1 .. Len(x) : Clean(lf[x[q].sector], bits)) /\ (\A q \in 1 .. Len(y) : Clean(lf[y[q].sector], bits))
    BY <1>2, <2>2
  <2> HIDE DEF x, y, e
  <2>4. (\E q \in 1 .. Len(x) : e = x[q]) \/ (\E q \in 1 .. Len(y) : e = y[q])
    BY <2>1, JoinedFrom
  <2>5. Clean(lf[e.sector], bits)
    BY <2>3, <2>4
  <2> QED
    BY <2>5 DEF e
<1> QED
  BY <1>3, <1>4, <1>5

\* The place the walk is before, by its node and its entry.
RowDue(w, depth, m) ==
    IF w.at = "shrink" THEN m + 1
    ELSE IF w.at = "leaf" THEN RowAt(w.path, depth) ELSE RowAt(w.path, depth) + 1
EntryDue(w, depth) == IF w.at = "leaf" THEN EntryAt(w.path, depth) ELSE 1

\* The leaves the walk has done have none of the bits.
Swept(w, index, top, depth, lf) ==
    \A rows, m : RowsAre(index, top, depth, rows, m)
                   => Cleaned(lf, rows, m, RowDue(w, depth, m), EntryDue(w, depth), w.bits)

\* The nodes are all the same.
LEMMA SweptBy ==
    ASSUME NEW w, NEW index, NEW top, NEW depth, NEW lf, NEW rows, NEW m, RowsAre(index, top, depth, rows, m),
           NEW i, i = RowDue(w, depth, m), NEW j, j = EntryDue(w, depth), Cleaned(lf, rows, m, i, j, w.bits)
    PROVE  Swept(w, index, top, depth, lf)
<1> SUFFICES ASSUME NEW rows2, NEW m2, RowsAre(index, top, depth, rows2, m2)
             PROVE  Cleaned(lf, rows2, m2, RowDue(w, depth, m2), EntryDue(w, depth), w.bits)
  BY DEF Swept
<1>1. m2 = m /\ \A k \in 1 .. m : rows2[k] = rows[k]
  BY DEF RowsAre
<1>2. Cleaned(lf, rows2, m, i, j, w.bits)
  BY <1>1 DEF Cleaned
<1> QED
  BY <1>1, <1>2

\* The place after a step onward.
LEMMA OnwardDue ==
    ASSUME NEW w, IsWalk(w), NEW depth, depth \in 1 .. 2, w.level = depth, w.path \in Paths(depth),
           NEW index, NEW x, x = Onward(w, index)
    PROVE  /\ x.bits = w.bits /\ x # Idle
           /\ Finished(w, index) => /\ \A m : RowDue(x, depth, m) = RowAt(w.path, depth) + 1
                                    /\ EntryDue(x, depth) = 1
           /\ ~Finished(w, index) => /\ \A m : RowDue(x, depth, m) = RowAt(w.path, depth)
                                     /\ EntryDue(x, depth) = w.path[depth].next
<1> DEFINE n == w.path[depth].next
<1>0. Idle.at = "idle"
  BY DEF Idle
<1>1. n \in Nat /\ depth \in DOMAIN w.path /\ w.path \in [1 .. depth -> [sector : Sectors, next : Nat]]
  <2>1. w.path \in [1 .. depth -> [sector : Sectors, next : Nat]] /\ depth \in 1 .. depth
    BY DEF Paths
  <2> QED
    BY <2>1
<1>2. CASE Finished(w, index)
  <2>1. x = [w EXCEPT !.at = "pop"]
    BY <1>2 DEF Onward
  <2>2. x = WalkOf("pop", w.bits, w.level, w.path, w.hold, w.prev, w.this)
    BY <2>1 DEF IsWalk, WalkOf
  <2>3. x.at = "pop" /\ x.bits = w.bits /\ x.path = w.path
    BY <2>2, WalkFields
  <2>4. x # Idle /\ (\A m : RowDue(x, depth, m) = RowAt(w.path, depth) + 1) /\ EntryDue(x, depth) = 1
    BY <1>0, <2>3 DEF RowDue, EntryDue
  <2> QED
    BY <1>2, <2>3, <2>4
<1>3. CASE ~Finished(w, index)
  <2> DEFINE step == index[w.path[depth].sector][n].sector
             path == [w.path EXCEPT ![depth].next = n + 1]
  <2>1. x = [w EXCEPT !.at = "leaf", !.this = step, !.path[depth].next = @ + 1]
    BY <1>3 DEF Onward, ToLeaf
  <2> HIDE DEF step
  <2>2. x = WalkOf("leaf", w.bits, w.level, path, w.hold, w.prev, step)
    <3>1. path = [w.path EXCEPT ![depth].next = @ + 1]
      OBVIOUS
    <3> HIDE DEF path
    <3> QED
      BY <2>1, <3>1 DEF IsWalk, WalkOf
  <2> HIDE DEF path
  <2>3. x.at = "leaf" /\ x.bits = w.bits /\ x.path = path
    BY <2>2, WalkFields
  <2>4. path[depth].next = n + 1 /\ \A k \in 1 .. depth : k # depth => path[k] = w.path[k]
    <3>1. path = [w.path EXCEPT ![depth] = [w.path[depth] EXCEPT !.next = n + 1]]
      BY DEF path
    <3>2. w.path[depth] \in [sector : Sectors, next : Nat]
      BY <1>1
    <3>3. [w.path[depth] EXCEPT !.next = n + 1].next = n + 1
      BY <3>2
    <3> QED
      BY <1>1, <3>1, <3>3
  <2>5. RowAt(path, depth) = RowAt(w.path, depth)
    <3>1. CASE depth = 1
      BY <3>1 DEF RowAt
    <3>2. CASE depth = 2
      <4>1. path[1] = w.path[1]
        BY <2>4, <3>2
      <4> QED
        BY <3>2, <4>1 DEF RowAt
    <3> QED
      BY <3>1, <3>2
  <2>6. EntryAt(path, depth) = n
    <3>1. (n + 1) - 1 = n
      BY <1>1
    <3> HIDE DEF n
    <3> QED
      BY <2>4, <3>1 DEF EntryAt
  <2>7. x # Idle /\ (\A m : RowDue(x, depth, m) = RowAt(w.path, depth)) /\ EntryDue(x, depth) = n
    BY <1>0, <2>3, <2>5, <2>6 DEF RowDue, EntryDue
  <2> QED
    BY <1>3, <2>3, <2>7
<1> QED
  BY <1>2, <1>3

\* The walk w is before entry j of node i, where it goes on to x.
GoingOn(w, depth, index, top, rows, m, i, j, x) ==
    /\ IsWalk(w) /\ depth \in 1 .. 2 /\ w.level = depth /\ w.path \in Paths(depth) /\ x = Onward(w, index)
    /\ RowsAre(index, top, depth, rows, m) /\ i = RowAt(w.path, depth) /\ i \in 1 .. m
    /\ j \in Nat /\ j = w.path[depth].next
    /\ rows[i] = index[w.path[depth].sector] /\ Len(rows[i]) \in Nat

\* What is done before the next entry is done when the walk goes on.
LEMMA SweptOnward ==
    ASSUME NEW w, NEW depth, NEW index, NEW top, NEW rows, NEW m, NEW i, NEW j, NEW x,
           GoingOn(w, depth, index, top, rows, m, i, j, x)
    PROVE  /\ x # Idle /\ x.bits = w.bits
           /\ \A lf : Cleaned(lf, rows, m, i, j, w.bits) => Swept(x, index, top, depth, lf)
<1> USE DEF GoingOn
<1>0. /\ x.bits = w.bits /\ x # Idle
      /\ Finished(w, index) => /\ \A n : RowDue(x, depth, n) = RowAt(w.path, depth) + 1
                               /\ EntryDue(x, depth) = 1
      /\ ~Finished(w, index) => /\ \A n : RowDue(x, depth, n) = RowAt(w.path, depth)
                                /\ EntryDue(x, depth) = w.path[depth].next
  <2>1. IsWalk(w) /\ depth \in 1 .. 2 /\ w.level = depth /\ w.path \in Paths(depth) /\ x = Onward(w, index)
    OBVIOUS
  <2> QED
    BY ONLY <2>1, OnwardDue
<1> SUFFICES ASSUME NEW lf, Cleaned(lf, rows, m, i, j, w.bits)
             PROVE  Swept(x, index, top, depth, lf)
  BY <1>0
<1>1. CASE Finished(w, index)
  <2>1. x.bits = w.bits /\ x # Idle /\ RowDue(x, depth, m) = i + 1 /\ EntryDue(x, depth) = 1
    BY <1>0, <1>1
  <2>2. j = Len(rows[i]) + 1
    BY <1>1 DEF Finished
  <2>3. Cleaned(lf, rows, m, i + 1, 1, w.bits)
    <3>1. i \in Int /\ j \in Int /\ Cleaned(lf, rows, m, i, j, w.bits) /\ Len(rows[i]) \in Nat
      OBVIOUS
    <3> QED
      BY ONLY <2>2, <3>1, CleanedRow
  <2> QED
    BY <2>1, <2>3, SweptBy
<1>2. CASE ~Finished(w, index)
  <2>1. x.bits = w.bits /\ x # Idle /\ RowDue(x, depth, m) = i /\ EntryDue(x, depth) = j
    BY <1>0, <1>2
  <2> QED
    BY <2>1, SweptBy
<1> QED
  BY <1>1, <1>2

\* The walk goes on from the leaf it is at, which stays.
LEMMA GoesOn ==
    ASSUME NEW w, IsWalk(w), NEW leafs, NEW index, NEW top, NEW depth, NEW lv, NEW rows, NEW m, NEW i, NEW j, NEW s,
           AtPlace(w, leafs, index, top, depth, lv, rows, m, i, j, s),
           NEW next, next = [w EXCEPT !.prev = w.this], NEW x, x = Onward(next, index)
    PROVE  /\ x # Idle /\ x.bits = w.bits
           /\ \A lf : Cleaned(lf, rows, m, i, j + 1, w.bits) => Swept(x, index, top, depth, lf)
<1>1. /\ Rooted(leafs, index, top, depth, lv) /\ depth \in 1 .. 2 /\ AtLeaf(w, leafs, index, top, depth, lv)
      /\ RowsAre(index, top, depth, rows, m) /\ i = RowAt(w.path, depth) /\ j = w.path[depth].next - 1
      /\ s = w.path[depth].sector
  BY DEF AtPlace, EntryAt
<1>2. i \in 1 .. m /\ j \in 1 .. Len(index[s]) /\ rows[i] = index[s] /\ s \in DOMAIN index
  BY PlaceFound
<1>3. w.level = depth /\ w.path \in Paths(depth) /\ w.path[depth].next \in Nat
  <2>1. w.level = depth /\ w.path \in [1 .. depth -> [sector : Sectors, next : Nat]] /\ depth \in 1 .. depth
    BY <1>1 DEF AtLeaf, Between
  <2> QED
    BY <2>1 DEF Paths
<1>4. Len(rows[i]) \in Nat
  BY <1>1, <1>2 DEF Rooted, Forest, Levelled
<1>5. next = WalkOf(w.at, w.bits, w.level, w.path, w.hold, w.this, w.this)
  BY DEF IsWalk, WalkOf
<1>6. IsWalk(next) /\ next.level = depth /\ next.path = w.path /\ next.bits = w.bits
  BY <1>3, <1>5, WalkFields
<1> DEFINE k == w.path[depth].next
<1>7. k \in Nat /\ k = j + 1
  BY <1>1, <1>3
<1> HIDE DEF k
<1>8. /\ IsWalk(next) /\ depth \in 1 .. 2 /\ next.level = depth /\ next.path \in Paths(depth) /\ x = Onward(next, index)
      /\ RowsAre(index, top, depth, rows, m) /\ i = RowAt(next.path, depth) /\ i \in 1 .. m
      /\ k = next.path[depth].next /\ rows[i] = index[next.path[depth].sector]
  BY <1>1, <1>2, <1>3, <1>6 DEF k
<1>9. /\ x # Idle /\ x.bits = next.bits
      /\ \A lf : Cleaned(lf, rows, m, i, k, next.bits) => Swept(x, index, top, depth, lf)
  <2>1. GoingOn(next, depth, index, top, rows, m, i, k, x)
    BY ONLY <1>4, <1>7, <1>8 DEF GoingOn
  <2> QED
    BY ONLY <2>1, SweptOnward
<1> QED
  BY <1>6, <1>7, <1>9

\* The entry of the leaf the walk is at is taken out, and the walk goes on to x.
GoingBack(w, leafs, index, top, depth, lv, rows, m, i, j, s, next, index2, x, rows2) ==
    /\ IsWalk(w) /\ AtPlace(w, leafs, index, top, depth, lv, rows, m, i, j, s) /\ w.prev # NIL
    /\ next = [w EXCEPT !.path[w.level].next = @ - 1]
    /\ index2 = RemoveIndex(index, w.path, w.level) /\ x = Onward(next, index2)
    /\ rows2 = RowPut(rows, m, i, RemoveAt(rows[i], j))

\* The nodes are still in order, and the walk is before the same place.
LEMMA GoesBack ==
    ASSUME NEW w, NEW leafs, NEW index, NEW top, NEW depth, NEW lv, NEW rows, NEW m, NEW i, NEW j, NEW s,
           NEW next, NEW index2, NEW x, NEW rows2,
           GoingBack(w, leafs, index, top, depth, lv, rows, m, i, j, s, next, index2, x, rows2)
    PROVE  /\ Headed(index2, top, depth) /\ RowsAre(index2, top, depth, rows2, m)
           /\ x # Idle /\ x.bits = w.bits
           /\ \A lf : Cleaned(lf, rows2, m, i, j, w.bits) => Swept(x, index2, top, depth, lf)
<1> USE DEF GoingBack
<1>1. /\ Rooted(leafs, index, top, depth, lv) /\ depth \in 1 .. 2 /\ AtLeaf(w, leafs, index, top, depth, lv)
      /\ RowsAre(index, top, depth, rows, m) /\ i = RowAt(w.path, depth) /\ j = w.path[depth].next - 1
      /\ s = w.path[depth].sector
  BY DEF AtPlace, EntryAt
<1>2. i \in 1 .. m /\ j \in 1 .. Len(index[s]) /\ rows[i] = index[s] /\ s \in DOMAIN index
      /\ s = LowNode(index, top, depth, i)
  BY PlaceFound
<1>3. w.level = depth /\ w.path \in Paths(depth) /\ depth \in 1 .. depth
  BY <1>1 DEF AtLeaf, Between, Paths
<1>4. EntryGoes(leafs, index, top, depth, lv, rows, m, i, s, j, w.path)
  BY PlaceGoes
<1>5. Headed(index2, top, depth) /\ RowsAre(index2, top, depth, rows2, m)
  <2>1. index2 = RemoveIndex(index, w.path, depth)
    BY <1>3
  <2> DEFINE path == w.path
  <2>2. EntryGoes(leafs, index, top, depth, lv, rows, m, i, s, j, path) /\ index2 = RemoveIndex(index, path, depth)
    BY <1>4, <2>1
  <2>3. rows2 = RowPut(rows, m, i, RemoveAt(rows[i], j))
    OBVIOUS
  <2> HIDE DEF path
  <2> QED
    BY ONLY <2>2, <2>3, LowNodeShrinks
<1>6. index2[s] = RemoveAt(index[s], j)
  <2> DEFINE path == w.path
  <2>1. EntryGoes(leafs, index, top, depth, lv, rows, m, i, s, j, path) /\ index2 = RemoveIndex(index, path, depth)
    BY <1>3, <1>4
  <2> HIDE DEF path
  <2>2. WithoutEntry(index, index2, top, depth, i, s, j)
    BY ONLY <2>1, EntryGone
  <2> QED
    BY <2>2 DEF WithoutEntry
<1>7. rows2[i] = index2[s] /\ Len(rows2[i]) \in Nat
  <2>1. rows2[i] = RemoveAt(rows[i], j)
    BY <1>2, RowPutIs
  <2>2. index[s] \in Seq(Entry)
    BY <1>1, <1>2 DEF Rooted, Forest, Levelled
  <2>3. RemoveAt(index[s], j) \in Seq(Entry)
    BY <1>2, <2>2, RemoveAtIs
  <2> QED
    BY <1>2, <1>6, <2>1, <2>3
<1> DEFINE path2 == Back(w.path, depth)
<1>8. next = WalkOf(w.at, w.bits, w.level, path2, w.hold, w.prev, w.this)
  <2>1. path2 = [w.path EXCEPT ![w.level].next = @ - 1]
    BY <1>3 DEF Back
  <2> HIDE DEF path2
  <2> QED
    BY <2>1 DEF IsWalk, WalkOf
<1>9. /\ path2 \in Paths(depth) /\ path2[depth].sector = s /\ path2[depth].next = j
      /\ \A k \in 1 .. depth - 1 : path2[k] = w.path[k]
  <2>1. Behind(w.path, depth, s, j)
    BY <1>1 DEF Behind
  <2>2. depth \in Nat /\ j \in Nat
    <3> DEFINE n == Len(index[s])
    <3>1. j \in 1 .. n
      BY <1>2
    <3> HIDE DEF n
    <3> QED
      BY <1>1, <3>1
  <2>3. path2 \in Paths(depth) /\ SamePath(w.path, path2, depth) /\ Behind(path2, depth, s, j - 1)
    <3> DEFINE path == w.path
    <3>1. path \in Paths(depth) /\ Behind(path, depth, s, j) /\ path2 = Back(path, depth)
      BY <1>3, <2>1
    <3> HIDE DEF path, path2
    <3>2. path2 \in Paths(depth) /\ SamePath(path, path2, depth) /\ Behind(path2, depth, s, j - 1)
      BY ONLY <1>3, <2>2, <3>1, BackIs
    <3> QED
      BY <3>2 DEF path
  <2> DEFINE y == path2[depth].next
  <2>4. y \in Nat
    BY <1>3, <2>3 DEF Paths
  <2>5. y - 1 = j - 1 /\ path2[depth].sector = s
    BY <2>3 DEF Behind
  <2> HIDE DEF path2
  <2>6. y = j
    <3> HIDE DEF y
    <3> QED
      BY ONLY <2>2, <2>4, <2>5
  <2> QED
    BY <2>3, <2>5, <2>6 DEF SamePath
<1> HIDE DEF path2
<1>10. IsWalk(next) /\ next.level = depth /\ next.path = path2 /\ next.bits = w.bits
  <2>1. IsWalk(next) /\ next.level = w.level /\ next.path = path2 /\ next.bits = w.bits
    BY ONLY <1>8, WalkFields
  <2> QED
    BY <1>3, <2>1
<1>11. RowAt(path2, depth) = i
  <2>1. CASE depth = 1
    BY <1>1, <2>1 DEF RowAt
  <2>2. CASE depth = 2
    <3>1. path2[1] = w.path[1]
      BY <1>9, <2>2
    <3> QED
      BY <1>1, <2>2, <3>1 DEF RowAt
  <2> QED
    BY <1>1, <2>1, <2>2
<1>12. j \in Nat
  <2> DEFINE n == Len(index[s])
  <2>1. j \in 1 .. n
    BY <1>2
  <2> HIDE DEF n
  <2> QED
    BY <2>1
<1>13. /\ IsWalk(next) /\ depth \in 1 .. 2 /\ next.level = depth /\ next.path \in Paths(depth) /\ x = Onward(next, index2)
       /\ RowsAre(index2, top, depth, rows2, m) /\ i = RowAt(next.path, depth) /\ i \in 1 .. m
       /\ j = next.path[depth].next /\ rows2[i] = index2[next.path[depth].sector]
  BY <1>1, <1>2, <1>5, <1>7, <1>9, <1>10, <1>11
<1>14. /\ x # Idle /\ x.bits = next.bits
       /\ \A lf : Cleaned(lf, rows2, m, i, j, next.bits) => Swept(x, index2, top, depth, lf)
  <2>1. GoingOn(next, depth, index2, top, rows2, m, i, j, x)
    BY ONLY <1>7, <1>12, <1>13 DEF GoingOn
  <2> QED
    BY ONLY <2>1, SweptOnward
<1> QED
  BY <1>5, <1>10, <1>14

-----------------------------------------------------------------------------
(* The steps of a deletion keep the order, and take nothing but the bits. *)

\* The exceptions of each chunk are what they were, or without the bits.
Shrunk(lf, lf2, bits) ==
    \A d : FoundIn(lf2, d) = FoundIn(lf, d) \/ FoundIn(lf2, d) = Cut(FoundIn(lf, d), bits)

\* A leaf is done.
LEMMA DeleteInOrder ==
    ASSUME IInv, InKeyOrder, MaxLevels <= 2, NEW mask, Tidy(leaf, mask), DeleteLeaf
    PROVE  /\ InKeyOrder' /\ Tidy(leaf', mask) /\ Shrunk(leaf, leaf', walk.bits)
           /\ walk' # Idle /\ walk'.bits = walk.bits
           /\ Swept(walk, node, root, levels, leaf) => Swept(walk', node', root', levels', leaf')
<1> DEFINE w == walk
           s == w.this
           D == DOMAIN leaf
           bits == w.bits
           this == DeleteFromLeaf(leaf[s], bits)
           cut == With(leaf, s, this)
           merge == w.prev # NIL /\ CanMerge(leaf[w.prev], this)
           x == walk'
<1>1. walk.at = "leaf" /\ root' = root /\ levels' = levels /\ super' = super
  BY DEF DeleteLeaf
<1>2. PICK lv : Rooted(D, node, root, levels, lv) /\ Walking(walk, D, node, root, levels, lv)
  BY DEF IInv, Sound
<1>3. IsWalk(w) /\ AtLeaf(w, D, node, root, levels, lv)
  BY <1>1, <1>2, WalkIs
<1>4. /\ levels \in 1 .. MaxLevels /\ super.root \in Sectors /\ super.levels \in 1 .. MaxLevels
      /\ Headed(node, root, levels) /\ InLine(node, root, levels, ChunksIn(leaf))
  BY DEF InKeyOrder
<1>5. levels \in 1 .. 2
  BY <1>4, TreeAssumption
<1>6. PICK rows, m : RowsAre(node, root, levels, rows, m) /\ Ranks(rows, m, ChunksIn(leaf))
  BY <1>4 DEF InLine
<1> DEFINE i == RowAt(w.path, levels)
           j == EntryAt(w.path, levels)
           a == w.path[levels].sector
<1>7. AtPlace(w, D, node, root, levels, lv, rows, m, i, j, a)
  BY <1>2, <1>3, <1>4, <1>5, <1>6 DEF AtPlace
<1>8. i \in 1 .. m /\ j \in 1 .. Len(rows[i]) /\ rows[i][j].sector = s
  <2> HIDE DEF w, D, i, j, a
  <2>1. /\ i \in 1 .. m /\ a = LowNode(node, root, levels, i) /\ a \in DOMAIN node
        /\ j \in 1 .. Len(node[a]) /\ rows[i] = node[a] /\ rows[i][j].sector = w.this
    BY ONLY <1>7, PlaceFound
  <2> QED
    BY <2>1
<1>9. \A k \in 1 .. m : \A h \in 1 .. Len(rows[k]) : rows[k][h].sector \in D
  <2>1. \A k \in 1 .. m : \A h \in 1 .. Len(rows[k]) : rows[k][h].sector \in DOMAIN ChunksIn(leaf)
    BY <1>6, RanksReach
  <2> QED
    BY <2>1 DEF ChunksIn
<1>10. s \in D
  BY <1>8, <1>9
<1>11. Wiped(leaf, cut, rows, m, s, bits, mask)
  <2>1. s \in DOMAIN leaf /\ cut = With(leaf, s, DeleteFromLeaf(leaf[s], bits)) /\ Ranks(rows, m, ChunksIn(leaf))
        /\ Tidy(leaf, mask)
    BY <1>6, <1>10
  <2> HIDE DEF s, bits, cut
  <2> QED
    BY ONLY <2>1, WipedOne
<1>12. /\ Tidy(cut, mask) /\ ClearedAt(leaf, cut, s, bits) /\ Ranks(rows, m, ChunksIn(cut))
       /\ Clean(cut[s], bits) /\ Shrunk(leaf, cut, bits)
  <2> HIDE DEF cut, bits, s
  <2> QED
    BY <1>11 DEF Wiped, Shrunk
<1>13. Swept(walk, node, root, levels, leaf) => Cleaned(cut, rows, m, i, j + 1, bits)
  <2> SUFFICES ASSUME Swept(walk, node, root, levels, leaf)
               PROVE  Cleaned(cut, rows, m, i, j + 1, bits)
    OBVIOUS
  <2>1. RowDue(w, levels, m) = i /\ EntryDue(w, levels) = j
    BY <1>1 DEF RowDue, EntryDue
  <2>2. Cleaned(leaf, rows, m, i, j, bits)
    <3>1. Cleaned(leaf, rows, m, RowDue(w, levels, m), EntryDue(w, levels), w.bits)
      BY <1>6 DEF Swept
    <3> QED
      BY <2>1, <3>1
  <2>3. ClearedAt(leaf, cut, rows[i][j].sector, bits) /\ Clean(cut[rows[i][j].sector], bits)
    BY <1>8, <1>12
  <2> HIDE DEF cut, bits, i, j, s
  <2> QED
    BY ONLY <1>8, <1>9, <2>2, <2>3, CleanedOn DEF D
<1>14. CASE ~merge
  <2> DEFINE next == [w EXCEPT !.prev = w.this]
  <2>1. node' = node /\ leaf' = cut /\ x = Onward(next, node)
    BY <1>14 DEF DeleteLeaf, Onward, With
  <2>2. /\ x # Idle /\ x.bits = w.bits
        /\ \A lf : Cleaned(lf, rows, m, i, j + 1, w.bits) => Swept(x, node, root, levels, lf)
    <3>1. IsWalk(w) /\ AtPlace(w, D, node, root, levels, lv, rows, m, i, j, a) /\ next = [w EXCEPT !.prev = w.this]
          /\ x = Onward(next, node)
      BY <1>3, <1>7, <2>1
    <3> HIDE DEF w, D, i, j, a, next, x
    <3> QED
      BY ONLY <3>1, GoesOn
  <2> HIDE DEF cut, x, next
  <2>3. InKeyOrder'
    <3>1. InLine(node, root, levels, ChunksIn(cut))
      BY <1>6, <1>12 DEF InLine
    <3>2. ChunksIn(leaf)' = ChunksIn(cut)
      BY <2>1 DEF ChunksIn
    <3> QED
      BY <1>1, <1>4, <2>1, <3>1, <3>2 DEF InKeyOrder
  <2>4. Swept(walk, node, root, levels, leaf) => Swept(x, node, root, levels, cut)
    BY <1>13, <2>2
  <2> QED
    BY <1>1, <1>12, <2>1, <2>2, <2>3, <2>4 DEF x
<1>15. CASE merge
  <2> DEFINE next == [w EXCEPT !.path[w.level].next = @ - 1]
             p == w.prev
             index == RemoveIndex(node, w.path, w.level)
             rows2 == RowPut(rows, m, i, RemoveAt(rows[i], j))
             lf2 == leaf'
  <2>1. /\ node' = index /\ x = Onward(next, index) /\ p # NIL
        /\ leaf' = [Without(leaf, s) EXCEPT ![p] = MergeLeaves(@, this)]
        /\ CanMerge(leaf[p], this)
    BY <1>15 DEF DeleteLeaf, Onward
  <2>2. PICK k \in 1 .. m : \E h : Precedes(rows, k, h, i, j) /\ rows[k][h].sector = w.prev
    <3> HIDE DEF w, D, i, j, a
    <3> QED
      BY <1>7, <2>1, PlaceBefore DEF p
  <2>3. PICK h : Precedes(rows, k, h, i, j) /\ rows[k][h].sector = p
    BY <2>2
  <2>4. p \in D /\ p # s
    <3>1. Numbered(ChunksIn(leaf)) /\ DOMAIN ChunksIn(leaf) = DOMAIN leaf
      BY ChunksNumbered
    <3> HIDE DEF i, j, p, s
    <3>2. rows[k][h].sector \in DOMAIN ChunksIn(leaf) /\ rows[k][h].sector # rows[i][j].sector
      BY <1>6, <1>8, <2>3, <3>1, RanksOrder
    <3> QED
      BY <1>8, <2>3, <3>1, <3>2
  <2>5. cut[p] = leaf[p] /\ cut[s] = this /\ DOMAIN cut = D
    <3> HIDE DEF this, p, s
    <3> QED
      BY <1>10, <2>4 DEF With
  <2>6. Merging(cut, lf2, p, s)
    <3>1. DOMAIN lf2 = D \ {s} /\ lf2[p] = MergeLeaves(leaf[p], this)
          /\ \A t \in D : t # s /\ t # p => lf2[t] = leaf[t]
      <4> HIDE DEF this, w
      <4> QED
        BY <2>1, <2>4 DEF Without, Restrict
    <3>2. \A t \in D : t # s => cut[t] = leaf[t]
      BY <1>12 DEF ClearedAt
    <3> HIDE DEF cut, this, lf2, p, s, D
    <3> QED
      BY <2>1, <2>5, <3>1, <3>2 DEF Merging, p
  <2>12. MergesAt(cut, lf2, rows, rows2, m, i, j, k, h, p, s)
    <3>1. p = rows[k][h].sector /\ s = rows[i][j].sector /\ rows2 = RowPut(rows, m, i, RemoveAt(rows[i], j))
      BY <1>8, <2>3
    <3> HIDE DEF cut, i, j, p, s, rows2, lf2
    <3> QED
      BY ONLY <1>8, <1>12, <2>3, <2>6, <3>1 DEF MergesAt
  <2>7. /\ Tidy(lf2, mask) /\ Ranks(rows2, m, ChunksIn(lf2))
        /\ \A d : FoundIn(lf2, d) = FoundIn(cut, d)
        /\ \A c : Found(lf2[p], c) = Found(cut[p], c) \union Found(cut[s], c)
    <3> HIDE DEF cut, i, j, p, s, rows2, lf2
    <3> QED
      BY ONLY <1>12, <2>12, MergedOne
  <2>8. /\ Headed(index, root, levels) /\ RowsAre(index, root, levels, rows2, m)
        /\ x # Idle /\ x.bits = w.bits
        /\ \A lf : Cleaned(lf, rows2, m, i, j, w.bits) => Swept(x, index, root, levels, lf)
    <3>1. /\ IsWalk(w) /\ AtPlace(w, D, node, root, levels, lv, rows, m, i, j, a) /\ w.prev # NIL
          /\ next = [w EXCEPT !.path[w.level].next = @ - 1] /\ index = RemoveIndex(node, w.path, w.level)
          /\ x = Onward(next, index) /\ rows2 = RowPut(rows, m, i, RemoveAt(rows[i], j))
      BY <1>3, <1>7, <2>1
    <3> HIDE DEF w, D, i, j, a, next, x, index, rows2
    <3>2. GoingBack(w, D, node, root, levels, lv, rows, m, i, j, a, next, index, x, rows2)
      BY ONLY <3>1 DEF GoingBack
    <3> QED
      BY ONLY <3>2, GoesBack
  <2>9. Swept(walk, node, root, levels, leaf) => Swept(x, index, root, levels, lf2)
    <3> SUFFICES ASSUME Swept(walk, node, root, levels, leaf)
                 PROVE  Cleaned(lf2, rows2, m, i, j, bits)
      BY <2>8
    <3>1. Cleaned(cut, rows, m, i, j + 1, bits)
      BY <1>13
    <3> HIDE DEF cut, i, j, p, s, rows2, lf2, bits
    <3> QED
      BY ONLY <2>7, <2>12, <3>1, CleanedLess
  <2>10. Shrunk(leaf, lf2, bits)
    <3> HIDE DEF cut, lf2, bits
    <3> QED
      BY <1>12, <2>7 DEF Shrunk
  <2> HIDE DEF cut, x, next, index, rows2
  <2>11. InKeyOrder'
    <3>1. InLine(index, root, levels, ChunksIn(lf2))
      BY <2>7, <2>8 DEF InLine
    <3>2. ChunksIn(leaf)' = ChunksIn(lf2)
      BY DEF ChunksIn
    <3> QED
      BY <1>1, <1>4, <2>1, <2>8, <3>1, <3>2 DEF InKeyOrder
  <2> QED
    BY <1>1, <2>1, <2>7, <2>8, <2>9, <2>10, <2>11 DEF x
<1> QED
  BY <1>14, <1>15

\* Node this, the lowest one at place e + 1 of n + 1, goes into q at place e.
NodeGoes(leafs, index, top, lv, rows, n, e, this, q, path) ==
    /\ Rooted(leafs, index, top, 2, lv) /\ Headed(index, top, 2)
    /\ RowsAre(index, top, 2, rows, n + 1) /\ n \in Nat /\ e \in 1 .. n
    /\ this = LowNode(index, top, 2, e + 1) /\ q = LowNode(index, top, 2, e)
    /\ path[1].sector = top /\ path[1].next - 1 = e + 1 /\ Len(index[q]) >= 1

\* Its entry in the root is gone, and its entries are behind those of q.
NodeInto(index, index2, top, e, this, q) ==
    /\ DOMAIN index2 = DOMAIN index \ {this} /\ index2[top] = RemoveAt(index[top], e + 1)
    /\ index2[q] = index[q] \o index[this]
    /\ \A t \in DOMAIN index : t # this /\ t # q /\ t # top => index2[t] = index[t]

\* The root and the nodes below it.
LEMMA NodeGoesIs ==
    ASSUME NEW leafs, NEW index, NEW top, NEW lv, NEW rows, NEW n, NEW e, NEW this, NEW q, NEW path,
           NodeGoes(leafs, index, top, lv, rows, n, e, this, q, path)
    PROVE  /\ Len(index[top]) = n + 1 /\ n + 1 \in Nat /\ index[top] \in Seq(Entry)
           /\ \A k \in 1 .. n + 1 : /\ rows[k] = index[index[top][k].sector] /\ index[top][k].sector \in DOMAIN index
                                    /\ rows[k] \in Seq(Entry) /\ index[top][k].sector # top
           /\ \A k, h \in 1 .. n + 1 : index[top][k].sector = index[top][h].sector => k = h
           /\ this = index[top][e + 1].sector /\ q = index[top][e].sector
<1>1. /\ Rooted(leafs, index, top, 2, lv) /\ RowsAre(index, top, 2, rows, n + 1) /\ n \in Nat
      /\ this = LowNode(index, top, 2, e + 1) /\ q = LowNode(index, top, 2, e)
  BY DEF NodeGoes
<1> DEFINE m == n + 1
<1>2. m = LowCount(index, top, 2) /\ 2 \in 1 .. 2 /\ \A k \in 1 .. m : rows[k] = index[LowNode(index, top, 2, k)]
  BY <1>1 DEF RowsAre
<1> HIDE DEF m
<1>3. /\ m \in Nat
      /\ \A k \in 1 .. m : /\ LowNode(index, top, 2, k) \in DOMAIN index
                           /\ lv[LowNode(index, top, 2, k)] = 2
                           /\ index[LowNode(index, top, 2, k)] \in Seq(Entry)
      /\ \A k, h \in 1 .. m : LowNode(index, top, 2, k) = LowNode(index, top, 2, h) => k = h
  BY ONLY <1>1, <1>2, LowNodesAre
<1>4. \A k : LowNode(index, top, 2, k) = index[top][k].sector
  BY DEF LowNode
<1>5. m = Len(index[top])
  BY <1>2 DEF LowCount
<1>6. index[top] \in Seq(Entry) /\ lv[top] = 1
  BY <1>1 DEF Rooted, Forest, Levelled
<1>7. \A k \in 1 .. m : index[top][k].sector # top
  BY <1>3, <1>4, <1>6
<1> QED
  BY <1>1, <1>2, <1>3, <1>4, <1>5, <1>6, <1>7 DEF m

\* That is what PopNode does.
LEMMA NodeGone ==
    ASSUME NEW leafs, NEW index, NEW top, NEW lv, NEW rows, NEW n, NEW e, NEW this, NEW q, NEW path,
           NodeGoes(leafs, index, top, lv, rows, n, e, this, q, path),
           NEW index2, index2 = Without([RemoveIndex(index, path, 1) EXCEPT ![q] = @ \o index[this]], this)
    PROVE  NodeInto(index, index2, top, e, this, q)
<1>1. path[1].sector = top /\ path[1].next - 1 = e + 1 /\ e \in Nat \ {0} /\ n \in Nat /\ e \in 1 .. n
  BY DEF NodeGoes
<1>2. /\ Len(index[top]) = n + 1 /\ n + 1 \in Nat
      /\ \A k \in 1 .. n + 1 : index[top][k].sector \in DOMAIN index /\ index[top][k].sector # top
      /\ \A k, h \in 1 .. n + 1 : index[top][k].sector = index[top][h].sector => k = h
      /\ this = index[top][e + 1].sector /\ q = index[top][e].sector
  BY NodeGoesIs
<1>3. e \in 1 .. n + 1 /\ e + 1 \in 1 .. n + 1 /\ e # e + 1 /\ e + 1 # 1
  BY <1>1
<1>4. this \in DOMAIN index /\ q \in DOMAIN index /\ this # top /\ q # top /\ this # q
  BY <1>2, <1>3
<1>5. top \in DOMAIN index
  BY DEF NodeGoes, Rooted
<1> DEFINE index1 == RemoveIndex(index, path, 1)
           one == RemoveAt(index[top], e + 1)
           more == index[this]
<1>6. index1 = [index EXCEPT ![top] = one]
  BY <1>1, <1>3 DEF RemoveIndex
<1> HIDE DEF index1, one, more
<1>7. DOMAIN index1 = DOMAIN index /\ index1[top] = one /\ \A t \in DOMAIN index : t # top => index1[t] = index[t]
  BY <1>5, <1>6
<1> DEFINE long == [index1 EXCEPT ![q] = @ \o more]
<1>8. /\ DOMAIN long = DOMAIN index /\ long[q] = index[q] \o more
      /\ \A t \in DOMAIN index : t # q => long[t] = index1[t]
  BY <1>4, <1>7
<1>9. index2 = Without(long, this)
  BY DEF index1, more
<1> HIDE DEF long
<1>10. index2 = [t \in DOMAIN index \ {this} |-> long[t]]
  BY <1>8, <1>9 DEF Without, Restrict
<1>11. DOMAIN index2 = DOMAIN index \ {this} /\ index2[top] = one /\ index2[q] = index[q] \o more
       /\ \A t \in DOMAIN index : t # this /\ t # q /\ t # top => index2[t] = index[t]
  BY <1>4, <1>5, <1>7, <1>8, <1>10
<1> QED
  BY <1>11 DEF NodeInto, one, more

\* The lowest nodes are the same but for these two, which are one.
LEMMA LowNodesJoin ==
    ASSUME NEW leafs, NEW index, NEW top, NEW lv, NEW rows, NEW n, NEW e, NEW this, NEW q, NEW path,
           NodeGoes(leafs, index, top, lv, rows, n, e, this, q, path),
           NEW index2, NodeInto(index, index2, top, e, this, q)
    PROVE  /\ Headed(index2, top, 2)
           /\ \E rows2 : RowsAre(index2, top, 2, rows2, n) /\ Parted(rows2, n, e, rows)
<1> DEFINE was == index[top]
           is == index2[top]
           rows2 == [k \in 1 .. n |-> index2[is[k].sector]]
<1>1. n \in Nat /\ e \in 1 .. n /\ e \in Nat \ {0} /\ n \in Nat \ {0} /\ e \in 1 .. n + 1 /\ e + 1 \in 1 .. n + 1
      /\ Len(index[q]) >= 1 /\ Headed(index, top, 2)
  BY DEF NodeGoes
<1>2. /\ Len(was) = n + 1 /\ was \in Seq(Entry)
      /\ \A k \in 1 .. n + 1 : /\ rows[k] = index[was[k].sector] /\ was[k].sector \in DOMAIN index
                               /\ rows[k] \in Seq(Entry) /\ was[k].sector # top
      /\ \A k, h \in 1 .. n + 1 : was[k].sector = was[h].sector => k = h
      /\ this = was[e + 1].sector /\ q = was[e].sector
  BY NodeGoesIs
<1>3. /\ DOMAIN index2 = DOMAIN index \ {this} /\ is = RemoveAt(was, e + 1)
      /\ index2[q] = index[q] \o index[this]
      /\ \A t \in DOMAIN index : t # this /\ t # q /\ t # top => index2[t] = index[t]
  BY DEF NodeInto
<1>4. Removed(was, e + 1, is) /\ is \in Seq(Entry)
  <2> DEFINE i == e + 1
  <2>1. was \in Seq(Entry) /\ i \in 1 .. Len(was) /\ is = RemoveAt(was, i)
    BY <1>1, <1>2, <1>3
  <2> HIDE DEF was, is, i
  <2>2. Removed(was, i, is) /\ is \in Seq(Entry)
    BY <2>1, RemoveAtIs
  <2> QED
    BY <2>2 DEF i
<1> HIDE DEF was, is
<1>5. Len(is) = n /\ \A k \in 1 .. n : is[k] = IF k < e + 1 THEN was[k] ELSE was[k + 1]
  <2>1. Len(is) = n
    <3> DEFINE x == Len(is)
               y == Len(was)
    <3>1. x \in Nat /\ y = n + 1 /\ y = x + 1
      BY <1>2, <1>4 DEF Removed
    <3> HIDE DEF x, y
    <3>2. x = n
      BY ONLY <1>1, <3>1
    <3> QED
      BY <3>2 DEF x
  <2> QED
    BY <1>4, <2>1 DEF Removed
<1>6. \A k \in 1 .. n : /\ k < e => is[k] = was[k] /\ index2[is[k].sector] = rows[k]
                        /\ k = e => is[k] = was[k] /\ is[k].sector = q
                        /\ e < k => is[k] = was[k + 1] /\ index2[is[k].sector] = rows[k + 1]
  <2> TAKE k \in 1 .. n
  <2>1. k \in 1 .. n + 1 /\ k + 1 \in 1 .. n + 1 /\ k \in Nat
    BY <1>1
  <2>2. CASE k < e
    <3>1. k < e + 1 /\ k # e /\ k # e + 1
      BY <1>1, <2>1, <2>2
    <3>2. is[k] = was[k]
      BY <1>5, <3>1
    <3>3. was[k].sector # q /\ was[k].sector # this /\ was[k].sector # top /\ was[k].sector \in DOMAIN index
      BY <1>1, <1>2, <2>1, <3>1
    <3> QED
      BY <1>1, <1>2, <1>3, <2>1, <2>2, <3>1, <3>2, <3>3
  <2>3. CASE k = e
    <3>1. k < e + 1 /\ ~(k < e) /\ ~(e < k)
      BY <1>1, <2>3
    <3> QED
      BY <1>2, <1>5, <2>3, <3>1
  <2>4. CASE e < k
    <3>1. ~(k < e + 1) /\ k # e /\ k + 1 # e + 1 /\ k + 1 # e /\ ~(k < e)
      BY <1>1, <2>1, <2>4
    <3>2. is[k] = was[k + 1]
      BY <1>5, <3>1
    <3>3. was[k + 1].sector # q /\ was[k + 1].sector # this /\ was[k + 1].sector # top
          /\ was[k + 1].sector \in DOMAIN index
      BY <1>1, <1>2, <2>1, <3>1
    <3>4. index2[is[k].sector] = rows[k + 1]
      BY <1>2, <1>3, <2>1, <3>2, <3>3
    <3> QED
      BY <3>1, <3>2, <3>4
  <2>5. k < e \/ k = e \/ e < k
    BY <1>1, <2>1
  <2> QED
    BY <2>2, <2>3, <2>4, <2>5
<1>7. index2[q] = rows[e] \o rows[e + 1] /\ is[e].sector = q /\ rows[e] = index[q] /\ rows[e + 1] = index[this]
      /\ rows[e] \in Seq(Entry) /\ rows[e + 1] \in Seq(Entry)
  BY <1>1, <1>2, <1>3, <1>6
<1>8. RowsAre(index2, top, 2, rows2, n)
  <2>1. LowCount(index2, top, 2) = n /\ \A k : LowNode(index2, top, 2, k) = is[k].sector
    BY <1>5 DEF LowCount, LowNode, is
  <2> QED
    BY <2>1 DEF RowsAre
<1>9. Parted(rows2, n, e, rows)
  <2>1. \A k \in 1 .. n : (k < e => rows[k] = rows2[k]) /\ (e < k => rows[k + 1] = rows2[k])
    BY <1>6
  <2>2. rows2[e] = rows[e] \o rows[e + 1]
    BY <1>1, <1>7
  <2> HIDE DEF rows2
  <2> QED
    BY <1>1, <1>7, <2>1, <2>2 DEF Parted
<1>10. ASSUME NEW k \in 2 .. n, Len(index2[is[k].sector]) >= 1
       PROVE  is[k].key = index2[is[k].sector][1].key
  <2>1. k \in 1 .. n /\ k \in Nat /\ k \in 2 .. n + 1 /\ k + 1 \in 2 .. n + 1 /\ k \in 1 .. n + 1 /\ k + 1 \in 1 .. n + 1
    BY <1>1
  <2>2. \A h \in 2 .. n + 1 : h \in 1 .. n + 1 /\ (Len(rows[h]) >= 1 => was[h].key = rows[h][1].key)
    <3> TAKE h \in 2 .. n + 1
    <3>1. h \in 1 .. n + 1 /\ h \in 2 .. Len(was)
      BY <1>1, <1>2
    <3>2. rows[h] = index[was[h].sector]
      BY <1>2, <3>1
    <3>3. Len(index[was[h].sector]) >= 1 => was[h].key = index[was[h].sector][1].key
      BY <1>1, <3>1 DEF Headed, was
    <3> QED
      BY <3>1, <3>2, <3>3
  <2>3. CASE k < e
    BY <1>6, <1>10, <2>1, <2>2, <2>3
  <2>4. CASE e < k
    BY <1>6, <1>10, <2>1, <2>2, <2>4
  <2>5. CASE k = e
    <3> DEFINE a == rows[e]
               b == rows[e + 1]
               f == a \o b
    <3>1. a \in Seq(Entry) /\ b \in Seq(Entry) /\ Len(a) >= 1
      BY <1>1, <1>7
    <3>2. f[1] = a[1]
      <4> HIDE DEF a, b
      <4>1. 1 \in 1 .. Len(a)
        BY <3>1
      <4> QED
        BY <3>1, <4>1
    <3>3. was[k].key = a[1].key
      BY <2>1, <2>2, <2>5, <3>1
    <3>4. index2[is[k].sector] = f /\ is[k] = was[k]
      BY <1>6, <1>7, <2>1, <2>5
    <3> QED
      BY <3>2, <3>3, <3>4
  <2>6. k < e \/ k = e \/ e < k
    BY <1>1, <2>1
  <2> QED
    BY <2>3, <2>4, <2>5, <2>6
<1>11. Headed(index2, top, 2)
  BY <1>5, <1>10 DEF Headed, is
<1> QED
  BY <1>8, <1>9, <1>11

\* One level up the walk is before the same place.
LEMMA UpwardIs ==
    ASSUME NEW bits, NEW l, NEW path, NEW hold, NEW prev, NEW this, NEW index,
           NEW x, x = Upward(WalkOf("pop", bits, l, path, hold, prev, this), index)
    PROVE  x.bits = bits /\ x.path = path /\ x.at \in {"pop", "push"} /\ x # Idle
<1> DEFINE w == WalkOf("pop", bits, l, path, hold, prev, this)
<1>1. w.bits = bits /\ w.path = path /\ w.at = "pop"
  BY WalkFields
<1>2. [w EXCEPT !.at = "push"] = WalkOf("push", bits, l, path, hold, prev, this)
  BY DEF WalkOf
<1> HIDE DEF w
<1>3. x = w \/ x = WalkOf("push", bits, l, path, hold, prev, this)
  BY <1>2 DEF Upward, w
<1>4. x.bits = bits /\ x.path = path /\ x.at \in {"pop", "push"}
  BY <1>1, <1>3, WalkFields
<1>5. Idle.at = "idle"
  BY DEF Idle
<1> QED
  BY <1>4, <1>5

\* The node the walk is behind goes into the one before.
LEMMA PopPlace ==
    ASSUME NEW w, NEW leafs, NEW index, NEW top, NEW lv, Rooted(leafs, index, top, 2, lv), Headed(index, top, 2),
           AtNodeEnd(w, leafs, index, top, 2, lv), w.level = 2, w.hold[2] # NIL,
           NEW rows, NEW m, RowsAre(index, top, 2, rows, m)
    PROVE  \E n, e : m = n + 1 /\ NodeGoes(leafs, index, top, lv, rows, n, e, w.path[2].sector, w.hold[2], w.path)
<1> DEFINE this == w.path[2].sector
           q == w.hold[2]
           y == w.path[1].next
           d == w.path[2].next - 1
<1>1. /\ Between(w.path, 2, w.hold, w.prev, d, leafs, index, top, 2, lv)
      /\ FullBut(index, this)
  BY DEF AtNodeEnd
<1>2. /\ w.path \in [1 .. 2 -> [sector : Sectors, next : Nat]] /\ w.path[1].sector = top /\ w.hold[1] = NIL
      /\ \A k \in 1 .. 2 : w.hold[k] # w.path[k].sector
      /\ \A k \in 1 .. 2 - 1 : Leads(index, w.path[k].sector, w.path[k].next - 1, w.path[k + 1].sector)
      /\ \A k \in 1 .. 2 : w.hold[k] # NIL => OnLevel(index, lv, w.hold[k], k)
      /\ \A k \in 1 .. 2 - 1 :
            LastDone(w.path, w.hold, index, k, w.path[k].next - 2, LastBelow(w.hold, w.prev, 2, k))
  BY <1>1 DEF Between
<1>3. 1 \in 1 .. 2 - 1 /\ 1 + 1 = 2 /\ 1 # 2 /\ 1 \in 1 .. 2 /\ 2 \in 1 .. 2
  OBVIOUS
<1>4. y \in Nat /\ q # this /\ q # NIL /\ q \in DOMAIN index
  BY <1>2, <1>3 DEF OnLevel
<1>5. Leads(index, top, y - 1, this)
  BY <1>2, <1>3
<1>6. LastDone(w.path, w.hold, index, 1, y - 2, q)
  BY <1>2, <1>3 DEF LastBelow
<1>7. y - 2 >= 1 /\ Leads(index, top, y - 2, q)
  BY <1>2, <1>4, <1>6 DEF LastDone
<1>8. m = Len(index[top]) /\ m \in Nat
  <2>1. index[top] \in Seq(Entry)
    BY DEF Rooted, Forest, Levelled
  <2> QED
    BY <2>1 DEF RowsAre, LowCount
<1>9. /\ y - 1 \in 1 .. m /\ this = index[top][y - 1].sector
      /\ y - 2 \in 1 .. m /\ q = index[top][y - 2].sector
  BY <1>5, <1>7, <1>8 DEF Leads
<1> HIDE DEF y, this, q, d
<1> DEFINE n == m - 1
           e == y - 2
<1>10. n \in Nat /\ m = n + 1 /\ e \in 1 .. n /\ e + 1 = y - 1
  BY ONLY <1>4, <1>7, <1>8, <1>9
<1>11. this = LowNode(index, top, 2, e + 1) /\ q = LowNode(index, top, 2, e)
  BY <1>9, <1>10 DEF LowNode
<1>12. Len(index[q]) >= 1
  BY <1>1, <1>4 DEF FullBut
<1>13. RowsAre(index, top, 2, rows, n + 1)
  BY <1>10
<1>14. w.path[1].next - 1 = e + 1
  BY <1>10 DEF y
<1> HIDE DEF n, e
<1>15. NodeGoes(leafs, index, top, lv, rows, n, e, this, q, w.path)
  BY <1>2, <1>10, <1>11, <1>12, <1>13, <1>14 DEF NodeGoes
<1> QED
  BY <1>10, <1>15 DEF this, q

\* A node is done.
LEMMA PopInOrder ==
    ASSUME IInv, InKeyOrder, MaxLevels <= 2, PopNode
    PROVE  /\ InKeyOrder' /\ leaf' = leaf /\ walk' # Idle /\ walk'.bits = walk.bits
           /\ Swept(walk, node, root, levels, leaf) => Swept(walk', node', root', levels', leaf')
<1> DEFINE w == walk
           l == w.level
           this == w.path[l].sector
           prev == w.hold[l]
           D == DOMAIN leaf
           x == walk'
<1>1. walk.at = "pop" /\ leaf' = leaf /\ root' = root /\ levels' = levels /\ super' = super
  BY DEF PopNode
<1>2. PICK lv : Rooted(D, node, root, levels, lv) /\ Walking(walk, D, node, root, levels, lv)
  BY DEF IInv, Sound
<1>3. IsWalk(w) /\ AtNodeEnd(w, D, node, root, levels, lv)
  BY <1>1, <1>2, WalkIs
<1>4. /\ levels \in 1 .. MaxLevels /\ super.root \in Sectors /\ super.levels \in 1 .. MaxLevels
      /\ Headed(node, root, levels) /\ InLine(node, root, levels, ChunksIn(leaf))
  BY DEF InKeyOrder
<1>5. levels \in 1 .. 2
  BY <1>4, TreeAssumption
<1>6. PICK rows, m : RowsAre(node, root, levels, rows, m) /\ Ranks(rows, m, ChunksIn(leaf))
  BY <1>4 DEF InLine
<1>7. Between(w.path, l, w.hold, w.prev, w.path[l].next - 1, D, node, root, levels, lv)
      /\ w.path[l].next = Len(node[this]) + 1
  BY <1>3 DEF AtNodeEnd
<1>8. /\ l \in 1 .. levels /\ w.hold[1] = NIL /\ w.path[1].sector = root
      /\ w.path \in [1 .. levels -> [sector : Sectors, next : Nat]]
  BY <1>7 DEF Between
<1>9. RowDue(w, levels, m) = RowAt(w.path, levels) + 1 /\ EntryDue(w, levels) = 1
  BY <1>1 DEF RowDue, EntryDue
<1>10. Swept(walk, node, root, levels, leaf) => Cleaned(leaf, rows, m, RowAt(w.path, levels) + 1, 1, w.bits)
  BY <1>6, <1>9 DEF Swept
<1>11. CASE ~Merges(node, this, prev)
  <2>1. node' = node /\ x = KeptAbove(w, node, this)
    BY <1>11 DEF PopNode, KeptAbove, Merges, Upward
  <2> DEFINE held == Held(w.hold, l, this)
             up == l - 1
  <2>2. KeptAbove(w, node, this) =
          IF l = 1 THEN WalkOf("shrink", w.bits, l, w.path, held, w.prev, w.this)
          ELSE Upward(WalkOf("pop", w.bits, up, w.path, held, w.prev, w.this), node)
    <3> HIDE DEF w, held, up, this
    <3> QED
      BY <1>1, <1>3, KeptAboveIs DEF held, up, w
  <2> HIDE DEF held, up
  <2>3. x.bits = w.bits /\ x.path = w.path /\ x # Idle
        /\ (IF l = 1 THEN x.at = "shrink" ELSE x.at \in {"pop", "push"})
    <3>1. CASE l = 1
      <4>1. x = WalkOf("shrink", w.bits, l, w.path, held, w.prev, w.this)
        BY <2>1, <2>2, <3>1
      <4>2. x.bits = w.bits /\ x.path = w.path /\ x.at = "shrink"
        BY ONLY <4>1, WalkFields
      <4>3. Idle.at = "idle"
        BY DEF Idle
      <4> QED
        BY <3>1, <4>2, <4>3
    <3>2. CASE l # 1
      <4>1. x = Upward(WalkOf("pop", w.bits, up, w.path, held, w.prev, w.this), node)
        BY <2>1, <2>2, <3>2
      <4>2. x.bits = w.bits /\ x.path = w.path /\ x.at \in {"pop", "push"} /\ x # Idle
        BY ONLY <4>1, UpwardIs
      <4> QED
        BY <3>2, <4>2
    <3> QED
      BY <3>1, <3>2
  <2>4. RowDue(x, levels, m) = RowAt(w.path, levels) + 1 /\ EntryDue(x, levels) = 1
    <3>1. CASE l = 1
      <4>1. RowAt(w.path, levels) = m
        <5>1. CASE levels = 1
          BY <1>6, <5>1 DEF RowAt, RowsAre, LowCount
        <5>2. CASE levels = 2
          <6> DEFINE y == w.path[1].next
                     len == Len(node[root])
          <6>1. y = len + 1 /\ m = len /\ RowAt(w.path, levels) = y - 1
            BY <1>6, <1>7, <1>8, <3>1, <5>2 DEF RowsAre, LowCount, RowAt
          <6>2. len \in Nat
            <7>1. node[root] \in Seq(Entry)
              BY <1>2 DEF Rooted, Forest, Levelled
            <7> QED
              BY <7>1
          <6> HIDE DEF y, len
          <6> QED
            BY ONLY <6>1, <6>2
        <5> QED
          BY <1>5, <5>1, <5>2
      <4> QED
        BY <2>3, <3>1, <4>1 DEF RowDue, EntryDue
    <3>2. CASE l # 1
      BY <2>3, <3>2 DEF RowDue, EntryDue
    <3> QED
      BY <3>1, <3>2
  <2>5. Swept(walk, node, root, levels, leaf) => Swept(x, node, root, levels, leaf)
    <3> SUFFICES ASSUME Swept(walk, node, root, levels, leaf)
                 PROVE  Swept(x, node, root, levels, leaf)
      OBVIOUS
    <3> DEFINE i == RowAt(w.path, levels) + 1
    <3>1. Cleaned(leaf, rows, m, i, 1, x.bits) /\ i = RowDue(x, levels, m) /\ 1 = EntryDue(x, levels)
      BY <1>10, <2>3, <2>4
    <3> HIDE DEF i, x
    <3> QED
      BY <1>6, <3>1, SweptBy
  <2>6. InKeyOrder'
    <3>1. ChunksIn(leaf)' = ChunksIn(leaf)
      BY <1>1 DEF ChunksIn
    <3> QED
      BY <1>1, <1>4, <2>1, <3>1 DEF InKeyOrder
  <2> HIDE DEF x
  <2> QED
    BY <1>1, <2>1, <2>3, <2>5, <2>6 DEF x
<1>12. CASE Merges(node, this, prev)
  <2>1. prev # NIL /\ l = 2 /\ levels = 2
    BY <1>5, <1>8, <1>12 DEF Merges
  <2>2. node' = MergedIndex(w, node, this, prev) /\ x = MergedAbove(w, node')
    BY <1>12, <2>1 DEF PopNode, MergedIndex, MergedAbove, Merges, Upward
  <2>3. PICK n, e : m = n + 1 /\ NodeGoes(D, node, root, lv, rows, n, e, this, prev, w.path)
    <3>1. /\ Rooted(D, node, root, 2, lv) /\ Headed(node, root, 2) /\ AtNodeEnd(w, D, node, root, 2, lv)
          /\ w.level = 2 /\ w.hold[2] # NIL /\ RowsAre(node, root, 2, rows, m)
          /\ this = w.path[2].sector /\ prev = w.hold[2]
      BY <1>2, <1>3, <1>4, <1>6, <2>1
    <3> HIDE DEF w, D, this, prev
    <3> QED
      BY <3>1, PopPlace
  <2>4. NodeInto(node, node', root, e, this, prev)
    <3> DEFINE path == w.path
               index == node'
    <3>1. index = Without([RemoveIndex(node, path, 1) EXCEPT ![prev] = @ \o node[this]], this)
      BY <2>1, <2>2 DEF MergedIndex
    <3>2. NodeGoes(D, node, root, lv, rows, n, e, this, prev, path)
      BY <2>3
    <3> HIDE DEF path, index, this, prev, D, w
    <3> QED
      BY ONLY <3>1, <3>2, NodeGone DEF index
  <2>5. Headed(node', root, 2) /\ \E rows2 : RowsAre(node', root, 2, rows2, n) /\ Parted(rows2, n, e, rows)
    <3> DEFINE path == w.path
               index == node'
    <3>2. NodeGoes(D, node, root, lv, rows, n, e, this, prev, path) /\ NodeInto(node, index, root, e, this, prev)
      BY <2>3, <2>4
    <3> HIDE DEF path, index, this, prev, D, w
    <3> QED
      BY ONLY <3>2, LowNodesJoin DEF index
  <2>6. PICK rows2 : RowsAre(node', root, 2, rows2, n) /\ Parted(rows2, n, e, rows)
    BY <2>5
  <2>7. Ranks(rows2, n, ChunksIn(leaf))
    BY <1>6, <2>3, <2>6, RanksJoined
  <2> DEFINE route == Back(w.path, 1)
  <2>8. x.bits = w.bits /\ x.path = route /\ x.at \in {"pop", "push"} /\ x # Idle
    <3> DEFINE index == node'
    <3>1. 1 = w.level - 1
      BY <2>1
    <3>2. x = Upward(WalkOf("pop", w.bits, 1, route, w.hold, w.prev, w.this), index)
      <4>1. IsWalk(w) /\ w.at = "pop" /\ route = Back(w.path, 1) /\ x = MergedAbove(w, index)
        BY <1>1, <1>3, <2>2
      <4> HIDE DEF w, index, route, x
      <4> QED
        BY <3>1, <4>1, MergedAboveIs
    <3> HIDE DEF index, x, w, route
    <3> QED
      BY <3>2, UpwardIs
  <2>9. w.path[1].next \in Nat /\ w.path[1].next - 1 = e + 1 /\ e \in Nat
    <3>1. w.path[1] \in [sector : Sectors, next : Nat]
      BY <1>5, <1>8
    <3>2. w.path[1].next - 1 = e + 1 /\ e \in 1 .. n /\ n \in Nat
      BY <2>3 DEF NodeGoes
    <3> QED
      BY <3>1, <3>2
  <2>10. route[1].next = e + 1
    <3> DEFINE y == w.path[1].next
    <3>1. route = [w.path EXCEPT ![1] = [w.path[1] EXCEPT !.next = y - 1]]
      BY DEF Back
    <3>2. w.path[1] \in [sector : Sectors, next : Nat] /\ 1 \in DOMAIN w.path
      BY <1>5, <1>8
    <3>3. [w.path[1] EXCEPT !.next = y - 1].next = y - 1
      BY <3>2
    <3> QED
      BY <2>9, <3>1, <3>2, <3>3
  <2> HIDE DEF route
  <2>11. RowDue(x, 2, n) = e + 1 /\ EntryDue(x, 2) = 1
    <3>1. RowAt(route, 2) = e
      BY <2>9, <2>10 DEF RowAt
    <3> QED
      BY <2>8, <3>1 DEF RowDue, EntryDue
  <2>12. Swept(walk, node, root, levels, leaf) => Swept(x, node', root, 2, leaf)
    <3> SUFFICES ASSUME Swept(walk, node, root, levels, leaf)
                 PROVE  Swept(x, node', root, 2, leaf)
      OBVIOUS
    <3>1. RowAt(w.path, levels) + 1 = e + 2
      BY <2>1, <2>9 DEF RowAt
    <3>2. Cleaned(leaf, rows, n + 1, e + 2, 1, w.bits)
      BY <1>10, <2>3, <3>1
    <3> DEFINE bits == w.bits
    <3>3. Cleaned(leaf, rows2, n, e + 1, 1, bits)
      <4>1. Cleaned(leaf, rows, n + 1, e + 2, 1, bits)
        BY <3>2
      <4> HIDE DEF bits
      <4> QED
        BY ONLY <2>6, <4>1, CleanedJoined
    <3> DEFINE i == e + 1
               index == node'
    <3>4. Cleaned(leaf, rows2, n, i, 1, x.bits) /\ i = RowDue(x, 2, n) /\ 1 = EntryDue(x, 2)
          /\ RowsAre(index, root, 2, rows2, n)
      BY <2>6, <2>8, <2>11, <3>3
    <3> HIDE DEF i, x, index
    <3> QED
      BY ONLY <3>4, SweptBy DEF index
  <2>13. InKeyOrder'
    <3>1. ChunksIn(leaf)' = ChunksIn(leaf)
      BY <1>1 DEF ChunksIn
    <3>2. InLine(node', root, 2, ChunksIn(leaf))
      BY <2>6, <2>7 DEF InLine
    <3> QED
      BY <1>1, <1>4, <2>1, <2>5, <3>1, <3>2 DEF InKeyOrder
  <2> HIDE DEF x
  <2> QED
    BY <1>1, <2>1, <2>8, <2>12, <2>13 DEF x
<1> QED
  BY <1>11, <1>12

-----------------------------------------------------------------------------
(* The other steps of a deletion.                                            *)

\* One level down the walk is before the first entry of the next node.
LEMMA LowerDue ==
    ASSUME NEW w, IsWalk(w), w.at = "push", w.level = 1, w.path \in Paths(2),
           NEW kid, kid \in Sectors, NEW down, down = Lower(w, 1, kid), NEW index, ~Finished(down, index),
           NEW x, x = ToLeaf(down, index)
    PROVE  /\ x.bits = w.bits /\ x # Idle
           /\ \A m : RowDue(x, 2, m) = RowAt(w.path, 2) + 1 /\ EntryDue(x, 2) = 1
<1> DEFINE path == w.path
           route == Down(path, 1, kid)
           y == path[1].next
<1>1. path[1] \in [sector : Sectors, next : Nat] /\ 1 \in DOMAIN path /\ 2 \in DOMAIN path
  BY DEF Paths
<1>2. down = WalkOf("push", w.bits, 2, route, w.hold, w.prev, w.this)
  <2>1. 2 = 1 + 1 /\ route = Down(w.path, 1, kid)
    OBVIOUS
  <2> HIDE DEF route
  <2> QED
    BY <2>1, LowerIs
<1>3. route \in Paths(2) /\ route[2].next = 1 /\ route[1].next = y + 1
  <2>1. /\ [path[1] EXCEPT !.next = y + 1] \in [sector : Sectors, next : Nat]
        /\ [path[1] EXCEPT !.next = y + 1].next = y + 1
    BY <1>1
  <2>2. route = [[path EXCEPT ![1] = [path[1] EXCEPT !.next = y + 1]] EXCEPT ![2] = [sector |-> kid, next |-> 1]]
    BY DEF Down
  <2> QED
    BY <1>1, <2>1, <2>2 DEF Paths
<1> HIDE DEF route, path, y
<1>4. IsWalk(down) /\ down.level = 2 /\ down.path = route /\ down.bits = w.bits
  BY <1>2, WalkFields
<1>5. x = Onward(down, index)
  BY DEF Onward
<1>6. /\ x.bits = down.bits /\ x # Idle
      /\ \A m : RowDue(x, 2, m) = RowAt(down.path, 2)
      /\ EntryDue(x, 2) = down.path[2].next
  <2>1. 2 \in 1 .. 2 /\ down.path \in Paths(2)
    BY <1>3, <1>4
  <2>2. ~Finished(down, index)
    OBVIOUS
  <2> QED
    BY ONLY <1>4, <1>5, <2>1, <2>2, OnwardDue
<1>7. RowAt(route, 2) = RowAt(path, 2) + 1
  <2>1. y \in Nat
    BY <1>1 DEF y
  <2>2. RowAt(route, 2) = (y + 1) - 1
    BY <1>3 DEF RowAt
  <2>3. RowAt(path, 2) = y - 1
    BY DEF RowAt, y
  <2> QED
    BY <2>1, <2>2, <2>3
<1> QED
  BY <1>3, <1>4, <1>6, <1>7 DEF path

\* The walk goes down.
LEMMA PushInOrder ==
    ASSUME IInv, InKeyOrder, MaxLevels <= 2, PushNode
    PROVE  /\ InKeyOrder' /\ leaf' = leaf /\ walk' # Idle /\ walk'.bits = walk.bits
           /\ Swept(walk, node, root, levels, leaf) => Swept(walk', node', root', levels', leaf')
<1> DEFINE w == walk
           D == DOMAIN leaf
           x == walk'
           p == w.path[1].sector
           n == w.path[1].next
           kid == node[p][n].sector
           down == Lower(w, 1, kid)
<1>1. /\ walk.at = "push" /\ leaf' = leaf /\ node' = node /\ root' = root /\ levels' = levels
      /\ super' = super /\ x = Pushed(w, node, levels)
  BY DEF PushNode, Pushed, Lower
<1>2. PICK lv : Rooted(D, node, root, levels, lv) /\ Walking(walk, D, node, root, levels, lv)
  BY DEF IInv, Sound
<1>3. IsWalk(w) /\ AtNode(w, D, node, root, levels, lv)
  BY <1>1, <1>2, WalkIs
<1>4. /\ levels \in 1 .. MaxLevels /\ super.root \in Sectors /\ super.levels \in 1 .. MaxLevels
      /\ Headed(node, root, levels) /\ InLine(node, root, levels, ChunksIn(leaf))
  BY DEF InKeyOrder
<1>5. InKeyOrder'
  <2>1. ChunksIn(leaf)' = ChunksIn(leaf)
    BY <1>1 DEF ChunksIn
  <2> QED
    BY <1>1, <1>4, <2>1 DEF InKeyOrder
<1>6. levels = 2 /\ w.level = 1 /\ w.path \in Paths(2) /\ w.path[1].sector = root
      /\ n \in 1 .. Len(node[root]) /\ FullBut(node, NIL)
  <2>1. levels \in 1 .. 2
    BY <1>4, TreeAssumption
  <2>2. w.level < levels /\ Between(w.path, w.level, w.hold, w.prev, w.path[w.level].next - 1, D, node, root, levels, lv)
    BY <1>3 DEF AtNode
  <2>3. w.level \in 1 .. levels /\ w.path \in [1 .. levels -> [sector : Sectors, next : Nat]]
        /\ w.path[1].sector = root
    BY <2>2 DEF Between
  <2>4. levels = 2 /\ w.level = 1
    BY <2>1, <2>2, <2>3
  <2> QED
    BY <1>3, <2>3, <2>4 DEF AtNode, Paths
<1>7. kid \in DOMAIN node /\ kid \in Sectors /\ Len(node[kid]) >= 1 /\ Len(node[kid]) \in Nat
  <2>1. kid \in Blocks(D, node) /\ lv[kid] = 2
    BY <1>2, <1>6 DEF Rooted, Forest, Hanging
  <2>2. kid \notin D /\ DOMAIN node \in SUBSET Sectors /\ node \in [DOMAIN node -> Seq(Entry)]
    BY <1>2, <1>6, <2>1 DEF Rooted, Forest, Levelled
  <2>3. kid \in DOMAIN node
    BY <2>1, <2>2 DEF Blocks
  <2>4. kid # NIL
    BY <2>2, <2>3, TreeAssumption DEF NIL
  <2>5. node[kid] \in Seq(Entry)
    BY <2>2, <2>3
  <2> QED
    BY <1>6, <2>2, <2>3, <2>4, <2>5 DEF FullBut
<1> HIDE DEF w, D, x
<1>8. down.level = 2 /\ down.path[2].sector = kid /\ down.path[2].next = 1
  <2> DEFINE path == w.path
             route == Down(path, 1, kid)
  <2>1. route[2].sector = kid /\ route[2].next = 1
    BY <1>6 DEF Down, Paths
  <2>2. down = WalkOf(w.at, w.bits, 2, route, w.hold, w.prev, w.this)
    <3>1. 2 = 1 + 1 /\ route = Down(w.path, 1, kid)
      OBVIOUS
    <3> HIDE DEF route
    <3> QED
      BY <1>3, <3>1, LowerIs
  <2> HIDE DEF route, down
  <2> QED
    BY <2>1, <2>2, WalkFields
<1>9. ~Finished(down, node)
  <2>1. 1 # Len(node[kid]) + 1
    BY <1>7
  <2> HIDE DEF down, kid
  <2> QED
    BY <1>8, <2>1 DEF Finished
<1>10. x = ToLeaf(down, node)
  <2>1. x = IF down.level = levels THEN ToLeaf(down, node) ELSE down
    BY <1>1, <1>6 DEF Pushed
  <2> HIDE DEF down
  <2> QED
    BY <1>6, <1>8, <2>1
<1>11. /\ x.bits = w.bits /\ x # Idle
       /\ \A m : RowDue(x, 2, m) = RowAt(w.path, 2) + 1 /\ EntryDue(x, 2) = 1
  <2>1. w.at = "push" /\ down = Lower(w, 1, kid)
    BY <1>1 DEF w
  <2> HIDE DEF down, kid
  <2> QED
    BY ONLY <1>3, <1>6, <1>7, <1>9, <1>10, <2>1, LowerDue
<1>12. Swept(w, node, root, levels, leaf) => Swept(x, node, root, levels, leaf)
  <2>1. \A m : RowDue(w, levels, m) = RowDue(x, levels, m) /\ EntryDue(w, levels) = EntryDue(x, levels)
    <3>1. w.at = "push"
      BY <1>1 DEF w
    <3> QED
      BY <1>6, <1>11, <3>1 DEF RowDue, EntryDue
  <2> QED
    BY <1>11, <2>1 DEF Swept
<1> QED
  BY <1>1, <1>5, <1>11, <1>12 DEF w, x

\* The root goes, and the node it led to is the root.
LEMMA DropInOrder ==
    ASSUME IInv, InKeyOrder, MaxLevels <= 2, DropLevel
    PROVE  /\ InKeyOrder' /\ leaf' = leaf /\ walk' # Idle /\ walk'.bits = walk.bits
           /\ Swept(walk, node, root, levels, leaf) => Swept(walk', node', root', levels', leaf')
<1> DEFINE w == walk
           D == DOMAIN leaf
           x == walk'
           r == w.hold[2]
           index == node'
<1>1. /\ walk.at = "shrink" /\ leaf' = leaf /\ super' = super /\ levels > 1 /\ Len(node[w.hold[1]]) = 1
      /\ root' = r /\ index = Without(node, w.hold[1]) /\ levels' = levels - 1 /\ x = HoldTail(w)
  BY DEF DropLevel, HoldTail
<1>2. PICK lv : Rooted(D, node, root, levels, lv) /\ Walking(walk, D, node, root, levels, lv)
  BY DEF IInv, Sound
<1>3. IsWalk(w) /\ AtTop(w, node, root, levels)
  BY <1>1, <1>2, WalkIs
<1>4. /\ levels \in 1 .. MaxLevels /\ super.root \in Sectors /\ super.levels \in 1 .. MaxLevels
      /\ Headed(node, root, levels) /\ InLine(node, root, levels, ChunksIn(leaf))
  BY DEF InKeyOrder
<1>5. levels = 2 /\ levels' = 1 /\ 1 \in 1 .. MaxLevels
  BY <1>1, <1>4, TreeAssumption
<1>6. PICK rows, m : RowsAre(node, root, levels, rows, m) /\ Ranks(rows, m, ChunksIn(leaf))
  BY <1>4 DEF InLine
<1>7. w.hold[1] = root /\ Len(node[root]) = 1 /\ r = node[root][1].sector /\ r \in DOMAIN node
  <2>1. w.hold[1] = root /\ 1 \in 1 .. levels - 1
    BY <1>3, <1>5 DEF AtTop
  <2>2. EndsIn(node, w.hold[1], w.hold[1 + 1]) /\ w.hold[levels] \in DOMAIN node
    BY <1>3, <2>1 DEF AtTop
  <2>3. Len(node[root]) = 1
    BY <1>1, <2>1
  <2> QED
    BY <1>5, <2>1, <2>2, <2>3 DEF EndsIn, Leads
<1>8. r # root
  <2>1. lv[r] = 2 /\ lv[root] = 1
    BY <1>2, <1>7 DEF Rooted, Forest, Hanging
  <2> QED
    BY <2>1
<1>9. index[r] = node[r]
  BY <1>1, <1>7, <1>8 DEF Without, Restrict
<1>10. m = 1 /\ rows[1] = node[r]
  <2>1. m = 1
    BY <1>5, <1>6, <1>7 DEF RowsAre, LowCount
  <2> QED
    BY <1>5, <1>6, <1>7, <2>1 DEF RowsAre, LowNode
<1>11. RowsAre(index, r, 1, rows, 1)
  BY <1>9, <1>10 DEF RowsAre, LowCount, LowNode
<1>12. InKeyOrder'
  <2>1. ChunksIn(leaf)' = ChunksIn(leaf)
    BY <1>1 DEF ChunksIn
  <2>2. Headed(index, r, 1)
    BY DEF Headed
  <2>3. InLine(index, r, 1, ChunksIn(leaf))
    BY <1>6, <1>10, <1>11 DEF InLine
  <2> QED
    BY <1>1, <1>4, <1>5, <2>1, <2>2, <2>3 DEF InKeyOrder
<1>13. x.at = "shrink" /\ x.bits = w.bits /\ x # Idle
  <2>1. x = WalkOf(w.at, w.bits, w.level, w.path, Tail(w.hold), w.prev, w.this)
    BY <1>1, <1>3 DEF HoldTail, IsWalk, WalkOf
  <2>2. x.at = "shrink" /\ x.bits = w.bits
    BY <1>1, <2>1, WalkFields
  <2>3. Idle.at = "idle"
    BY DEF Idle
  <2> QED
    BY <2>2, <2>3
<1>14. ASSUME Swept(walk, node, root, levels, leaf)
       PROVE  Swept(x, index, r, 1, leaf)
  <2>1. w.at = "shrink" /\ 2 = 1 + 1
    BY <1>1
  <2>2. RowDue(w, levels, m) = 2 /\ EntryDue(w, levels) = 1
    BY <1>10, <2>1 DEF RowDue, EntryDue
  <2>3. Cleaned(leaf, rows, 1, 2, 1, w.bits)
    BY <1>6, <1>10, <1>14, <2>2 DEF Swept
  <2>4. 2 = RowDue(x, 1, 1) /\ 1 = EntryDue(x, 1) /\ Cleaned(leaf, rows, 1, 2, 1, x.bits)
    BY <1>13, <2>1, <2>3 DEF RowDue, EntryDue
  <2> HIDE DEF x, index, r
  <2> QED
    BY ONLY <1>11, <2>4, SweptBy
<1> QED
  BY <1>1, <1>5, <1>12, <1>13, <1>14

\* Chunk 0 belongs to the first entry.
LEMMA RanksFirst ==
    ASSUME NEW rows, NEW m, NEW ch, Ranks(rows, m, ch), NEW i, NEW j, Guides(rows, m, i, j, 0),
           \A k \in 1 .. m : Len(rows[k]) >= 1
    PROVE  i = 1 /\ j = 1
<1>1. PICK n, f, b : Flat(rows, m, n, f, b) /\ Straight(f, n, ch)
  BY DEF Ranks
<1>2. /\ i \in 1 .. m /\ j \in 1 .. Len(rows[i])
      /\ j # 1 \/ i # 1 => rows[i][j].key <= 0
  BY DEF Guides
<1> DEFINE p == (b[i] + j) - 1
<1>3. p \in 1 .. n /\ f[p] = rows[i][j] /\ b[i] \in Int /\ b[i + 1] = b[i] + Len(rows[i]) /\ Len(rows[i]) \in Nat
  <2>1. Flat(rows, m, n, f, b) /\ i \in 1 .. m /\ j \in 1 .. Len(rows[i])
    BY <1>1, <1>2
  <2> QED
    BY ONLY <2>1, FlatAt
<1>4. m \in Nat \ {0} /\ n \in Nat /\ b[1] = 1 /\ f \in Seq(Entry) /\ Len(f) = n
      /\ \A x, y \in 1 .. m + 1 : x <= y => b[x] <= b[y]
  BY <1>1 DEF Flat
<1>5. j # 1 \/ i # 1 => p >= 2
  <2>1. CASE i = 1
    BY <1>2, <1>3, <1>4, <2>1
  <2>2. CASE i # 1
    <3>1. 1 \in 1 .. m /\ 2 \in 1 .. m + 1 /\ 2 <= i /\ i \in 1 .. m + 1
      BY <1>2, <1>4, <2>2
    <3>2. b[2] <= b[i]
      BY <1>4, <3>1
    <3>3. b[1 + 1] = b[1] + Len(rows[1]) /\ Len(rows[1]) \in Nat
      <4>1. 1 \in 1 .. Len(rows[1])
        <5>1. rows[1] \in Seq(Entry)
          BY <1>1, <3>1 DEF Flat
        <5>2. Len(rows[1]) >= 1
          BY <3>1
        <5> QED
          BY <5>1, <5>2
      <4> QED
        BY <1>1, <3>1, <4>1, FlatAt
    <3>4. b[2] >= 2
      <4>1. Len(rows[1]) >= 1
        BY <3>1
      <4> QED
        BY <1>4, <3>3, <4>1
    <3>5. b[2] \in Int /\ b[i] \in Int /\ j \in Int /\ j >= 1
      <4>1. b[2] \in Int
        BY ONLY <1>4, <3>3
      <4>2. Len(rows[i]) \in Nat /\ j \in 1 .. Len(rows[i])
        BY <1>2, <1>3
      <4> QED
        BY ONLY <1>3, <4>1, <4>2
    <3> QED
      BY ONLY <3>2, <3>4, <3>5
  <2> QED
    BY <2>1, <2>2
<1>6. p >= 2 => rows[i][j].key > 0
  <2>1. p >= 2 => p \in 2 .. n
    BY <1>3, <1>4
  <2>2. \A q \in 2 .. n : f[q].key > 0
    BY <1>1 DEF Straight
  <2> QED
    BY <1>3, <2>1, <2>2
<1>7. rows[i][j].key \in Int
  <2>1. f[p] \in Entry
    BY <1>3, <1>4
  <2> QED
    BY <1>3, <2>1 DEF Entry
<1> QED
  BY <1>2, <1>5, <1>6, <1>7

\* A walk begins before the first leaf.
LEMMA StartInOrder ==
    ASSUME IInv, InKeyOrder, MaxLevels <= 2, NEW bits, StartDelete(bits)
    PROVE  /\ InKeyOrder' /\ leaf' = leaf /\ walk' # Idle /\ walk'.bits = bits
           /\ Swept(walk', node', root', levels', leaf')
<1> DEFINE x == walk'
           path == Probe(0)
           hold == [l \in 1 .. levels |-> NIL]
<1>1. /\ walk = Idle /\ leaf' = leaf /\ node' = node /\ root' = root /\ levels' = levels /\ super' = super
      /\ x = WalkOf("leaf", bits, levels, path, hold, NIL, LeafOf(0))
  BY DEF StartDelete, WalkOf
<1> HIDE DEF path, hold
<1>2. x.at = "leaf" /\ x.bits = bits /\ x.path = path /\ x # Idle
  <2>1. x.at = "leaf" /\ x.bits = bits /\ x.path = path
    BY <1>1, WalkFields
  <2>2. Idle.at = "idle"
    BY DEF Idle
  <2> QED
    BY <2>1, <2>2
<1>3. /\ levels \in 1 .. MaxLevels /\ super.root \in Sectors /\ super.levels \in 1 .. MaxLevels
      /\ Headed(node, root, levels) /\ InLine(node, root, levels, ChunksIn(leaf))
  BY DEF InKeyOrder
<1>4. InKeyOrder'
  <2>1. ChunksIn(leaf)' = ChunksIn(leaf)
    BY <1>1 DEF ChunksIn
  <2> QED
    BY <1>1, <1>3, <2>1 DEF InKeyOrder
<1>5. levels \in 1 .. 2
  BY <1>3, TreeAssumption
<1>6. PICK rows, m : RowsAre(node, root, levels, rows, m) /\ Ranks(rows, m, ChunksIn(leaf))
  BY <1>3 DEF InLine
<1>7. Filling(node) /\ (\E lv : Tree(lv)) /\ \A s \in DOMAIN node : node[s] # <<>>
  BY <1>1, AtRest
<1>8. PICK lv : Tree(lv)
  BY <1>7
<1>9. \A k \in 1 .. m : Len(rows[k]) >= 1
  <2>1. Rooted(DOMAIN leaf, node, root, levels, lv)
    BY <1>8 DEF Rooted, Tree
  <2>2. m = LowCount(node, root, levels) /\ \A k \in 1 .. m : rows[k] = node[LowNode(node, root, levels, k)]
    BY <1>6 DEF RowsAre
  <2>3. \A k \in 1 .. m : LowNode(node, root, levels, k) \in DOMAIN node
    BY <1>5, <2>1, <2>2, LowNodesAre
  <2>4. \A s \in DOMAIN node : Len(node[s]) >= 1
    BY <1>7, TreeAssumption DEF Filling
  <2> QED
    BY <2>2, <2>3, <2>4
<1> DEFINE i == RowAt(path, levels)
           j == EntryAt(path, levels)
<1>10. Guides(rows, m, i, j, 0)
  <2>1. path = Probe(0) /\ i = RowAt(path, levels) /\ j = EntryAt(path, levels) /\ 0 \in Nat
    BY DEF path
  <2> HIDE DEF i, j
  <2> QED
    BY <1>3, <1>5, <1>6, <1>7, <1>8, <2>1, ProbeGuides
<1>11. i = 1 /\ j = 1
  <2> HIDE DEF i, j
  <2> QED
    BY <1>6, <1>9, <1>10, RanksFirst
<1>12. RowDue(x, levels, m) = 1 /\ EntryDue(x, levels) = 1
  BY <1>2, <1>11 DEF RowDue, EntryDue
<1>13. Cleaned(leaf, rows, m, 1, 1, x.bits)
  BY DEF Cleaned
<1>14. Swept(x, node, root, levels, leaf)
  BY <1>6, <1>12, <1>13, SweptBy
<1> QED
  BY <1>1, <1>2, <1>4, <1>14

\* Every leaf is at a place of the order.
LEMMA AllPlaced ==
    ASSUME NEW rows, NEW m, NEW ch, Ranks(rows, m, ch), NEW s, s \in DOMAIN ch
    PROVE  m \in Nat /\ \E k \in 1 .. m : \E h \in 1 .. Len(rows[k]) : rows[k][h].sector = s
<1>1. PICK n, f, b : Flat(rows, m, n, f, b) /\ Straight(f, n, ch)
  BY DEF Ranks
<1>2. PICK p \in 1 .. n : f[p].sector = s
  BY <1>1 DEF Straight
<1>3. \E k \in 1 .. m : \E h \in 1 .. Len(rows[k]) : p = (b[k] + h) - 1 /\ f[p] = rows[k][h]
  BY <1>1, FlatFrom
<1>4. m \in Nat
  BY <1>1 DEF Flat
<1> QED
  BY <1>2, <1>3, <1>4

\* A walk is at its end.
LEMMA FinishInOrder ==
    ASSUME IInv, InKeyOrder, FinishDelete
    PROVE  /\ InKeyOrder' /\ leaf' = leaf /\ walk # Idle /\ walk' = Idle
           /\ snapmask' = snapmask \ walk.bits
           /\ Swept(walk, node, root, levels, leaf) => \A s \in DOMAIN leaf : Clean(leaf[s], walk.bits)
<1> DEFINE w == walk
           D == DOMAIN leaf
<1>1. /\ walk.at = "shrink" /\ leaf' = leaf /\ node' = node /\ root' = root /\ levels' = levels
      /\ snapmask' = snapmask \ walk.bits /\ walk' = Idle
      /\ super'.root = root /\ super'.levels = levels
  BY DEF FinishDelete
<1>2. PICK lv : Rooted(D, node, root, levels, lv)
  BY DEF IInv, Sound
<1>3. root \in Sectors
  BY <1>2 DEF Rooted, Forest, Levelled
<1>4. /\ levels \in 1 .. MaxLevels
      /\ Headed(node, root, levels) /\ InLine(node, root, levels, ChunksIn(leaf))
  BY DEF InKeyOrder
<1>5. InKeyOrder'
  <2>1. ChunksIn(leaf)' = ChunksIn(leaf)
    BY <1>1 DEF ChunksIn
  <2> QED
    BY <1>1, <1>3, <1>4, <2>1 DEF InKeyOrder
<1>6. walk # Idle
  <2>1. Idle.at = "idle"
    BY DEF Idle
  <2> QED
    BY <1>1, <2>1
<1>7. PICK rows, m : RowsAre(node, root, levels, rows, m) /\ Ranks(rows, m, ChunksIn(leaf))
  BY <1>4 DEF InLine
<1>8. ASSUME Swept(walk, node, root, levels, leaf), NEW s \in DOMAIN leaf
      PROVE  Clean(leaf[s], walk.bits)
  <2>1. RowDue(w, levels, m) = m + 1 /\ EntryDue(w, levels) = 1
    BY <1>1 DEF RowDue, EntryDue
  <2>2. Cleaned(leaf, rows, m, m + 1, 1, w.bits)
    BY <1>7, <1>8, <2>1 DEF Swept
  <2>3. s \in DOMAIN ChunksIn(leaf)
    BY DEF ChunksIn
  <2>4. PICK k \in 1 .. m : \E h \in 1 .. Len(rows[k]) : rows[k][h].sector = s
    BY <1>7, <2>3, AllPlaced
  <2>5. m \in Nat /\ k < m + 1
    BY <1>7, <2>3, <2>4, AllPlaced
  <2> QED
    BY <2>2, <2>4, <2>5 DEF Cleaned
<1> QED
  BY <1>1, <1>5, <1>6, <1>8

\* A snapshot is made.
LEMMA CreateInOrder ==
    ASSUME IInv, InKeyOrder, NEW b, CreateSnapshot(b)
    PROVE  /\ InKeyOrder' /\ leaf' = leaf /\ walk = Idle /\ walk' = Idle
           /\ b \in Bit /\ b \notin snapmask /\ snapmask' = snapmask \union {b}
<1>1. /\ leaf' = leaf /\ node' = node /\ root' = root /\ levels' = levels
      /\ walk = Idle /\ walk' = Idle /\ b \in Bit /\ b \notin snapmask /\ snapmask' = snapmask \union {b}
      /\ super'.root = root /\ super'.levels = levels
  BY DEF CreateSnapshot
<1>2. PICK lv : Rooted(DOMAIN leaf, node, root, levels, lv)
  BY DEF IInv, Sound
<1>3. root \in Sectors
  BY <1>2 DEF Rooted, Forest, Levelled
<1>4. ChunksIn(leaf)' = ChunksIn(leaf)
  BY <1>1 DEF ChunksIn
<1> QED
  BY <1>1, <1>3, <1>4 DEF InKeyOrder

\* The first tree: an entry for an empty leaf.
LEMMA FirstInOrder ==
    ASSUME Init
    PROVE  InKeyOrder /\ Tidy(leaf, snapmask) /\ walk = Idle
<1> DEFINE s == Min(Sectors)
           r == Min(Sectors \ {s})
           e == [key |-> 0, sector |-> s]
           ch == ChunksIn(leaf)
           rows == [k \in 1 .. 1 |-> node[r]]
           b == [k \in 1 .. 1 + 1 |-> k]
<1>1. /\ leaf = [x \in {s} |-> EmptyLeaf] /\ node = [x \in {r} |-> <<e>>]
      /\ root = r /\ levels = 1 /\ super.root = r /\ super.levels = 1 /\ snapmask = {} /\ walk = Idle
  BY DEF Init
<1>2. IInv
  BY StartsSound
<1>3. root \in Sectors /\ s \in Sectors
  <2>1. DOMAIN leaf \in SUBSET Sectors /\ DOMAIN node \in SUBSET Sectors /\ root \in DOMAIN node
    BY <1>2 DEF IInv, Sound, Rooted, Forest, Levelled
  <2> QED
    BY <1>1, <2>1
<1> HIDE DEF s, r
<1>4. s \in DOMAIN leaf /\ leaf[s] = EmptyLeaf /\ DOMAIN leaf = {s} /\ node[r] = <<e>>
  BY <1>1
<1>5. Neat(EmptyLeaf) /\ Rchunks(EmptyLeaf) = {}
  BY EmptyIsNeat
<1>6. Tidy(leaf, snapmask)
  <2>1. \A c : Found(EmptyLeaf, c) = {}
    BY <1>5, NeatFound
  <2> QED
    BY <1>4, <1>5, <2>1 DEF Tidy, SharesFit
<1>7. DOMAIN ch = {s} /\ ch[s] = {}
  BY <1>4, <1>5 DEF ChunksIn
<1> DEFINE list == <<e>>
<1>8. e \in Entry /\ list \in Seq(Entry) /\ Len(list) = 1 /\ list[1] = e /\ e.sector = s
  BY <1>3 DEF Entry
<1> HIDE DEF e, ch
<1>9. RowsAre(node, root, 1, rows, 1)
  BY <1>1 DEF RowsAre, LowCount, LowNode
<1>10. Flat(rows, 1, 1, list, b)
  <2>1. rows[1] = list /\ b[1] = 1 /\ b[1 + 1] = 2 /\ b[2] = 2 /\ b \in [1 .. 1 + 1 -> 1 .. 1 + 1]
    BY <1>4
  <2> HIDE DEF rows, list
  <2>2. \A i \in 1 .. 1 : rows[i] \in Seq(Entry) /\ b[i + 1] = b[i] + Len(rows[i])
    <3> SUFFICES ASSUME NEW i \in 1 .. 1
                 PROVE  rows[i] \in Seq(Entry) /\ b[i + 1] = b[i] + Len(rows[i])
      OBVIOUS
    <3>1. i = 1
      OBVIOUS
    <3>2. rows[1] \in Seq(Entry) /\ Len(rows[1]) = 1
      BY <1>8, <2>1
    <3>3. i + 1 = 2
      BY <3>1
    <3> HIDE DEF b
    <3>4. b[i] = 1 /\ b[i + 1] = 2
      BY ONLY <2>1, <3>1, <3>3
    <3>5. rows[i] \in Seq(Entry) /\ Len(rows[i]) = 1
      BY ONLY <3>1, <3>2
    <3> QED
      BY ONLY <3>4, <3>5
  <2>3. \A i \in 1 .. 1 : \A j \in 1 .. Len(rows[i]) : list[(b[i] + j) - 1] = rows[i][j]
    <3> SUFFICES ASSUME NEW i \in 1 .. 1, NEW j \in 1 .. Len(rows[i])
                 PROVE  list[(b[i] + j) - 1] = rows[i][j]
      OBVIOUS
    <3>1. i = 1
      OBVIOUS
    <3>2. Len(rows[i]) = 1
      BY <1>8, <2>1, <3>1
    <3>3. j = 1
      BY <3>2
    <3>4. (b[i] + j) - 1 = 1
      BY <2>1, <3>1, <3>3
    <3> QED
      BY <2>1, <3>1, <3>3, <3>4
  <2>4. \A i, k \in 1 .. 1 + 1 : i <= k => b[i] <= b[k]
    OBVIOUS
  <2> HIDE DEF b
  <2> QED
    BY <1>8, <2>1, <2>2, <2>3, <2>4 DEF Flat
<1>11. Straight(list, 1, ch)
  <2> HIDE DEF list
  <2> QED
    BY <1>7, <1>8 DEF Straight
<1>12. InLine(node, root, 1, ch)
  <2> HIDE DEF rows, b, list
  <2> QED
    BY <1>9, <1>10, <1>11 DEF InLine, Ranks
<1>13. InKeyOrder
  <2>1. 1 \in 1 .. MaxLevels
    BY TreeAssumption
  <2>2. Headed(node, root, 1)
    BY DEF Headed
  <2> QED
    BY <1>1, <1>3, <1>12, <2>1, <2>2 DEF InKeyOrder, ch
<1> QED
  BY <1>1, <1>6, <1>13

-----------------------------------------------------------------------------
(* The invariant. *)

\* The tree is sound and its leaves are in the order of their keys, also while
\* a deletion is under way. Of the exceptions of a chunk each has a share, of
\* bits that are taken, and no two share a bit. A deletion takes bits that are
\* taken, and has done with the leaves it is past.
OrderInv ==
    /\ IInv
    /\ InKeyOrder
    /\ Tidy(leaf, snapmask)
    /\ walk # Idle => /\ walk.bits # {} /\ walk.bits \subseteq snapmask
                      /\ Swept(walk, node, root, levels, leaf)

\* Bits that no exception is shared by can go.
LEMMA TidyNarrower ==
    ASSUME NEW lf, NEW mask, Tidy(lf, mask), NEW bits, \A s \in DOMAIN lf : Clean(lf[s], bits)
    PROVE  Tidy(lf, mask \ bits)
<1> SUFFICES ASSUME NEW s \in DOMAIN lf, NEW c
             PROVE  Neat(lf[s]) /\ SharesFit(Found(lf[s], c), mask \ bits)
  BY DEF Tidy
<1>1. Neat(lf[s]) /\ SharesFit(Found(lf[s], c), mask)
  BY DEF Tidy
<1>2. \A e \in Found(lf[s], c) : e.share \intersect bits = {}
  BY DEF Clean
<1> QED
  BY <1>1, <1>2 DEF SharesFit

\* The walk's steps keep it.
LEMMA WalkInOrder ==
    ASSUME OrderInv, MaxLevels <= 2, IInv', walk # Idle, walk' # Idle, walk'.bits = walk.bits,
           snapmask' = snapmask, InKeyOrder', Tidy(leaf', snapmask),
           Swept(walk, node, root, levels, leaf) => Swept(walk', node', root', levels', leaf')
    PROVE  OrderInv'
<1>1. walk.bits # {} /\ walk.bits \subseteq snapmask /\ Swept(walk, node, root, levels, leaf)
  BY DEF OrderInv
<1>2. Swept(walk', node', root', levels', leaf')
  BY <1>1
<1>3. Tidy(leaf, snapmask)'
  OBVIOUS
<1>4. Swept(walk, node, root, levels, leaf)'
  BY <1>2
<1> QED
  BY <1>1, <1>3, <1>4 DEF OrderInv

\* Every step keeps it.
LEMMA OrderKeeps ==
    ASSUME MaxLevels <= 2, OrderInv, [Next]_vars
    PROVE  OrderInv'
<1>1. IInv'
  BY NextKeeps DEF OrderInv
<1>2. IInv /\ InKeyOrder /\ Tidy(leaf, snapmask) /\ snapmask \in SUBSET Bit
  BY DEF OrderInv, IInv
<1>3. walk # Idle => walk.bits # {} /\ walk.bits \subseteq snapmask /\ Swept(walk, node, root, levels, leaf)
  BY DEF OrderInv
<1>4. ASSUME NEW b \in Bit, CreateSnapshot(b)
      PROVE  OrderInv'
  <2>1. /\ InKeyOrder' /\ leaf' = leaf /\ walk' = Idle /\ snapmask' = snapmask \union {b}
    BY <1>2, <1>4, CreateInOrder
  <2>2. snapmask \subseteq snapmask \union {b}
    OBVIOUS
  <2>3. Tidy(leaf, snapmask \union {b})
    BY <1>2, <2>2, TidyWider
  <2> QED
    BY <1>1, <2>1, <2>3 DEF OrderInv, Idle
<1>5. ASSUME NEW c \in Chunks, NEW b \in Bit \union {ORIGIN}, MakeUnique(c, b)
      PROVE  OrderInv'
  <2>1. snapmask' = snapmask /\ walk' = walk /\ walk = Idle
    BY <1>5 DEF MakeUnique
  <2> DEFINE new == Min(Pool[c] \ used)
  <2>2. InKeyOrder' /\ Tidy(leaf', snapmask)
    <3>1. snapmask \subseteq Bit /\ snapmask \subseteq snapmask /\ new = Min(Pool[c] \ used)
      BY <1>2
    <3> HIDE DEF new
    <3> QED
      BY <1>2, <1>5, <3>1, MakeInOrder
  <2> QED
    BY <1>1, <2>1, <2>2 DEF OrderInv, Idle
<1>6. ASSUME NEW bits \in SUBSET Bit, StartDelete(bits)
      PROVE  OrderInv'
  <2>1. snapmask' = snapmask /\ bits # {} /\ bits \subseteq snapmask
    BY <1>6 DEF StartDelete
  <2>2. /\ InKeyOrder' /\ leaf' = leaf /\ walk'.bits = bits
        /\ Swept(walk', node', root', levels', leaf')
    BY <1>2, <1>6, StartInOrder
  <2> QED
    BY <1>1, <1>2, <2>1, <2>2 DEF OrderInv
<1>7. ASSUME DeleteLeaf \/ PopNode \/ PushNode \/ DropLevel
      PROVE  OrderInv'
  <2>1. snapmask' = snapmask
    BY <1>7 DEF DeleteLeaf, PopNode, PushNode, DropLevel
  <2>2. walk # Idle
    <3>1. walk.at \in {"leaf", "pop", "push", "shrink"}
      BY <1>7 DEF DeleteLeaf, PopNode, PushNode, DropLevel
    <3> QED
      BY <3>1 DEF Idle
  <2>3. /\ InKeyOrder' /\ walk' # Idle /\ walk'.bits = walk.bits /\ Tidy(leaf', snapmask)
        /\ Swept(walk, node, root, levels, leaf) => Swept(walk', node', root', levels', leaf')
    <3>1. CASE DeleteLeaf
      BY <1>2, <3>1, DeleteInOrder
    <3>2. CASE PopNode
      BY <1>2, <3>2, PopInOrder
    <3>3. CASE PushNode
      BY <1>2, <3>3, PushInOrder
    <3>4. CASE DropLevel
      BY <1>2, <3>4, DropInOrder
    <3> QED
      BY <1>7, <3>1, <3>2, <3>3, <3>4
  <2> QED
    BY <1>1, <2>1, <2>2, <2>3, WalkInOrder
<1>8. ASSUME FinishDelete
      PROVE  OrderInv'
  <2>1. /\ InKeyOrder' /\ leaf' = leaf /\ walk # Idle /\ walk' = Idle /\ snapmask' = snapmask \ walk.bits
        /\ Swept(walk, node, root, levels, leaf) => \A s \in DOMAIN leaf : Clean(leaf[s], walk.bits)
    BY <1>2, <1>8, FinishInOrder
  <2>2. Tidy(leaf, snapmask \ walk.bits)
    BY <1>2, <1>3, <2>1, TidyNarrower
  <2> QED
    BY <1>1, <2>1, <2>2 DEF OrderInv, Idle
<1>9. ASSUME UNCHANGED vars
      PROVE  OrderInv'
  <2>1. /\ leaf' = leaf /\ node' = node /\ root' = root /\ levels' = levels /\ super' = super
        /\ snapmask' = snapmask /\ walk' = walk
    BY <1>9 DEF vars
  <2>2. ChunksIn(leaf)' = ChunksIn(leaf)
    BY <2>1 DEF ChunksIn
  <2>3. InKeyOrder'
    BY <1>2, <2>1, <2>2 DEF InKeyOrder
  <2>4. (walk # Idle)' = (walk # Idle)
    BY <2>1 DEF Idle
  <2> QED
    BY <1>1, <1>2, <1>3, <2>1, <2>3, <2>4 DEF OrderInv
<1> QED
  BY <1>4, <1>5, <1>6, <1>7, <1>8, <1>9 DEF Next, Walk

\* With at most two levels every reachable state has the leaves in the order of
\* their keys, the exceptions of a chunk in one leaf and each bit in one of
\* them, and a deletion leaves no bit behind. On three levels merge_nodes breaks
\* the order: remove_index has left a key of an upper node as it was.
THEOREM TreeKeepsOrder ==
    ASSUME MaxLevels <= 2
    PROVE  Spec => []OrderInv
<1>1. Init => OrderInv
  BY FirstInOrder, StartsSound DEF OrderInv
<1>2. OrderInv /\ [Next]_vars => OrderInv'
  BY OrderKeeps
<1> QED
  BY <1>1, <1>2, PTL DEF Spec

\* No node is empty outside a deletion.
LEMMA NodesAtRest ==
    ASSUME OrderInv, MaxLevels <= 2
    PROVE  /\ levels \in 1 .. 2 /\ \E lv : Tree(lv)
           /\ Headed(node, root, levels) /\ InLine(node, root, levels, ChunksIn(leaf))
           /\ walk = Idle => \A s \in DOMAIN node : node[s] # <<>>
<1>1. IInv /\ InKeyOrder
  BY DEF OrderInv
<1>2. levels \in 1 .. MaxLevels /\ Headed(node, root, levels) /\ InLine(node, root, levels, ChunksIn(leaf))
  BY <1>1 DEF InKeyOrder
<1>3. \E lv : Tree(lv)
  BY <1>1 DEF IInv, Sound, Rooted, Tree
<1>4. walk = Idle => \A s \in DOMAIN node : node[s] # <<>>
  BY <1>1, AtRest
<1>5. levels \in 1 .. 2
  BY <1>2, TreeAssumption
<1> QED
  BY <1>2, <1>3, <1>4, <1>5

\* What probe finds is a leaf, and the only one that may have the chunk.
LEMMA ProbeIsRight ==
    ASSUME OrderInv, MaxLevels <= 2, \A s \in DOMAIN node : node[s] # <<>>, NEW c, c \in Nat
    PROVE  /\ LeafOf(c) \in DOMAIN leaf
           /\ \A s \in DOMAIN leaf : c \in Rchunks(leaf[s]) => s = LeafOf(c)
<1>1. /\ levels \in 1 .. 2 /\ \E lv : Tree(lv)
      /\ Headed(node, root, levels) /\ InLine(node, root, levels, ChunksIn(leaf))
  BY NodesAtRest
<1>2. PICK lv : Tree(lv)
  BY <1>1
<1> DEFINE ch == ChunksIn(leaf)
<1>3. Numbered(ch) /\ DOMAIN ch = DOMAIN leaf /\ \A s \in DOMAIN leaf : ch[s] = Rchunks(leaf[s])
  BY ChunksNumbered DEF OrderInv
<1>4. InLine(node, root, levels, ch)
  BY <1>1
<1> HIDE DEF ch
<1>5. /\ LeafOf(c) \in DOMAIN ch
      /\ \A s \in DOMAIN ch : c \in ch[s] => s = LeafOf(c)
  BY <1>1, <1>2, <1>3, <1>4, LeafOfHas
<1> QED
  BY <1>3, <1>5

\* The chunks of a leaf are numbers.
LEMMA ChunksAreNumbers ==
    ASSUME OrderInv, NEW s \in DOMAIN leaf, NEW c \in Rchunks(leaf[s])
    PROVE  c \in Chunks /\ c \in Nat
<1>1. Neat(leaf[s])
  BY DEF OrderInv, Tidy
<1>2. c \in Chunks
  BY <1>1, NeatFound
<1> QED
  BY <1>2, LeafAssumption

\* Every chunk in a leaf is found there by probe, also in the trees the
\* transactions of a deletion leave on disk: the keys that remove_index and
\* merge_nodes set in the nodes above stay those of the leaves below.
THEOREM ProbeAlwaysFinds ==
    ASSUME MaxLevels <= 2
    PROVE  Spec => []ProbeFinds
<1>1. OrderInv => ProbeFinds
  <2> SUFFICES ASSUME OrderInv, \A s \in DOMAIN node : node[s] # <<>>,
                      NEW s \in DOMAIN leaf, NEW c \in Rchunks(leaf[s])
               PROVE  LeafOf(c) = s
    BY DEF ProbeFinds
  <2>1. c \in Nat
    BY ChunksAreNumbers
  <2> QED
    BY <2>1, ProbeIsRight
<1> QED
  BY <1>1, TreeKeepsOrder, PTL

\* Outside a deletion a lookup finds every chunk, in a tree of one level or two;
\* with three merge_nodes breaks this.
THEOREM LookupFindsOnTwoLevels ==
    ASSUME MaxLevels <= 2
    PROVE  Spec => []LookupFinds
<1>1. OrderInv => LookupFinds
  <2> SUFFICES ASSUME OrderInv, walk = Idle, NEW s \in DOMAIN leaf, NEW c \in Rchunks(leaf[s])
               PROVE  LeafOf(c) = s
    BY DEF LookupFinds
  <2>1. \A t \in DOMAIN node : node[t] # <<>>
    BY NodesAtRest
  <2>2. c \in Nat
    BY ChunksAreNumbers
  <2> QED
    BY <2>1, <2>2, ProbeIsRight
<1> QED
  BY <1>1, TreeKeepsOrder, PTL

\* The half of a split leaf that an exception belongs to has room for it: with
\* two chunks or more each half gets rid of at least the other's, and a leaf of
\* one chunk is never full, as its exceptions have disjoint shares of the bits.
THEOREM SplitsAlwaysMakeRoom ==
    ASSUME MaxLevels <= 2
    PROVE  Spec => []SplitsMakeRoom
<1>1. OrderInv => SplitsMakeRoom
  <2> SUFFICES ASSUME OrderInv, walk = Idle, NEW c \in Chunks, ~HasRoom(leaf[LeafOf(c)], c)
               PROVE  SplitMakesRoom(LeafOf(c), c)
    BY DEF SplitsMakeRoom
  <2> DEFINE s == LeafOf(c)
             l == leaf[s]
  <2>1. s \in DOMAIN leaf
    <3>1. c \in Nat
      BY LeafAssumption
    <3>2. \A t \in DOMAIN node : node[t] # <<>>
      BY NodesAtRest
    <3> QED
      BY <3>1, <3>2, ProbeIsRight
  <2>2. IInv /\ Tidy(leaf, snapmask) /\ snapmask \subseteq Bit /\ Fitting(leaf, used)
    BY DEF OrderInv, IInv
  <2>3. Tidy(leaf, Bit)
    BY <2>2, TidyWider
  <2> HIDE DEF s
  <2>4. Count(l) >= 2
    <3>1. Neat(l) /\ Distinct(l.area) /\ \A d : SharesFit(Found(l, d), Bit)
      BY <2>1, <2>2, <2>3 DEF Tidy, Fitting
    <3>2. ~HasRoom(l, c)
      BY DEF s
    <3> HIDE DEF l
    <3> QED
      BY <3>1, <3>2, RoomForOne
  <2> DEFINE lf2 == SplitAt(leaf, s, NIL)
             key == SplitPoint(leaf[s])
  <2>5. NIL \notin DOMAIN leaf
    <3>1. DOMAIN leaf \in SUBSET Sectors
      BY <2>2 DEF IInv, Sound, Rooted, Forest, Levelled
    <3> QED
      BY <3>1, TreeAssumption DEF NIL
  <2>6. Halved(leaf, lf2, s, NIL, key)
    <3>1. lf2 = SplitAt(leaf, s, NIL) /\ key = SplitPoint(leaf[s])
      OBVIOUS
    <3> HIDE DEF lf2, key
    <3> QED
      BY <2>1, <2>3, <2>4, <2>5, <3>1, TidySplits
  <2>7. Freespace(Head1(l)) >= 3 /\ Freespace(Tail1(l)) >= 3
    <3>1. lf2[s] = Head1(l) /\ lf2[NIL] = Tail1(l)
      BY <2>1, <2>5 DEF SplitAt
    <3> QED
      BY <2>6, <3>1 DEF Halved
  <2>8. Freespace(Head1(l)) \in Int /\ Freespace(Tail1(l)) \in Int
    <3>1. Tidy(lf2, Bit) /\ s \in DOMAIN lf2 /\ NIL \in DOMAIN lf2
      <4>1. lf2 = SplitAt(leaf, s, NIL) /\ key = SplitPoint(leaf[s])
        OBVIOUS
      <4>2. DOMAIN lf2 = DOMAIN leaf \union {NIL}
        BY DEF SplitAt
      <4> HIDE DEF lf2, key
      <4>3. Tidy(lf2, Bit)
        BY <2>1, <2>3, <2>4, <2>5, <4>1, TidySplits
      <4> QED
        BY <2>1, <4>2, <4>3
    <3>2. lf2[s] = Head1(l) /\ lf2[NIL] = Tail1(l)
      BY <2>1, <2>5 DEF SplitAt
    <3> HIDE DEF lf2
    <3>3. Shaped(Head1(l)) /\ Shaped(Tail1(l))
      BY <3>1, <3>2 DEF Tidy, Neat
    <3>4. \A x : Shaped(x) => Freespace(x) \in Int
      <4> SUFFICES ASSUME NEW x, Shaped(x)
                   PROVE  Freespace(x) \in Int
        OBVIOUS
      <4> DEFINE n == Len(x.area)
                 m == Len(x.map)
      <4>1. Freespace(x) = LeafSize - 2 * n - m /\ m \in Nat /\ n \in Nat
        BY FreeIs
      <4> HIDE DEF n, m
      <4> QED
        BY ONLY <4>1, LeafAssumption
    <3> HIDE DEF l
    <3> QED
      BY <3>3, <3>4
  <2>9. \A x : Freespace(x) >= 3 /\ Freespace(x) \in Int => HasRoom(x, c)
    BY DEF HasRoom, Need, EXC, ENTRY
  <2>10. HasRoom(Head1(l), c) /\ HasRoom(Tail1(l), c)
    BY <2>7, <2>8, <2>9
  <2> QED
    BY <2>10 DEF SplitMakesRoom, s
<1> QED
  BY <1>1, TreeKeepsOrder, PTL

\* The types, and every leaf as its operations expect it: the directory in
\* order and clear of the exceptions, the sentinel at the end of the block, no
\* exception without a share. The first leaf's operations establish it, and
\* no insertion, split, merge or squeeze of a leaf loses it.
THEOREM TreeAlwaysTyped ==
    ASSUME MaxLevels <= 2
    PROVE  Spec => []TreeTypeOK
<1>1. ASSUME OrderInv
      PROVE  TreeTypeOK
  <2>1. IInv /\ InKeyOrder /\ Tidy(leaf, snapmask) /\ snapmask \subseteq Bit /\ Fitting(leaf, used)
    BY <1>1 DEF OrderInv, IInv
  <2>2. PICK lv : Rooted(DOMAIN leaf, node, root, levels, lv)
    BY <2>1 DEF IInv, Sound
  <2>3. /\ DOMAIN leaf \subseteq Sectors /\ DOMAIN node \subseteq Sectors
        /\ DOMAIN leaf \intersect DOMAIN node = {} /\ root \in DOMAIN node
    BY <2>2 DEF Rooted, Forest, Levelled
  <2>4. \A s \in DOMAIN node : Len(node[s]) <= AllocPerNode /\ (walk = Idle => node[s] # <<>>)
    <3>1. Sized(node)
      BY <2>1 DEF IInv, Sound
    <3>2. walk = Idle => \A s \in DOMAIN node : node[s] # <<>>
      BY <2>1, AtRest
    <3> QED
      BY <3>1, <3>2 DEF Sized
  <2>5. levels \in 1 .. MaxLevels /\ super.root \in Sectors /\ super.levels \in 1 .. MaxLevels
    BY <2>1 DEF InKeyOrder
  <2>6. used \subseteq StoreChunks
    <3> SUFFICES ASSUME NEW c \in used
                 PROVE  c \in StoreChunks
      OBVIOUS
    <3>1. PICK s \in DOMAIN leaf : c \in ChunkSet(leaf[s].area)
      BY <2>1 DEF Fitting
    <3>2. leaf[s].area \in Seq(Exception)
      BY <2>1 DEF Fitting, Shaped
    <3> DEFINE area == leaf[s].area
    <3> HIDE DEF area
    <3>3. area \in Seq(Exception) /\ c \in ChunkSet(area)
      BY <3>1, <3>2 DEF area
    <3>4. PICK k \in 1 .. Len(area) : c = area[k].chunk
      BY <3>3 DEF ChunkSet
    <3>5. area[k] \in Exception
      BY <3>3
    <3> QED
      BY <3>4, <3>5 DEF Exception
  <2>7. \A s \in DOMAIN leaf : LeafSound(leaf[s])
    <3> SUFFICES ASSUME NEW s \in DOMAIN leaf
                 PROVE  LeafSound(leaf[s])
      OBVIOUS
    <3>1. Neat(leaf[s]) /\ \A c : \A e \in Found(leaf[s], c) : e.share # {}
      BY <2>1 DEF Tidy, SharesFit
    <3> QED
      BY <3>1, NeatIsSound
  <2> QED
    BY <2>1, <2>3, <2>4, <2>5, <2>6, <2>7 DEF TreeTypeOK
<1>2. OrderInv => TreeTypeOK
  BY <1>1
<1> QED
  BY <1>2, TreeKeepsOrder, PTL

\* What is in a changelist: a chunk with an exception that tells the masks apart.
LEMMA ChangelistIs ==
    ASSUME OrderInv, MaxLevels <= 2, walk = Idle, NEW mask1, NEW mask2, NEW c
    PROVE  c \in Changelist(mask1, mask2)
             <=> c \in Chunks /\ \E e \in Exceptions(c) : Differs(e.share, mask1, mask2)
<1>1. LeavesReached = DOMAIN leaf
  <2>1. PICK lv : Tree(lv)
    BY NodesAtRest
  <2>2. IInv
    BY DEF OrderInv
  <2> QED
    BY <2>1, <2>2, TreeAccounted DEF BlocksAccounted, IInv, Sound
<1>2. \A s \in DOMAIN node : node[s] # <<>>
  BY NodesAtRest
<1>3. c \in Changelist(mask1, mask2)
        <=> \E s \in DOMAIN leaf : c \in Rchunks(leaf[s])
                                   /\ \E e \in Found(leaf[s], c) : Differs(e.share, mask1, mask2)
  BY <1>1 DEF Changelist
<1>4. ASSUME NEW s \in DOMAIN leaf, c \in Rchunks(leaf[s])
      PROVE  c \in Chunks /\ s = LeafOf(c)
  <2>1. c \in Chunks /\ c \in Nat
    BY <1>4, ChunksAreNumbers
  <2> QED
    BY <1>2, <1>4, <2>1, ProbeIsRight
<1>5. c \in Chunks => LeafOf(c) \in DOMAIN leaf
  BY <1>2, LeafAssumption, ProbeIsRight
<1>6. \A e : e \in Exceptions(c) => c \in Rchunks(leaf[LeafOf(c)])
  BY DEF Exceptions, Found
<1>7. Exceptions(c) = Found(leaf[LeafOf(c)], c)
  BY DEF Exceptions
<1> QED
  BY <1>3, <1>4, <1>5, <1>6, <1>7

\* A changelist names exactly the chunks that two snapshots see differently,
\* and those in which a snapshot differs from the origin as long as not all bits
\* are taken: the traversal comes to every leaf once, finds every chunk of it
\* and judges it by the exceptions a lookup would find.
THEOREM ChangelistAlwaysRight ==
    ASSUME MaxLevels <= 2
    PROVE  Spec => []ChangelistRight
<1>1. ASSUME OrderInv
      PROVE  ChangelistRight
  <2> SUFFICES ASSUME walk = Idle, NEW b2 \in snapmask
               PROVE  /\ \A b1 \in snapmask : Changelist({b1}, {b2}) = {c \in Chunks : Of(c, b1) # Of(c, b2)}
                      /\ snapmask # Bit => Changelist(Bit, {b2}) = {c \in Chunks : Of(c, b2) # {}}
    BY DEF ChangelistRight
  <2>1. ASSUME NEW b1 \in snapmask
        PROVE  Changelist({b1}, {b2}) = {c \in Chunks : Of(c, b1) # Of(c, b2)}
    <3>1. ASSUME NEW c
          PROVE  (\E e \in Exceptions(c) : Differs(e.share, {b1}, {b2})) <=> Of(c, b1) # Of(c, b2)
      <4>1. \A e : Differs(e.share, {b1}, {b2}) <=> ~(b2 \in e.share <=> b1 \in e.share)
        BY DEF Differs
      <4>2. \A e, b : e \in Of(c, b) <=> e \in Exceptions(c) /\ b \in e.share
        BY DEF Of
      <4>3. ASSUME Of(c, b1) # Of(c, b2)
            PROVE  \E e : ~(e \in Of(c, b1) <=> e \in Of(c, b2))
        BY <4>3
      <4> QED
        BY <4>1, <4>2, <4>3
    <3>2. \A c : c \in Changelist({b1}, {b2}) <=> c \in Chunks /\ Of(c, b1) # Of(c, b2)
      BY <1>1, <3>1, ChangelistIs
    <3> QED
      BY <3>2
  <2>2. ASSUME snapmask # Bit
        PROVE  Changelist(Bit, {b2}) = {c \in Chunks : Of(c, b2) # {}}
    <3>1. ASSUME NEW c \in Chunks
          PROVE  (\E e \in Exceptions(c) : Differs(e.share, Bit, {b2})) <=> Of(c, b2) # {}
      <4>1. \A e \in Exceptions(c) : e.share \subseteq snapmask
        <5>1. LeafOf(c) \in DOMAIN leaf
          <6>1. c \in Nat
            BY LeafAssumption
          <6>2. \A t \in DOMAIN node : node[t] # <<>>
            BY <1>1, NodesAtRest
          <6> QED
            BY <1>1, <6>1, <6>2, ProbeIsRight
        <5> QED
          BY <1>1, <5>1 DEF OrderInv, Tidy, SharesFit, Exceptions
      <4>2. snapmask \subseteq Bit
        BY <1>1 DEF OrderInv, IInv
      <4>3. \A e \in Exceptions(c) : ~(Bit \subseteq e.share)
        BY <2>2, <4>1, <4>2
      <4>4. \A e \in Exceptions(c) : Differs(e.share, Bit, {b2}) <=> b2 \in e.share
        BY <4>3 DEF Differs
      <4> QED
        BY <4>4 DEF Of
    <3>2. \A c : c \in Changelist(Bit, {b2}) <=> c \in Chunks /\ Of(c, b2) # {}
      BY <1>1, <3>1, ChangelistIs
    <3> QED
      BY <3>2
  <2> QED
    BY <2>1, <2>2
<1>2. OrderInv => ChangelistRight
  BY <1>1
<1> QED
  BY <1>2, TreeKeepsOrder, PTL

-----------------------------------------------------------------------------
(* The tree implements the map.                                              *)

\* Wherever the exceptions of a chunk are looked for, they are all there are.
ContentsRight == \A c \in Chunks : Contents(c) = FoundIn(leaf, c)

\* They are: outside a deletion because probe finds the one leaf that has them.
LEMMA ContentsAre ==
    ASSUME MaxLevels <= 2, OrderInv
    PROVE  ContentsRight
<1> SUFFICES ASSUME NEW c \in Chunks
             PROVE  Contents(c) = FoundIn(leaf, c)
  BY DEF ContentsRight
<1>1. Contents(c) = UNION {Found(leaf[s], c) : s \in Holding(c)}
  BY DEF Contents
<1>2. CASE walk = Idle
  <2>1. /\ LeafOf(c) \in DOMAIN leaf
        /\ \A s \in DOMAIN leaf : c \in Rchunks(leaf[s]) => s = LeafOf(c)
    <3>1. c \in Nat
      BY LeafAssumption
    <3>2. \A t \in DOMAIN node : node[t] # <<>>
      BY <1>2, NodesAtRest
    <3> QED
      BY <3>1, <3>2, ProbeIsRight
  <2>2. Contents(c) = Found(leaf[LeafOf(c)], c)
    BY <1>1, <1>2 DEF Holding
  <2>3. FoundIn(leaf, c) = Found(leaf[LeafOf(c)], c)
    <3>1. Tidy(leaf, snapmask)
      BY DEF OrderInv
    <3> DEFINE s == LeafOf(c)
    <3>2. s \in DOMAIN leaf /\ \A t \in DOMAIN leaf : c \in Rchunks(leaf[t]) => t = s
      BY <2>1
    <3> HIDE DEF s
    <3>3. FoundIn(leaf, c) = Found(leaf[s], c)
      BY ONLY <3>1, <3>2, OneLeafHas
    <3> QED
      BY <3>3 DEF s
  <2> QED
    BY <2>2, <2>3
<1>3. CASE walk # Idle
  BY <1>1, <1>3 DEF Holding, FoundIn
<1> QED
  BY <1>2, <1>3

\* The exceptions are those of leaves, at chunks of the store that are marked.
LEMMA FoundAreUsed ==
    ASSUME OrderInv, NEW c, NEW e \in FoundIn(leaf, c)
    PROVE  e \in Exception /\ e.chunk \in used
<1>1. PICK s \in DOMAIN leaf : e \in Found(leaf[s], c)
  BY DEF FoundIn
<1>2. Neat(leaf[s]) /\ Fitting(leaf, used)
  BY DEF OrderInv, Tidy, IInv
<1>3. e \in Exception /\ \E k \in 1 .. Len(leaf[s].area) : e = leaf[s].area[k]
  BY <1>1, <1>2, NeatFound
<1>4. e.chunk \in ChunkSet(leaf[s].area)
  BY <1>3 DEF ChunkSet
<1> QED
  BY <1>2, <1>3, <1>4 DEF Fitting

\* What a release leaves of the exceptions.
LEMMA KeptIsCut ==
    ASSUME NEW es, \A e \in es : e \in Exception, NEW bits
    PROVE  Map!Kept(es, bits) = Cut(es, bits)
<1> DEFINE low(x) == [x EXCEPT !.share = @ \ bits]
<1>1. \A x \in es : low(x).share = x.share \ bits
  BY DEF Exception
<1>2. Map!Kept(es, bits) = {e \in {low(x) : x \in es} : e.share # {}}
  BY DEF Map!Kept
<1>3. Cut(es, bits) = {low(x) : x \in {y \in es : ~(y.share \subseteq bits)}}
  BY DEF Cut
<1> HIDE DEF low
<1>4. \A x \in es : low(x).share # {} <=> ~(x.share \subseteq bits)
  BY <1>1
<1> QED
  BY <1>2, <1>3, <1>4

\* The map of a chunk with one exception more.
LEMMA AddedIsNew ==
    ASSUME NEW es, NEW b, NEW new
    PROVE  Map!Added(es, b, new) = WithNew(es, b, new, snapmask)
<1>1. Map!Sharing(es) = SharedBy(es) /\ Map!ORIGIN = ORIGIN
  BY DEF Map!Sharing, SharedBy, Map!ORIGIN, ORIGIN
<1>2. CASE b = ORIGIN
  <2>1. {Less(e, b) : e \in es} = es
    BY <1>2 DEF Less
  <2> QED
    BY <1>1, <1>2, <2>1 DEF Map!Added, WithNew, NewFor
<1>3. CASE b # ORIGIN
  BY <1>1, <1>3 DEF Map!Added, WithNew, NewFor, Less
<1> QED
  BY <1>2, <1>3

\* A step that leaves the exceptions and the bits alone.
LEMMA MapStays ==
    ASSUME ContentsRight, ContentsRight', snapmask' = snapmask, walk'.bits = walk.bits,
           \A c \in Chunks : FoundIn(leaf', c) = FoundIn(leaf, c)
    PROVE  UNCHANGED Map!mapVars
<1>1. \A c \in Chunks : Contents(c)' = Contents(c)
  BY DEF ContentsRight
<1>2. [c \in Chunks |-> Contents(c)]' = [c \in Chunks |-> Contents(c)]
  BY <1>1
<1> QED
  BY <1>2 DEF Map!mapVars

\* An insertion adds to the map.
LEMMA MakeMaps ==
    ASSUME MaxLevels <= 2, OrderInv, ContentsRight, ContentsRight',
           NEW c \in Chunks, NEW b \in Bit \union {ORIGIN}, MakeUnique(c, b)
    PROVE  Map!Add(c, b)
<1> DEFINE new == Min(Pool[c] \ used)
           exc == [d \in Chunks |-> Contents(d)]
           es == FoundIn(leaf, c)
<1>1. walk = Idle /\ walk' = walk /\ snapmask' = snapmask /\ (b # ORIGIN => b \in snapmask)
  BY DEF MakeUnique
<1>2. /\ OneMade(leaf, leaf', c, b, new, snapmask) /\ new \notin used
      /\ Wanted(es, b, snapmask)
  <2>1. /\ IInv /\ InKeyOrder /\ Tidy(leaf, snapmask) /\ snapmask \subseteq Bit /\ snapmask \subseteq snapmask
        /\ new = Min(Pool[c] \ used)
    BY DEF OrderInv, IInv
  <2> HIDE DEF new, es
  <2> QED
    BY <2>1, MakeInOrder DEF es
<1>3. /\ \A d \in Chunks : exc[d] = FoundIn(leaf, d) /\ exc'[d] = FoundIn(leaf', d)
      /\ DOMAIN exc' = Chunks
  BY DEF ContentsRight
<1>4. \A d \in Chunks \ {c} : exc'[d] = exc[d]
  BY <1>2, <1>3 DEF OneMade
<1>5. exc'[c] = Map!Added(exc[c], b, new)
  BY <1>2, <1>3, AddedIsNew DEF OneMade
<1>6. new \in {e.chunk : e \in exc'[c]}
  <2>1. NewFor(es, b, new, snapmask) \in exc'[c]
    BY <1>2, <1>3 DEF OneMade, WithNew
  <2>2. NewFor(es, b, new, snapmask).chunk = new
    BY DEF NewFor
  <2> QED
    BY <2>1, <2>2
<1>7. new \notin Map!InUse
  <2>1. ASSUME NEW d \in Chunks, NEW e \in exc[d]
        PROVE  e.chunk \in used
    BY <1>3, <2>1, FoundAreUsed
  <2> QED
    BY <1>2, <2>1 DEF Map!InUse
<1>8. IF b = ORIGIN THEN ~(snapmask \subseteq Map!Sharing(exc[c]))
      ELSE b \in snapmask /\ {b} \notin {e.share : e \in exc[c]}
  BY <1>1, <1>2, <1>3 DEF Wanted, Map!Sharing, SharedBy
<1>9. walk.bits = {} /\ walk'.bits = walk.bits /\ Map!ORIGIN = ORIGIN
  BY <1>1 DEF Idle, Map!ORIGIN, ORIGIN
<1> HIDE DEF new
<1> QED
  BY <1>1, <1>3, <1>4, <1>5, <1>6, <1>7, <1>8, <1>9 DEF Map!Add

\* A leaf that is done loses bits of its chunks.
LEMMA DeleteMaps ==
    ASSUME MaxLevels <= 2, OrderInv, ContentsRight, ContentsRight', DeleteLeaf
    PROVE  Map!DropSome
<1> DEFINE exc == [d \in Chunks |-> Contents(d)]
<1>1. snapmask' = snapmask /\ walk.at = "leaf"
  BY DEF DeleteLeaf
<1>2. IInv /\ InKeyOrder /\ Tidy(leaf, snapmask)
  BY DEF OrderInv
<1>3. Shrunk(leaf, leaf', walk.bits) /\ walk'.bits = walk.bits
  BY <1>2, DeleteInOrder
<1>4. walk # Idle
  BY <1>1 DEF Idle
<1>5. walk.bits # {}
  BY <1>4 DEF OrderInv
<1>6. /\ \A d \in Chunks : exc[d] = FoundIn(leaf, d) /\ exc'[d] = FoundIn(leaf', d)
      /\ DOMAIN exc' = Chunks
  BY DEF ContentsRight
<1>7. \A d \in Chunks : exc'[d] \in {exc[d], Map!Kept(exc[d], walk.bits)}
  <2> SUFFICES ASSUME NEW d \in Chunks
               PROVE  exc'[d] \in {exc[d], Map!Kept(exc[d], walk.bits)}
    OBVIOUS
  <2>1. Map!Kept(FoundIn(leaf, d), walk.bits) = Cut(FoundIn(leaf, d), walk.bits)
    BY FoundAreUsed, KeptIsCut
  <2>2. FoundIn(leaf', d) = FoundIn(leaf, d) \/ FoundIn(leaf', d) = Cut(FoundIn(leaf, d), walk.bits)
    BY <1>3 DEF Shrunk
  <2> QED
    BY <1>6, <2>1, <2>2
<1> QED
  BY <1>1, <1>3, <1>5, <1>6, <1>7 DEF Map!DropSome

\* A deletion that ends has taken its bits out of every chunk.
LEMMA FinishMaps ==
    ASSUME MaxLevels <= 2, OrderInv, ContentsRight, ContentsRight', FinishDelete
    PROVE  Map!Released
<1> DEFINE exc == [d \in Chunks |-> Contents(d)]
<1>1. IInv /\ InKeyOrder
  BY DEF OrderInv
<1>2. /\ leaf' = leaf /\ walk # Idle /\ walk' = Idle /\ snapmask' = snapmask \ walk.bits
      /\ Swept(walk, node, root, levels, leaf) => \A s \in DOMAIN leaf : Clean(leaf[s], walk.bits)
  BY <1>1, FinishInOrder
<1>3. walk.bits # {} /\ \A s \in DOMAIN leaf : Clean(leaf[s], walk.bits)
  BY <1>2 DEF OrderInv
<1>4. /\ \A d \in Chunks : exc[d] = FoundIn(leaf, d) /\ exc'[d] = FoundIn(leaf', d)
      /\ DOMAIN exc' = Chunks /\ DOMAIN exc = Chunks
  BY DEF ContentsRight
<1>5. exc' = exc
  <2>1. \A d \in Chunks : Contents(d)' = Contents(d)
    BY <1>2 DEF ContentsRight
  <2> QED
    BY <2>1
<1>6. \A d \in Chunks : Map!Sharing(exc[d]) \intersect walk.bits = {}
  <2> SUFFICES ASSUME NEW d \in Chunks, NEW e \in exc[d]
               PROVE  e.share \intersect walk.bits = {}
    BY DEF Map!Sharing
  <2>1. PICK s \in DOMAIN leaf : e \in Found(leaf[s], d)
    BY <1>4 DEF FoundIn
  <2> QED
    BY <1>3, <2>1 DEF Clean
<1>7. walk'.bits = {}
  BY <1>2 DEF Idle
<1> QED
  BY <1>2, <1>3, <1>5, <1>6, <1>7 DEF Map!Released

\* Every step is one of the map or changes nothing of it.
LEMMA StepMaps ==
    ASSUME MaxLevels <= 2, OrderInv, ContentsRight, ContentsRight', [Next]_vars
    PROVE  [Map!MapNext]_(Map!mapVars)
<1>1. IInv /\ InKeyOrder
  BY DEF OrderInv
<1>2. ASSUME NEW b \in Bit, CreateSnapshot(b)
      PROVE  Map!Create(b)
  <2>1. /\ leaf' = leaf /\ walk = Idle /\ walk' = Idle
        /\ b \in Bit /\ b \notin snapmask /\ snapmask' = snapmask \union {b}
    BY <1>1, <1>2, CreateInOrder
  <2>2. walk.bits = {} /\ walk'.bits = {}
    BY <2>1 DEF Idle
  <2>3. \A c \in Chunks : Contents(c)' = Contents(c)
    BY <2>1 DEF ContentsRight
  <2>4. [c \in Chunks |-> Contents(c)]' = [c \in Chunks |-> Contents(c)]
    BY <2>3
  <2> QED
    BY <2>1, <2>2, <2>4 DEF Map!Create
<1>3. ASSUME NEW bits \in SUBSET Bit, StartDelete(bits)
      PROVE  Map!Release(bits)
  <2>1. walk = Idle /\ bits # {} /\ bits \subseteq snapmask /\ snapmask' = snapmask
    BY <1>3 DEF StartDelete
  <2>2. walk.bits = {}
    BY <2>1 DEF Idle
  <2>3. leaf' = leaf /\ walk'.bits = bits
    BY <1>1, <1>3, StartInOrder
  <2>4. \A c \in Chunks : Contents(c)' = Contents(c)
    BY <2>3 DEF ContentsRight
  <2>5. [c \in Chunks |-> Contents(c)]' = [c \in Chunks |-> Contents(c)]
    BY <2>4
  <2> QED
    BY <2>1, <2>2, <2>3, <2>5 DEF Map!Release
<1>4. ASSUME PopNode \/ PushNode \/ DropLevel
      PROVE  UNCHANGED Map!mapVars
  <2>1. snapmask' = snapmask
    BY <1>4 DEF PopNode, PushNode, DropLevel
  <2>2. leaf' = leaf /\ walk'.bits = walk.bits
    <3>1. CASE PopNode
      BY <1>1, <3>1, PopInOrder
    <3>2. CASE PushNode
      BY <1>1, <3>2, PushInOrder
    <3>3. CASE DropLevel
      BY <1>1, <3>3, DropInOrder
    <3> QED
      BY <1>4, <3>1, <3>2, <3>3
  <2> QED
    BY <2>1, <2>2, MapStays
<1>5. ASSUME UNCHANGED vars
      PROVE  UNCHANGED Map!mapVars
  <2>1. leaf' = leaf /\ snapmask' = snapmask /\ walk'.bits = walk.bits
    BY <1>5 DEF vars
  <2> QED
    BY <2>1, MapStays
<1>6. CASE \E c \in Chunks, b \in Bit \union {ORIGIN} : MakeUnique(c, b)
  <2>1. Map!ORIGIN = ORIGIN
    BY DEF Map!ORIGIN, ORIGIN
  <2> QED
    BY <1>6, <2>1, MakeMaps DEF Map!MapNext
<1>7. CASE DeleteLeaf
  BY <1>7, DeleteMaps DEF Map!MapNext
<1>8. CASE FinishDelete
  BY <1>8, FinishMaps DEF Map!MapNext
<1>9. CASE \E b \in Bit : CreateSnapshot(b)
  BY <1>2, <1>9 DEF Map!MapNext
<1>10. CASE \E bits \in SUBSET Bit : StartDelete(bits)
  BY <1>3, <1>10 DEF Map!MapNext
<1> QED
  BY <1>4, <1>5, <1>6, <1>7, <1>8, <1>9, <1>10 DEF Next, Walk

\* No chunk has an exception in the first tree.
LEMMA FirstMaps ==
    ASSUME MaxLevels <= 2, Init, ContentsRight
    PROVE  Map!MapInit
<1>1. leaf = [x \in {Min(Sectors)} |-> EmptyLeaf] /\ snapmask = {} /\ walk = Idle
  BY DEF Init
<1>2. \A c : Found(EmptyLeaf, c) = {}
  BY EmptyIsNeat, NeatFound
<1>3. \A c \in Chunks : Contents(c) = {}
  BY <1>1, <1>2 DEF ContentsRight, FoundIn
<1>4. walk.bits = {}
  BY <1>1 DEF Idle
<1>5. [c \in Chunks |-> Contents(c)] = [c \in Chunks |-> {}]
  BY <1>3
<1> QED
  BY <1>1, <1>4, <1>5 DEF Map!MapInit

\* The tree implements the map: what a lookup finds for a chunk changes only as
\* the map says, through every split and merge of leaves and nodes. An insertion
\* adds the new exception to its chunk and touches no other chunk, each leaf of a
\* deletion loses the bits or keeps them, and when the deletion ends no exception
\* has them.
THEOREM TreeImplementsMap ==
    ASSUME MaxLevels <= 2
    PROVE  Spec => ImplementsMap
<1>1. OrderInv => ContentsRight
  BY ContentsAre
<1>2. Spec => []OrderInv
  BY TreeKeepsOrder
<1>3. Init /\ ContentsRight => Map!MapInit
  BY FirstMaps
<1>4. OrderInv /\ ContentsRight /\ ContentsRight' /\ [Next]_vars => [Map!MapNext]_(Map!mapVars)
  BY StepMaps
<1> QED
  BY <1>1, <1>2, <1>3, <1>4, PTL DEF Spec, ImplementsMap, Map!MapSpec
===============================================================================
