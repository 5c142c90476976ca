----------------------------- MODULE ETreeProofs -----------------------------
(***************************************************************************)
(* Proofs about the exception tree: for any numbers of chunks, snapshots,  *)
(* metadata blocks, entries and levels, no block of the metadata is lost   *)
(* or in two places, and the chunks marked in the bitmap are those of the  *)
(* exceptions, each of one.                                                *)
(*                                                                         *)
(* The argument has three parts. The index is a forest: every block has a  *)
(* level, and each one but the tops is in one entry of one node, of the    *)
(* level above. An insertion and a merge are composed of steps that keep a *)
(* forest: a block becomes a top, gets a parent, loses it, or goes. The    *)
(* walk of a deletion is somewhere in that forest: its path leads down     *)
(* from the root, and the nodes it holds are the ones before those of the  *)
(* path, so that what it merges and removes is what the steps expect. The  *)
(* leaves are described by the chunks of the store they have.              *)
(*                                                                         *)
(* Nothing here is about the order of the keys: see ETreeOrderProofs.      *)
(***************************************************************************)
EXTENDS ELeafProofs

-----------------------------------------------------------------------------
(* The index as a forest. *)

\* An entry of an index node.
Entry == [key : Int, sector : Sectors]

\* The blocks of the leaves and of the index nodes.
Blocks(leafs, index) == leafs \union DOMAIN index

\* Index nodes on levels 1 .. depth over leaves on level depth + 1.
Levelled(leafs, index, tops, depth, lv) ==
    /\ depth \in Nat \ {0}
    /\ leafs \in SUBSET Sectors
    /\ DOMAIN index \in SUBSET Sectors
    /\ leafs \intersect DOMAIN index = {}
    /\ index \in [DOMAIN index -> Seq(Entry)]
    /\ tops \in SUBSET Blocks(leafs, index)
    /\ lv \in [Blocks(leafs, index) -> 1 .. depth + 1]
    /\ \A b \in Blocks(leafs, index) : b \in leafs <=> lv[b] = depth + 1

\* An entry leads to a block of the next level, which is no top.
Hanging(leafs, index, tops, lv) ==
    \A s \in DOMAIN index : \A i \in 1 .. Len(index[s]) :
        /\ index[s][i].sector \in Blocks(leafs, index) \ tops
        /\ lv[index[s][i].sector] = lv[s] + 1

\* No two entries lead to the same block.
Once(index) ==
    \A s, t \in DOMAIN index : \A i \in 1 .. Len(index[s]), j \in 1 .. Len(index[t]) :
        index[s][i].sector = index[t][j].sector => s = t /\ i = j

\* Some entry leads to block b.
InEntry(index, b) == \E s \in DOMAIN index : \E i \in 1 .. Len(index[s]) : index[s][i].sector = b

\* A forest: every block but the tops is in one entry of one node, which is on
\* the level above.
Forest(leafs, index, tops, depth, lv) ==
    /\ Levelled(leafs, index, tops, depth, lv)
    /\ Hanging(leafs, index, tops, lv)
    /\ Once(index)
    /\ \A b \in Blocks(leafs, index) \ tops : InEntry(index, b)

\* The levels of the blocks of S are the same.
SameOn(S, lv, lw) == \A b \in S : lw[b] = lv[b]

\* A block that has no parent is put under a node of the level above.
LEMMA KidPutIn ==
    ASSUME NEW leafs, NEW index, NEW tops, NEW depth, NEW lv,
           Forest(leafs, index, tops, depth, lv),
           NEW s \in DOMAIN index, NEW i \in 1 .. Len(index[s]) + 1, NEW e \in Entry,
           e.sector \in tops, lv[e.sector] = lv[s] + 1
    PROVE  Forest(leafs, [index EXCEPT ![s] = InsertAt(@, i, e)], tops \ {e.sector}, depth, lv)
<1> DEFINE new == [index EXCEPT ![s] = InsertAt(@, i, e)]
           q == InsertAt(index[s], i, e)
<1>1. index[s] \in Seq(Entry)
  BY DEF Forest, Levelled
<1>2. /\ q \in Seq(Entry)
      /\ Len(q) = Len(index[s]) + 1
      /\ \A j \in 1 .. Len(index[s]) + 1 :
           q[j] = IF j < i THEN index[s][j] ELSE IF j = i THEN e ELSE index[s][j - 1]
  <2> DEFINE list == index[s]
  <2>1. list \in Seq(Entry) /\ i \in 1 .. Len(list) + 1 /\ q = InsertAt(list, i, e)
    BY <1>1
  <2> HIDE DEF list, q
  <2>2. /\ q \in Seq(Entry) /\ Len(q) = Len(list) + 1
        /\ \A j \in 1 .. Len(list) + 1 :
             q[j] = IF j < i THEN list[j] ELSE IF j = i THEN e ELSE list[j - 1]
    <3>1. q \in Seq(Entry) /\ Inserted(list, i, e, q)
      BY <2>1, InsertAtIs
    <3> QED
      BY <3>1 DEF Inserted
  <2> QED
    BY <2>2 DEF list
<1>3. /\ DOMAIN new = DOMAIN index
      /\ new[s] = q
      /\ \A t \in DOMAIN index : t # s => new[t] = index[t]
  <2>1. new = [index EXCEPT ![s] = q]
    OBVIOUS
  <2> HIDE DEF q, new
  <2> QED
    BY <2>1
<1>4. Len(index[s]) \in Nat
  BY <1>1
<1> HIDE DEF q
<1>6. new \in [DOMAIN new -> Seq(Entry)]
  <2>1. \A t \in DOMAIN index : new[t] \in Seq(Entry)
    BY <1>2, <1>3 DEF Forest, Levelled
  <2>2. new = [t \in DOMAIN index |-> new[t]]
    BY <1>3
  <2> HIDE DEF new
  <2> QED
    BY <1>3, <2>1, <2>2
<1> HIDE DEF new
<1>5. Blocks(leafs, new) = Blocks(leafs, index)
  BY <1>3 DEF Blocks
<1>7. ASSUME NEW t \in DOMAIN index, NEW j \in 1 .. Len(new[t])
      PROVE  \/ t = s /\ j = i /\ new[t][j] = e
             \/ t = s /\ j < i /\ j \in 1 .. Len(index[s]) /\ new[t][j] = index[s][j]
             \/ t = s /\ j > i /\ j - 1 \in 1 .. Len(index[s]) /\ new[t][j] = index[s][j - 1]
             \/ t # s /\ j \in 1 .. Len(index[t]) /\ new[t][j] = index[t][j]
  BY <1>2, <1>3, <1>4
<1>8. Hanging(leafs, new, tops \ {e.sector}, lv)
  <2> SUFFICES ASSUME NEW t \in DOMAIN index, NEW j \in 1 .. Len(new[t])
               PROVE  /\ new[t][j].sector \in Blocks(leafs, index) \ (tops \ {e.sector})
                      /\ lv[new[t][j].sector] = lv[t] + 1
    BY <1>3, <1>5 DEF Hanging
  <2>1. \A u \in DOMAIN index : \A k \in 1 .. Len(index[u]) :
          /\ index[u][k].sector \in Blocks(leafs, index) \ tops
          /\ lv[index[u][k].sector] = lv[u] + 1
    BY DEF Forest, Hanging
  <2>2. e.sector \in Blocks(leafs, index)
    BY DEF Forest, Levelled
  <2>3. \/ t = s /\ new[t][j] = e
        \/ \E k \in 1 .. Len(index[t]) : new[t][j] = index[t][k]
    BY <1>7
  <2> QED
    BY <2>1, <2>2, <2>3
<1>9. Once(new)
  <2> SUFFICES ASSUME NEW t \in DOMAIN index, NEW u \in DOMAIN index,
                      NEW j \in 1 .. Len(new[t]), NEW k \in 1 .. Len(new[u]),
                      new[t][j].sector = new[u][k].sector
               PROVE  t = u /\ j = k
    BY <1>3 DEF Once
  <2>1. \A v \in DOMAIN index : \A m \in 1 .. Len(index[v]) : index[v][m].sector # e.sector
    BY DEF Forest, Hanging
  <2>2. Once(index)
    BY DEF Forest
  <2> DEFINE from(v, m) == IF v = s /\ m > i THEN m - 1 ELSE m
  <2>3. \/ t = s /\ j = i /\ new[t][j] = e
        \/ /\ ~(t = s /\ j = i) /\ from(t, j) \in 1 .. Len(index[t])
           /\ new[t][j] = index[t][from(t, j)]
    BY <1>7
  <2>4. \/ u = s /\ k = i /\ new[u][k] = e
        \/ /\ ~(u = s /\ k = i) /\ from(u, k) \in 1 .. Len(index[u])
           /\ new[u][k] = index[u][from(u, k)]
    BY <1>7
  <2>5. ~(t = s /\ j = i) /\ ~(u = s /\ k = i) /\ t = u /\ from(t, j) = from(u, k) => j = k
    OBVIOUS
  <2> HIDE DEF from
  <2>6. CASE t = s /\ j = i /\ new[t][j] = e
    BY <2>1, <2>4, <2>6
  <2>7. CASE ~(t = s /\ j = i) /\ new[t][j] = index[t][from(t, j)]
    <3>1. ~(u = s /\ k = i)
      BY <2>1, <2>3, <2>4, <2>7
    <3>2. index[t][from(t, j)].sector = index[u][from(u, k)].sector
      BY <2>4, <2>7, <3>1
    <3>3. t = u /\ from(t, j) = from(u, k)
      BY <2>2, <2>3, <2>4, <2>7, <3>1, <3>2 DEF Once
    <3> QED
      BY <2>5, <2>7, <3>1, <3>3
  <2> QED
    BY <2>3, <2>6, <2>7
<1>10. ASSUME NEW b \in Blocks(leafs, index) \ (tops \ {e.sector})
       PROVE  InEntry(new, b)
  <2>1. CASE b = e.sector
    BY <1>2, <1>3, <1>4, <2>1 DEF InEntry
  <2>2. CASE b # e.sector
    <3>1. InEntry(index, b)
      BY <2>2 DEF Forest
    <3>2. PICK t \in DOMAIN index : \E j \in 1 .. Len(index[t]) : index[t][j].sector = b
      BY <3>1 DEF InEntry
    <3>3. PICK j \in 1 .. Len(index[t]) : index[t][j].sector = b
      BY <3>2
    <3>4. \E k \in 1 .. Len(new[t]) : new[t][k] = index[t][j]
      <4>1. CASE t # s
        BY <1>3, <4>1
      <4>2. CASE t = s /\ j < i
        BY <1>2, <1>3, <1>4, <4>2
      <4>3. CASE t = s /\ ~(j < i)
        <5>1. j + 1 \in 1 .. Len(new[s]) /\ new[s][j + 1] = index[s][j]
          BY <1>2, <1>3, <1>4, <4>3
        <5> QED
          BY <4>3, <5>1
      <4> QED
        BY <4>1, <4>2, <4>3
    <3> QED
      BY <1>3, <3>3, <3>4 DEF InEntry
  <2> QED
    BY <2>1, <2>2
<1>11. Levelled(leafs, new, tops \ {e.sector}, depth, lv)
  BY <1>3, <1>5, <1>6 DEF Forest, Levelled
<1>12. Forest(leafs, new, tops \ {e.sector}, depth, lv)
  BY <1>5, <1>8, <1>9, <1>10, <1>11 DEF Forest
<1> QED
  BY <1>12 DEF new

\* An entry is taken out of a node: its block has no parent any more.
LEMMA KidTakenOut ==
    ASSUME NEW leafs, NEW index, NEW tops, NEW depth, NEW lv,
           Forest(leafs, index, tops, depth, lv),
           NEW s \in DOMAIN index, NEW i \in 1 .. Len(index[s])
    PROVE  Forest(leafs, [index EXCEPT ![s] = RemoveAt(@, i)],
                  tops \union {index[s][i].sector}, depth, lv)
<1> DEFINE new == [index EXCEPT ![s] = RemoveAt(@, i)]
           q == RemoveAt(index[s], i)
           kid == index[s][i].sector
           over == tops \union {kid}
<1>1. index[s] \in Seq(Entry) /\ Len(index[s]) \in Nat
  BY DEF Forest, Levelled
<1>2. /\ q \in Seq(Entry)
      /\ Len(q) = Len(index[s]) - 1
      /\ \A j \in 1 .. Len(index[s]) - 1 :
           q[j] = IF j < i THEN index[s][j] ELSE index[s][j + 1]
  <2>1. i \in DOMAIN index[s]
    BY <1>1
  <2> QED
    BY <1>1, <2>1, RemoveAtProperties
<1>3. /\ DOMAIN new = DOMAIN index
      /\ new[s] = q
      /\ \A t \in DOMAIN index : t # s => new[t] = index[t]
  OBVIOUS
<1> HIDE DEF q
<1>4. new \in [DOMAIN new -> Seq(Entry)]
  <2>1. \A t \in DOMAIN index : new[t] \in Seq(Entry)
    BY <1>2, <1>3 DEF Forest, Levelled
  <2>2. new = [t \in DOMAIN index |-> new[t]]
    BY <1>3
  <2> HIDE DEF new
  <2> QED
    BY <1>3, <2>1, <2>2
<1> HIDE DEF new
<1>5. Blocks(leafs, new) = Blocks(leafs, index)
  BY <1>3 DEF Blocks
<1> DEFINE from(v, m) == IF v = s /\ ~(m < i) THEN m + 1 ELSE m
<1>6. ASSUME NEW t \in DOMAIN index, NEW j \in 1 .. Len(new[t])
      PROVE  /\ from(t, j) \in 1 .. Len(index[t])
             /\ new[t][j] = index[t][from(t, j)]
             /\ t = s => from(t, j) # i
  BY <1>1, <1>2, <1>3
<1>7. Once(index) /\ Hanging(leafs, index, tops, lv)
  BY DEF Forest
<1>8. Once(new)
  <2> SUFFICES ASSUME NEW t \in DOMAIN index, NEW u \in DOMAIN index,
                      NEW j \in 1 .. Len(new[t]), NEW k \in 1 .. Len(new[u]),
                      new[t][j].sector = new[u][k].sector
               PROVE  t = u /\ j = k
    BY <1>3 DEF Once
  <2>1. t = u /\ from(t, j) = from(u, k) => j = k
    OBVIOUS
  <2> HIDE DEF from
  <2>2. index[t][from(t, j)].sector = index[u][from(u, k)].sector
    BY <1>6
  <2>3. from(t, j) \in 1 .. Len(index[t]) /\ from(u, k) \in 1 .. Len(index[u])
    BY <1>6
  <2> QED
    BY <1>7, <2>1, <2>2, <2>3 DEF Once
<1>9. Hanging(leafs, new, over, lv)
  <2> SUFFICES ASSUME NEW t \in DOMAIN index, NEW j \in 1 .. Len(new[t])
               PROVE  /\ new[t][j].sector \in Blocks(leafs, index) \ over
                      /\ lv[new[t][j].sector] = lv[t] + 1
    BY <1>3, <1>5 DEF Hanging
  <2> HIDE DEF from
  <2>1. /\ from(t, j) \in 1 .. Len(index[t])
        /\ new[t][j] = index[t][from(t, j)]
        /\ t = s => from(t, j) # i
    BY <1>6
  <2>2. index[t][from(t, j)].sector # kid
    BY <1>7, <2>1 DEF Once
  <2> QED
    BY <1>7, <2>1, <2>2 DEF Hanging
<1>10. ASSUME NEW b \in Blocks(leafs, index) \ over
       PROVE  InEntry(new, b)
  <2>1. InEntry(index, b)
    BY DEF Forest
  <2>2. PICK t \in DOMAIN index : \E j \in 1 .. Len(index[t]) : index[t][j].sector = b
    BY <2>1 DEF InEntry
  <2>3. PICK j \in 1 .. Len(index[t]) : index[t][j].sector = b
    BY <2>2
  <2>4. \E k \in 1 .. Len(new[t]) : new[t][k] = index[t][j]
    <3>1. CASE t # s
      BY <1>3, <3>1
    <3>2. CASE t = s /\ j < i
      BY <1>1, <1>2, <1>3, <3>2
    <3>3. CASE t = s /\ ~(j < i)
      <4>1. j # i
        BY <2>3, <3>3
      <4>2. j - 1 \in 1 .. Len(new[s]) /\ new[s][j - 1] = index[s][j]
        BY <1>1, <1>2, <1>3, <3>3, <4>1
      <4> QED
        BY <3>3, <4>2
    <3> QED
      BY <3>1, <3>2, <3>3
  <2> QED
    BY <1>3, <2>3, <2>4 DEF InEntry
<1>11. kid \in Blocks(leafs, index)
  BY <1>7 DEF Hanging
<1> HIDE DEF kid
<1>12. Levelled(leafs, new, over, depth, lv)
  BY <1>3, <1>4, <1>5, <1>11 DEF Forest, Levelled
<1>13. Forest(leafs, new, over, depth, lv)
  BY <1>5, <1>8, <1>9, <1>10, <1>12 DEF Forest
<1> QED
  BY <1>13 DEF new, kid

\* The later entries of a node go behind those of another one on its level: a
\* split, where the other is new, and a merge, where none stay.
LEMMA KidsMoved ==
    ASSUME NEW leafs, NEW index, NEW tops, NEW depth, NEW lv,
           Forest(leafs, index, tops, depth, lv),
           NEW a \in DOMAIN index, NEW b \in DOMAIN index, a # b, lv[a] = lv[b],
           NEW h \in 0 .. Len(index[b])
    PROVE  Forest(leafs, [index EXCEPT ![a] = @ \o SubSeq(index[b], h + 1, Len(index[b])),
                                       ![b] = SubSeq(@, 1, h)], tops, depth, lv)
<1> DEFINE new  == [index EXCEPT ![a] = @ \o SubSeq(index[b], h + 1, Len(index[b])),
                                 ![b] = SubSeq(@, 1, h)]
           rest == SubSeq(index[b], h + 1, Len(index[b]))
           stay == SubSeq(index[b], 1, h)
           la == Len(index[a])
<1>1. /\ index[a] \in Seq(Entry) /\ la \in Nat
      /\ index[b] \in Seq(Entry) /\ Len(index[b]) \in Nat
  BY DEF Forest, Levelled
<1>2. /\ rest \in Seq(Entry)
      /\ Len(rest) = Len(index[b]) - h
      /\ \A j \in 1 .. Len(index[b]) - h : rest[j] = index[b][h + j]
  BY <1>1, SubSeqProperties
<1>3. /\ stay \in Seq(Entry)
      /\ Len(stay) = h
      /\ \A j \in 1 .. h : stay[j] = index[b][j]
  BY <1>1, SubSeqProperties
<1>4. /\ DOMAIN new = DOMAIN index
      /\ new[a] = index[a] \o rest
      /\ new[b] = stay
      /\ \A t \in DOMAIN index : t # a /\ t # b => new[t] = index[t]
  OBVIOUS
<1>5. new = [t \in DOMAIN index |-> new[t]]
  OBVIOUS
<1> HIDE DEF new, rest, stay
<1>6. /\ new[a] \in Seq(Entry)
      /\ Len(new[a]) = la + Len(rest)
      /\ \A j \in 1 .. la + Len(rest) :
           new[a][j] = IF j <= la THEN index[a][j] ELSE rest[j - la]
  <2> DEFINE both == index[a] \o rest
  <2>1. /\ both \in Seq(Entry)
        /\ Len(both) = la + Len(rest)
        /\ \A j \in 1 .. la + Len(rest) :
             both[j] = IF j <= la THEN index[a][j] ELSE rest[j - la]
    BY <1>1, <1>2, ConcatProperties
  <2>2. new[a] = both
    BY <1>4
  <2> HIDE DEF both
  <2> QED
    BY <2>1, <2>2
<1>7. new \in [DOMAIN new -> Seq(Entry)]
  <2>1. \A t \in DOMAIN index : new[t] \in Seq(Entry)
    BY <1>3, <1>4, <1>6 DEF Forest, Levelled
  <2> QED
    BY <1>4, <1>5, <2>1
<1>8. Blocks(leafs, new) = Blocks(leafs, index)
  BY <1>4 DEF Blocks
<1> HIDE DEF la
<1> DEFINE node_(v, m) == IF v = a /\ m > la THEN b ELSE v
           from(v, m) == IF v = a /\ m > la THEN m - la + h ELSE m
<1>9. ASSUME NEW t \in DOMAIN index, NEW j \in 1 .. Len(new[t])
      PROVE  /\ node_(t, j) \in DOMAIN index
             /\ from(t, j) \in 1 .. Len(index[node_(t, j)])
             /\ new[t][j] = index[node_(t, j)][from(t, j)]
             /\ lv[node_(t, j)] = lv[t]
  <2>1. CASE t = a /\ j > la
    <3>1. j - la \in 1 .. Len(index[b]) - h /\ h + (j - la) = j - la + h
      BY <1>1, <1>2, <1>6, <2>1
    <3>2. new[a][j] = rest[j - la]
      BY <1>1, <1>2, <1>6, <2>1
    <3>3. rest[j - la] = index[b][j - la + h]
      BY <1>2, <3>1
    <3>4. j - la + h \in 1 .. Len(index[b])
      BY <1>1, <3>1
    <3> QED
      BY <2>1, <3>2, <3>3, <3>4
  <2>2. CASE t = a /\ ~(j > la)
    <3>1. node_(t, j) = a /\ from(t, j) = j
      BY <2>2
    <3>2. j \in 1 .. la + Len(rest) /\ j <= la
      BY <1>1, <1>2, <1>6, <2>2
    <3>3. new[a][j] = index[a][j]
      BY <1>6, <3>2
    <3>4. j \in 1 .. Len(index[a])
      BY <3>2 DEF la
    <3> QED
      BY <2>2, <3>1, <3>3, <3>4
  <2>3. CASE t = b
    BY <1>1, <1>3, <1>4, <2>3
  <2>4. CASE t # a /\ t # b
    BY <1>4, <2>4
  <2> QED
    BY <2>1, <2>2, <2>3, <2>4
<1>10. Once(index) /\ Hanging(leafs, index, tops, lv)
  BY DEF Forest
<1>11. Once(new)
  <2> SUFFICES ASSUME NEW t \in DOMAIN index, NEW u \in DOMAIN index,
                      NEW j \in 1 .. Len(new[t]), NEW k \in 1 .. Len(new[u]),
                      new[t][j].sector = new[u][k].sector
               PROVE  t = u /\ j = k
    BY <1>4 DEF Once
  <2>1. node_(t, j) = node_(u, k) /\ from(t, j) = from(u, k) => t = u /\ j = k
    <3>1. t = b => j <= h
      BY <1>3, <1>4
    <3>2. u = b => k <= h
      BY <1>3, <1>4
    <3> QED
      BY <1>1, <3>1, <3>2
  <2> HIDE DEF from, node_
  <2>2. index[node_(t, j)][from(t, j)].sector = index[node_(u, k)][from(u, k)].sector
    BY <1>9
  <2>3. /\ from(t, j) \in 1 .. Len(index[node_(t, j)]) /\ node_(t, j) \in DOMAIN index
        /\ from(u, k) \in 1 .. Len(index[node_(u, k)]) /\ node_(u, k) \in DOMAIN index
    BY <1>9
  <2>4. node_(t, j) = node_(u, k) /\ from(t, j) = from(u, k)
    BY <1>10, <2>2, <2>3 DEF Once
  <2> QED
    BY <2>1, <2>4
<1>12. Hanging(leafs, new, tops, lv)
  <2> SUFFICES ASSUME NEW t \in DOMAIN index, NEW j \in 1 .. Len(new[t])
               PROVE  /\ new[t][j].sector \in Blocks(leafs, index) \ tops
                      /\ lv[new[t][j].sector] = lv[t] + 1
    BY <1>4, <1>8 DEF Hanging
  <2> HIDE DEF from, node_
  <2>1. /\ node_(t, j) \in DOMAIN index
        /\ from(t, j) \in 1 .. Len(index[node_(t, j)])
        /\ new[t][j] = index[node_(t, j)][from(t, j)]
        /\ lv[node_(t, j)] = lv[t]
    BY <1>9
  <2> QED
    BY <1>10, <2>1 DEF Hanging
<1>13. ASSUME NEW x \in Blocks(leafs, index) \ tops
       PROVE  InEntry(new, x)
  <2>1. InEntry(index, x)
    BY DEF Forest
  <2>2. PICK t \in DOMAIN index : \E j \in 1 .. Len(index[t]) : index[t][j].sector = x
    BY <2>1 DEF InEntry
  <2>3. PICK j \in 1 .. Len(index[t]) : index[t][j].sector = x
    BY <2>2
  <2>4. \E u \in DOMAIN index : \E k \in 1 .. Len(new[u]) : new[u][k] = index[t][j]
    <3>1. CASE t = a
      <4>1. j \in 1 .. Len(new[a]) /\ new[a][j] = index[a][j]
        BY <1>1, <1>2, <1>6, <3>1 DEF la
      <4> QED
        BY <3>1, <4>1
    <3>2. CASE t = b /\ j <= h
      <4>1. j \in 1 .. Len(new[b]) /\ new[b][j] = index[b][j]
        BY <1>1, <1>3, <1>4, <3>2
      <4> QED
        BY <3>2, <4>1
    <3>3. CASE t = b /\ ~(j <= h)
      <4> DEFINE k == la + (j - h)
      <4>1. j - h \in 1 .. Len(index[b]) - h /\ h + (j - h) = j /\ j - h \in 1 .. Len(rest)
        BY <1>1, <1>2, <3>3
      <4>2. rest[j - h] = index[b][j]
        BY <1>2, <4>1
      <4>3. k \in 1 .. la + Len(rest) /\ ~(k <= la) /\ k - la = j - h
        BY <1>1, <1>2, <4>1
      <4>4. new[a][k] = rest[j - h]
        BY <1>6, <4>3
      <4> QED
        BY <1>6, <3>3, <4>2, <4>3, <4>4
    <3>4. CASE t # a /\ t # b
      BY <1>4, <3>4
    <3> QED
      BY <3>1, <3>2, <3>3, <3>4
  <2> QED
    BY <1>4, <2>3, <2>4 DEF InEntry
<1>14. Levelled(leafs, new, tops, depth, lv)
  BY <1>4, <1>7, <1>8 DEF Forest, Levelled
<1>15. Forest(leafs, new, tops, depth, lv)
  BY <1>8, <1>11, <1>12, <1>13, <1>14 DEF Forest
<1> QED
  BY <1>15 DEF new

\* A new leaf, not yet under a node.
LEMMA LeafAdded ==
    ASSUME NEW leafs, NEW index, NEW tops, NEW depth, NEW lv,
           Forest(leafs, index, tops, depth, lv),
           NEW n \in Sectors, n \notin Blocks(leafs, index),
           NEW lw \in [Blocks(leafs, index) \union {n} -> 1 .. depth + 1], lw[n] = depth + 1,
           \A b \in Blocks(leafs, index) : lw[b] = lv[b]
    PROVE  Forest(leafs \union {n}, index, tops \union {n}, depth, lw)
<1> DEFINE more == leafs \union {n}
<1>1. Blocks(more, index) = Blocks(leafs, index) \union {n}
  BY DEF Blocks
<1>2. lw[n] = depth + 1 /\ \A b \in Blocks(leafs, index) : lw[b] = lv[b] /\ b # n
  OBVIOUS
<1>3. lw \in [Blocks(leafs, index) \union {n} -> 1 .. depth + 1]
  OBVIOUS
<1>4. DOMAIN index \in SUBSET Blocks(leafs, index)
  BY DEF Blocks
<1>5. Levelled(more, index, tops \union {n}, depth, lw)
  <2>1. \A b \in Blocks(leafs, index) : b \in leafs <=> lv[b] = depth + 1
    BY DEF Forest, Levelled
  <2>2. \A b \in Blocks(leafs, index) \union {n} : b \in more <=> lw[b] = depth + 1
    BY <1>2, <2>1
  <2>3. n \notin DOMAIN index
    BY DEF Blocks
  <2>4. /\ depth \in Nat \ {0} /\ more \in SUBSET Sectors /\ DOMAIN index \in SUBSET Sectors
        /\ more \intersect DOMAIN index = {} /\ index \in [DOMAIN index -> Seq(Entry)]
        /\ tops \union {n} \in SUBSET Blocks(more, index)
    BY <1>1, <2>3 DEF Forest, Levelled
  <2> QED
    BY <1>1, <1>3, <2>2, <2>4 DEF Levelled
<1>6. Hanging(more, index, tops \union {n}, lw)
  BY <1>1, <1>2, <1>4 DEF Forest, Hanging
<1>7. Forest(more, index, tops \union {n}, depth, lw)
  BY <1>1, <1>5, <1>6 DEF Forest
<1> QED
  BY <1>7

\* The index with a node without entries.
WithNode(index, n) == [s \in DOMAIN index \union {n} |-> IF s = n THEN <<>> ELSE index[s]]

\* A new index node without entries.
LEMMA NodeAdded ==
    ASSUME NEW leafs, NEW index, NEW tops, NEW depth, NEW lv,
           Forest(leafs, index, tops, depth, lv),
           NEW n \in Sectors, n \notin Blocks(leafs, index),
           
           NEW lw \in [Blocks(leafs, index) \union {n} -> 1 .. depth + 1], lw[n] # depth + 1,
           \A b \in Blocks(leafs, index) : lw[b] = lv[b]
    PROVE  Forest(leafs, WithNode(index, n), tops \union {n}, depth, lw)
<1> DEFINE new == WithNode(index, n)
<1>1. Blocks(leafs, new) = Blocks(leafs, index) \union {n}
  BY DEF Blocks, WithNode
<1>2. \A b \in Blocks(leafs, index) : lw[b] = lv[b] /\ b # n
  OBVIOUS
<1>3. lw \in [Blocks(leafs, index) \union {n} -> 1 .. depth + 1]
  OBVIOUS
<1>4. DOMAIN index \in SUBSET Blocks(leafs, index)
  BY DEF Blocks
<1>5. /\ DOMAIN new = DOMAIN index \union {n}
      /\ new[n] = <<>>
      /\ \A s \in DOMAIN index : new[s] = index[s]
  BY <1>4 DEF WithNode
<1>6. new \in [DOMAIN new -> Seq(Entry)]
  <2>1. <<>> \in Seq(Entry)
    OBVIOUS
  <2>2. \A s \in DOMAIN index : index[s] \in Seq(Entry)
    BY DEF Forest, Levelled
  <2> QED
    BY <2>1, <2>2 DEF WithNode
<1>7. Len(<<>>) = 0
  OBVIOUS
<1> HIDE DEF new
<1>8. \A s \in DOMAIN new : \A i \in 1 .. Len(new[s]) : s \in DOMAIN index /\ new[s] = index[s]
  BY <1>5, <1>7
<1>9. Levelled(leafs, new, tops \union {n}, depth, lw)
  <2>1. \A b \in Blocks(leafs, index) : b \in leafs <=> lv[b] = depth + 1
    BY DEF Forest, Levelled
  <2>2. n \notin leafs
    BY DEF Blocks
  <2>3. \A b \in Blocks(leafs, index) \union {n} : b \in leafs <=> lw[b] = depth + 1
    <3>1. depth \in Nat
      BY DEF Forest, Levelled
    <3> QED
      BY <1>2, <2>1, <2>2, <3>1
  <2> QED
    BY <1>1, <1>3, <1>5, <1>6, <2>2, <2>3 DEF Forest, Levelled
<1>10. Hanging(leafs, new, tops \union {n}, lw)
  BY <1>1, <1>2, <1>4, <1>8 DEF Forest, Hanging
<1>11. Once(new)
  BY <1>8 DEF Forest, Once
<1>12. ASSUME NEW b \in Blocks(leafs, index) \ tops
       PROVE  InEntry(new, b)
  <2>1. InEntry(index, b)
    BY DEF Forest
  <2> QED
    BY <1>5, <2>1 DEF InEntry
<1>13. Forest(leafs, new, tops \union {n}, depth, lw)
  BY <1>1, <1>9, <1>10, <1>11, <1>12 DEF Forest
<1> QED
  BY <1>13 DEF new

\* A leaf that is under no node goes.
LEMMA LeafDropped ==
    ASSUME NEW leafs, NEW index, NEW tops, NEW depth, NEW lv,
           Forest(leafs, index, tops, depth, lv),
           NEW b \in leafs, b \in tops
    PROVE  \E lw : /\ Forest(leafs \ {b}, index, tops \ {b}, depth, lw)
                   /\ SameOn(Blocks(leafs, index) \ {b}, lv, lw)
<1> DEFINE less == leafs \ {b}
           lw == [x \in Blocks(leafs, index) \ {b} |-> lv[x]]
<1>1. Blocks(less, index) = Blocks(leafs, index) \ {b} /\ b \notin DOMAIN index
  BY DEF Blocks, Forest, Levelled
<1>2. \A x \in Blocks(leafs, index) \ {b} : lw[x] = lv[x]
  OBVIOUS
<1>3. lw \in [Blocks(leafs, index) \ {b} -> 1 .. depth + 1]
  BY DEF Forest, Levelled
<1>4. DOMAIN index \in SUBSET (Blocks(leafs, index) \ {b})
  BY <1>1 DEF Blocks
<1> HIDE DEF lw
<1>5. Levelled(less, index, tops \ {b}, depth, lw)
  BY <1>1, <1>2, <1>3 DEF Forest, Levelled
<1>6. Hanging(less, index, tops \ {b}, lw)
  BY <1>1, <1>2, <1>4 DEF Forest, Hanging
<1>7. Forest(less, index, tops \ {b}, depth, lw)
  BY <1>1, <1>5, <1>6 DEF Forest
<1> QED
  BY <1>2, <1>7 DEF SameOn

\* An index node without entries, under no other, goes.
LEMMA NodeDropped ==
    ASSUME NEW leafs, NEW index, NEW tops, NEW depth, NEW lv,
           Forest(leafs, index, tops, depth, lv),
           NEW b \in DOMAIN index, b \in tops, index[b] = <<>>
    PROVE  \E lw : /\ Forest(leafs, Without(index, b), tops \ {b}, depth, lw)
                   /\ SameOn(Blocks(leafs, index) \ {b}, lv, lw)
<1> DEFINE new == Without(index, b)
           lw == [x \in Blocks(leafs, index) \ {b} |-> lv[x]]
<1>1. /\ DOMAIN new = DOMAIN index \ {b}
      /\ \A s \in DOMAIN index \ {b} : new[s] = index[s]
  BY DEF Without, Restrict
<1>2. new \in [DOMAIN index \ {b} -> Seq(Entry)]
  BY DEF Without, Restrict, Forest, Levelled
<1> HIDE DEF new
<1>3. b \notin leafs /\ Blocks(leafs, new) = Blocks(leafs, index) \ {b}
  BY <1>1 DEF Blocks, Forest, Levelled
<1>4. \A x \in Blocks(leafs, index) \ {b} : lw[x] = lv[x]
  OBVIOUS
<1>5. lw \in [Blocks(leafs, index) \ {b} -> 1 .. depth + 1]
  BY DEF Forest, Levelled
<1>6. DOMAIN new \in SUBSET (Blocks(leafs, index) \ {b})
  BY <1>1 DEF Blocks
<1> HIDE DEF lw
<1>7. Levelled(leafs, new, tops \ {b}, depth, lw)
  BY <1>1, <1>2, <1>3, <1>4, <1>5 DEF Forest, Levelled
<1>8. Hanging(leafs, new, tops \ {b}, lw)
  BY <1>1, <1>3, <1>4, <1>6 DEF Forest, Hanging
<1>9. Once(new)
  BY <1>1 DEF Forest, Once
<1>10. ASSUME NEW x \in Blocks(leafs, index) \ tops
       PROVE  InEntry(new, x)
  <2>1. InEntry(index, x)
    BY DEF Forest
  <2>2. \A i \in 1 .. Len(index[b]) : FALSE
    OBVIOUS
  <2>3. PICK s \in DOMAIN index : \E i \in 1 .. Len(index[s]) : index[s][i].sector = x
    BY <2>1 DEF InEntry
  <2>4. s \in DOMAIN index \ {b}
    BY <2>2, <2>3
  <2> QED
    BY <1>1, <2>3, <2>4 DEF InEntry
<1>11. Forest(leafs, new, tops \ {b}, depth, lw)
  BY <1>3, <1>7, <1>8, <1>9, <1>10 DEF Forest
<1> QED
  BY <1>4, <1>11 DEF new, SameOn

\* Keys do not matter for the shape.
LEMMA KeysSet ==
    ASSUME NEW leafs, NEW index, NEW tops, NEW depth, NEW lv,
           Forest(leafs, index, tops, depth, lv),
           NEW new \in [DOMAIN index -> Seq(Entry)],
           \A s \in DOMAIN index :
              /\ Len(new[s]) = Len(index[s])
              /\ \A i \in 1 .. Len(index[s]) : new[s][i].sector = index[s][i].sector
    PROVE  Forest(leafs, new, tops, depth, lv)
<1>1. DOMAIN new = DOMAIN index /\ Blocks(leafs, new) = Blocks(leafs, index)
  BY DEF Blocks
<1>2. Levelled(leafs, new, tops, depth, lv)
  BY <1>1 DEF Forest, Levelled
<1>3. Hanging(leafs, new, tops, lv)
  BY <1>1 DEF Forest, Hanging
<1>4. Once(new)
  <2>1. Once(index)
    BY DEF Forest
  <2> SUFFICES ASSUME NEW t \in DOMAIN index, NEW u \in DOMAIN index,
                      NEW j \in 1 .. Len(new[t]), NEW k \in 1 .. Len(new[u]),
                      new[t][j].sector = new[u][k].sector
               PROVE  t = u /\ j = k
    BY <1>1 DEF Once
  <2>2. index[t][j].sector = index[u][k].sector /\ j \in 1 .. Len(index[t]) /\ k \in 1 .. Len(index[u])
    OBVIOUS
  <2> QED
    BY <2>1, <2>2 DEF Once
<1>5. ASSUME NEW b \in Blocks(leafs, index) \ tops
      PROVE  InEntry(new, b)
  <2>1. InEntry(index, b)
    BY DEF Forest
  <2> QED
    BY <1>1, <2>1 DEF InEntry
<1> QED
  BY <1>1, <1>2, <1>3, <1>4, <1>5 DEF Forest

\* Room for a level above the tops.
LEMMA LevelAdded ==
    ASSUME NEW leafs, NEW index, NEW tops, NEW depth, NEW lv,
           Forest(leafs, index, tops, depth, lv)
    PROVE  \E lw : /\ Forest(leafs, index, tops, depth + 1, lw)
                   /\ \A b \in Blocks(leafs, index) : lw[b] = lv[b] + 1
<1> DEFINE lw == [b \in Blocks(leafs, index) |-> lv[b] + 1]
<1>1. depth \in Nat \ {0} /\ \A b \in Blocks(leafs, index) : lv[b] \in 1 .. depth + 1
  BY DEF Forest, Levelled
<1>2. lw \in [Blocks(leafs, index) -> 1 .. (depth + 1) + 1]
  BY <1>1
<1>3. \A b \in Blocks(leafs, index) : lw[b] = lv[b] + 1
  OBVIOUS
<1> HIDE DEF lw
<1>4. Levelled(leafs, index, tops, depth + 1, lw)
  <2>1. \A b \in Blocks(leafs, index) : b \in leafs <=> lw[b] = (depth + 1) + 1
    BY <1>1, <1>3 DEF Forest, Levelled
  <2> QED
    BY <1>1, <1>2, <2>1 DEF Forest, Levelled
<1>5. Hanging(leafs, index, tops, lw)
  <2>1. DOMAIN index \in SUBSET Blocks(leafs, index)
    BY DEF Blocks
  <2> QED
    BY <1>1, <1>3, <2>1 DEF Forest, Hanging
<1>6. Forest(leafs, index, tops, depth + 1, lw)
  BY <1>4, <1>5 DEF Forest
<1> QED
  BY <1>3, <1>6

\* No block on the first level: the level goes.
LEMMA LevelDropped ==
    ASSUME NEW leafs, NEW index, NEW tops, NEW depth, NEW lv,
           Forest(leafs, index, tops, depth, lv),
           depth > 1, \A t \in tops : lv[t] > 1
    PROVE  \E lw : /\ Forest(leafs, index, tops, depth - 1, lw)
                   /\ \A b \in Blocks(leafs, index) : lw[b] = lv[b] - 1
<1> DEFINE lw == [b \in Blocks(leafs, index) |-> lv[b] - 1]
<1>1. depth \in Nat \ {0} /\ \A b \in Blocks(leafs, index) : lv[b] \in 1 .. depth + 1
  BY DEF Forest, Levelled
<1>2. ASSUME NEW b \in Blocks(leafs, index)
      PROVE  lv[b] > 1
  <2>1. CASE b \in tops
    BY <2>1
  <2>2. CASE b \notin tops
    <3>1. PICK s \in DOMAIN index : \E i \in 1 .. Len(index[s]) : index[s][i].sector = b
      BY <2>2 DEF Forest, InEntry
    <3>2. s \in Blocks(leafs, index) /\ lv[b] = lv[s] + 1
      BY <3>1 DEF Forest, Hanging, Blocks
    <3> QED
      BY <1>1, <3>2
  <2> QED
    BY <2>1, <2>2
<1>3. lw \in [Blocks(leafs, index) -> 1 .. (depth - 1) + 1]
  BY <1>1, <1>2
<1>4. \A b \in Blocks(leafs, index) : lw[b] = lv[b] - 1
  OBVIOUS
<1> HIDE DEF lw
<1>5. Levelled(leafs, index, tops, depth - 1, lw)
  <2>1. ASSUME NEW b \in Blocks(leafs, index)
        PROVE  b \in leafs <=> lw[b] = (depth - 1) + 1
    <3>1. b \in leafs <=> lv[b] = depth + 1
      BY DEF Forest, Levelled
    <3>2. lv[b] \in Int /\ depth \in Int /\ lw[b] = lv[b] - 1
      BY <1>1, <1>4
    <3> QED
      BY <3>1, <3>2
  <2> QED
    BY <1>1, <1>3, <2>1 DEF Forest, Levelled
<1>6. Hanging(leafs, index, tops, lw)
  <2>1. DOMAIN index \in SUBSET Blocks(leafs, index)
    BY DEF Blocks
  <2>2. ASSUME NEW s \in DOMAIN index, NEW i \in 1 .. Len(index[s])
        PROVE  /\ index[s][i].sector \in Blocks(leafs, index) \ tops
               /\ lw[index[s][i].sector] = lw[s] + 1
    <3>1. /\ index[s][i].sector \in Blocks(leafs, index) \ tops
          /\ lv[index[s][i].sector] = lv[s] + 1 /\ s \in Blocks(leafs, index)
      BY <2>1 DEF Forest, Hanging
    <3> DEFINE b == index[s][i].sector
    <3>2. lw[b] = lv[b] - 1 /\ lw[s] = lv[s] - 1 /\ lv[b] = lv[s] + 1 /\ lv[s] \in Int
      BY <1>1, <1>4, <3>1
    <3> HIDE DEF b
    <3>3. lw[b] = lw[s] + 1
      BY <3>2
    <3> QED
      BY <3>1, <3>3 DEF b
  <2> QED
    BY <2>2 DEF Hanging
<1>7. Forest(leafs, index, tops, depth - 1, lw)
  BY <1>5, <1>6 DEF Forest
<1> QED
  BY <1>4, <1>7

-----------------------------------------------------------------------------
(* Sums over the blocks. *)

\* The positions of lists of these lengths.
Places(S, len) == UNION {{x} \X (1 .. len[x]) : x \in S}

\* A list more: its length more places.
LEMMA PlacesOfMore ==
    ASSUME NEW D, NEW len \in [D -> Nat], NEW S \in SUBSET D, NEW x \in S,
           IsFiniteSet(Places(S \ {x}, len))
    PROVE  /\ IsFiniteSet(Places(S, len))
           /\ Cardinality(Places(S, len)) = len[x] + Cardinality(Places(S \ {x}, len))
<1> DEFINE own == {x} \X (1 .. len[x])
           rest == Places(S \ {x}, len)
<1>1. Places(S, len) = own \union rest /\ own \intersect rest = {}
  BY DEF Places
<1>2. len[x] \in Nat
  OBVIOUS
<1>3. IsFiniteSet(own) /\ Cardinality(own) = len[x]
  <2>1. IsFiniteSet(1 .. len[x]) /\ Cardinality(1 .. len[x]) = len[x]
    BY <1>2, FS_Interval
  <2>2. IsFiniteSet({x}) /\ Cardinality({x}) = 1
    BY FS_Singleton
  <2>3. IsFiniteSet(own) /\ Cardinality(own) = Cardinality({x}) * Cardinality(1 .. len[x])
    BY <2>1, <2>2, FS_Product
  <2> QED
    BY <1>2, <2>1, <2>2, <2>3
<1>4. Cardinality(own \intersect rest) = 0 /\ Cardinality(rest) \in Nat
  BY <1>1, FS_EmptySet, FS_CardinalityType
<1> HIDE DEF own, rest
<1>5. /\ IsFiniteSet(own \union rest)
      /\ Cardinality(own \union rest) = Cardinality(own) + Cardinality(rest) - Cardinality(own \intersect rest)
  BY <1>3, FS_Union DEF rest
<1> QED
  BY <1>1, <1>2, <1>3, <1>4, <1>5 DEF rest

\* Finitely many lists have finitely many places.
LEMMA PlacesFinite ==
    ASSUME NEW D, IsFiniteSet(D), NEW len \in [D -> Nat]
    PROVE  \A S \in SUBSET D : IsFiniteSet(Places(S, len))
<1> DEFINE Good == {n \in Nat : \A S \in SUBSET D : Cardinality(S) = n => IsFiniteSet(Places(S, len))}
<1>1. 0 \in Good
  <2>1. ASSUME NEW S \in SUBSET D, Cardinality(S) = 0
        PROVE  IsFiniteSet(Places(S, len))
    <3>1. IsFiniteSet(S)
      BY FS_Subset
    <3>2. S = {}
      BY <2>1, <3>1, FS_EmptySet
    <3>3. Places(S, len) = {}
      BY <3>2 DEF Places
    <3> QED
      BY <3>3, FS_EmptySet
  <2> QED
    BY <2>1
<1>2. ASSUME NEW n \in Nat, n \in Good
      PROVE  n + 1 \in Good
  <2>1. ASSUME NEW S \in SUBSET D, Cardinality(S) = n + 1
        PROVE  IsFiniteSet(Places(S, len))
    <3>1. IsFiniteSet(S) /\ S # {}
      BY <2>1, FS_Subset, FS_EmptySet
    <3>2. PICK x \in S : TRUE
      BY <3>1
    <3>3. Cardinality(S \ {x}) = n
      <4>1. Cardinality(S \ {x}) = Cardinality(S) - 1
        BY <3>1, FS_RemoveElement
      <4> HIDE DEF Good
      <4> QED
        BY <2>1, <4>1
    <3>4. IsFiniteSet(Places(S \ {x}, len))
      BY <1>2, <3>3
    <3> QED
      BY <3>4, PlacesOfMore
  <2> QED
    BY <2>1
<1>3. \A n \in Nat : n \in Good
  <2> HIDE DEF Good
  <2> QED
    BY <1>1, <1>2, NatInduct
<1> SUFFICES ASSUME NEW S \in SUBSET D
             PROVE  IsFiniteSet(Places(S, len))
  OBVIOUS
<1>4. Cardinality(S) \in Nat
  BY FS_Subset, FS_CardinalityType
<1> QED
  BY <1>3, <1>4

\* The sum that a fold over a set computes.
SumsUp(it, D, len) ==
    it = [s \in SUBSET D |-> IF s = {} THEN 0
                             ELSE LET x == CHOOSE y \in s : TRUE IN len[x] + it[s \ {x}]]

\* The number of places is such a sum ...
LEMMA SumExists ==
    ASSUME NEW D, IsFiniteSet(D), NEW len \in [D -> Nat]
    PROVE  SumsUp([s \in SUBSET D |-> Cardinality(Places(s, len))], D, len)
<1> DEFINE it == [s \in SUBSET D |-> Cardinality(Places(s, len))]
<1>1. ASSUME NEW s \in SUBSET D
      PROVE  it[s] = IF s = {} THEN 0
                     ELSE LET x == CHOOSE y \in s : TRUE IN len[x] + it[s \ {x}]
  <2>1. CASE s = {}
    <3>1. Places(s, len) = {}
      BY <2>1 DEF Places
    <3> QED
      BY <2>1, <3>1, FS_EmptySet
  <2>2. CASE s # {}
    <3> DEFINE x == CHOOSE y \in s : TRUE
    <3>1. x \in s
      BY <2>2
    <3> HIDE DEF x
    <3>2. s \ {x} \in SUBSET D
      OBVIOUS
    <3>3. Cardinality(Places(s, len)) = len[x] + Cardinality(Places(s \ {x}, len))
      BY <3>1, <3>2, PlacesFinite, PlacesOfMore
    <3>4. it[s] = len[x] + it[s \ {x}]
      BY <3>2, <3>3
    <3> QED
      BY <2>2, <3>4 DEF x
  <2> QED
    BY <2>1, <2>2
<1> QED
  BY <1>1 DEF SumsUp

\* ... and the only one.
LEMMA SumIs ==
    ASSUME NEW D, IsFiniteSet(D), NEW len \in [D -> Nat], NEW it, SumsUp(it, D, len)
    PROVE  it[D] = Cardinality(Places(D, len))
<1>1. ASSUME NEW s \in SUBSET D
      PROVE  it[s] = IF s = {} THEN 0
                     ELSE LET x == CHOOSE y \in s : TRUE IN len[x] + it[s \ {x}]
  BY DEF SumsUp
<1> DEFINE Good == {n \in Nat : \A S \in SUBSET D : Cardinality(S) = n =>
                                    it[S] = Cardinality(Places(S, len))}
<1>2. 0 \in Good
  <2>1. ASSUME NEW S \in SUBSET D, Cardinality(S) = 0
        PROVE  it[S] = Cardinality(Places(S, len))
    <3>1. IsFiniteSet(S)
      BY FS_Subset
    <3>2. S = {}
      BY <2>1, <3>1, FS_EmptySet
    <3>3. Places(S, len) = {}
      BY <3>2 DEF Places
    <3> QED
      BY <1>1, <3>2, <3>3, FS_EmptySet
  <2> QED
    BY <2>1
<1>3. ASSUME NEW n \in Nat, n \in Good
      PROVE  n + 1 \in Good
  <2>1. ASSUME NEW S \in SUBSET D, Cardinality(S) = n + 1
        PROVE  it[S] = Cardinality(Places(S, len))
    <3>1. IsFiniteSet(S) /\ S # {}
      BY <2>1, FS_Subset, FS_EmptySet
    <3> DEFINE x == CHOOSE y \in S : TRUE
    <3>2. x \in S
      BY <3>1
    <3>3. it[S] = len[x] + it[S \ {x}]
      BY <1>1, <3>1
    <3> HIDE DEF x
    <3>4. Cardinality(S \ {x}) = n
      <4>1. Cardinality(S \ {x}) = Cardinality(S) - 1
        BY <3>1, <3>2, FS_RemoveElement
      <4> HIDE DEF Good
      <4> QED
        BY <2>1, <4>1
    <3>5. it[S \ {x}] = Cardinality(Places(S \ {x}, len))
      BY <1>3, <3>4
    <3>6. Cardinality(Places(S, len)) = len[x] + Cardinality(Places(S \ {x}, len))
      BY <3>2, PlacesFinite, PlacesOfMore
    <3> QED
      BY <3>3, <3>5, <3>6
  <2> QED
    BY <2>1
<1>4. \A n \in Nat : n \in Good
  <2> HIDE DEF Good
  <2> QED
    BY <1>2, <1>3, NatInduct
<1>5. Cardinality(D) \in Nat
  BY FS_CardinalityType
<1> QED
  BY <1>4, <1>5

\* What the two sums of the properties count.
LEMMA NodeSum ==
    ASSUME NEW f, IsFiniteSet(DOMAIN f), \A s \in DOMAIN f : Len(f[s]) \in Nat
    PROVE  FoldSet(LAMBDA s, n : Len(f[s]) + n, 0, DOMAIN f)
             = Cardinality(Places(DOMAIN f, [s \in DOMAIN f |-> Len(f[s])]))
<1> DEFINE len == [s \in DOMAIN f |-> Len(f[s])]
           Sums(it) == it = [s \in SUBSET DOMAIN f |->
                               IF s = {} THEN 0
                               ELSE LET x == CHOOSE y \in s : TRUE IN Len(f[x]) + it[s \ {x}]]
<1>1. FoldSet(LAMBDA s, n : Len(f[s]) + n, 0, DOMAIN f) = (CHOOSE it : Sums(it))[DOMAIN f]
  BY DEF FoldSet, MapThenFoldSet
<1>2. \A it : Sums(it) <=> SumsUp(it, DOMAIN f, len)
  <2>1. ASSUME NEW it
        PROVE  [s \in SUBSET DOMAIN f |->
                   IF s = {} THEN 0
                   ELSE LET x == CHOOSE y \in s : TRUE IN Len(f[x]) + it[s \ {x}]]
               = [s \in SUBSET DOMAIN f |->
                   IF s = {} THEN 0
                   ELSE LET x == CHOOSE y \in s : TRUE IN len[x] + it[s \ {x}]]
    <3>1. ASSUME NEW s \in SUBSET DOMAIN f, s # {}
          PROVE  LET x == CHOOSE y \in s : TRUE
                 IN  Len(f[x]) + it[s \ {x}] = len[x] + it[s \ {x}]
      <4> DEFINE x == CHOOSE y \in s : TRUE
      <4>1. x \in DOMAIN f
        BY <3>1
      <4> HIDE DEF x
      <4>2. Len(f[x]) + it[s \ {x}] = len[x] + it[s \ {x}]
        BY <4>1
      <4> QED
        BY <4>2 DEF x
    <3> QED
      BY <3>1
  <2> QED
    BY <2>1 DEF SumsUp
<1> HIDE DEF Sums
<1>3. len \in [DOMAIN f -> Nat]
  OBVIOUS
<1> HIDE DEF len
<1>4. \E it : SumsUp(it, DOMAIN f, len)
  BY <1>3, SumExists
<1>5. Sums(CHOOSE it : Sums(it))
  BY <1>2, <1>4
<1> DEFINE it == CHOOSE i : Sums(i)
<1>6. SumsUp(it, DOMAIN f, len)
  BY <1>2, <1>5
<1> HIDE DEF it
<1>7. it[DOMAIN f] = Cardinality(Places(DOMAIN f, len))
  BY <1>3, <1>6, SumIs
<1> QED
  BY <1>1, <1>7 DEF it, len

-----------------------------------------------------------------------------
(* A tree is a forest with the root as its only top: what BlocksAccounted    *)
(* counts.                                                                   *)

\* The state is a tree with these levels.
Tree(lv) == Forest(DOMAIN leaf, node, {root}, levels, lv) /\ lv[root] = 1 /\ root \in DOMAIN node

\* The index nodes of a level.
Level(lv, l) == {s \in DOMAIN node : lv[s] = l}

\* The blocks a node leads to.
Kids(s) == {node[s][i].sector : i \in DOMAIN node[s]}

\* The function by which NodesAt is defined.
LevelsDown(at) == at = [l \in 1 .. levels |->
                          IF l = 1 THEN {root} ELSE UNION {Kids(s) : s \in at[l - 1]}]

\* NodesAt is the function of its definition.
LEMMA NodesAtIs == NodesAt = CHOOSE at : LevelsDown(at)
  BY DEF NodesAt, LevelsDown, Kids

\* What a tree is made of.
LEMMA TreeTypes ==
    ASSUME NEW lv, Tree(lv)
    PROVE  /\ levels \in Nat \ {0} /\ 1 \in 1 .. levels
           /\ IsFiniteSet(DOMAIN leaf) /\ IsFiniteSet(DOMAIN node)
           /\ DOMAIN leaf \intersect DOMAIN node = {}
           /\ \A s \in DOMAIN node : /\ node[s] \in Seq(Entry)
                                     /\ Len(node[s]) \in Nat
                                     /\ DOMAIN node[s] = 1 .. Len(node[s])
                                     /\ lv[s] \in 1 .. levels
           /\ \A s \in DOMAIN leaf : lv[s] = levels + 1
<1>1. Levelled(DOMAIN leaf, node, {root}, levels, lv)
  BY DEF Tree, Forest
<1>2. IsFiniteSet(DOMAIN leaf) /\ IsFiniteSet(DOMAIN node)
  BY <1>1, TreeAssumption, FS_Subset DEF Levelled
<1>3. \A s \in DOMAIN node : lv[s] \in 1 .. levels
  <2> SUFFICES ASSUME NEW s \in DOMAIN node
               PROVE  lv[s] \in 1 .. levels
    OBVIOUS
  <2>1. s \in Blocks(DOMAIN leaf, node) /\ s \notin DOMAIN leaf
    BY <1>1 DEF Levelled, Blocks
  <2>2. lv[s] \in 1 .. levels + 1 /\ lv[s] # levels + 1 /\ levels \in Nat
    BY <1>1, <2>1 DEF Levelled
  <2> QED
    BY <2>2
<1>4. \A s \in DOMAIN leaf : lv[s] = levels + 1
  BY <1>1 DEF Levelled, Blocks
<1>5. \A s \in DOMAIN node : node[s] \in Seq(Entry)
  BY <1>1 DEF Levelled
<1>6. \A s \in DOMAIN node : Len(node[s]) \in Nat /\ DOMAIN node[s] = 1 .. Len(node[s])
  BY <1>5
<1>7. levels \in Nat \ {0} /\ DOMAIN leaf \intersect DOMAIN node = {}
  BY <1>1 DEF Levelled
<1> QED
  BY <1>2, <1>3, <1>4, <1>5, <1>6, <1>7

\* The children of a level are the next one.
LEMMA LevelBelow ==
    ASSUME NEW lv, Tree(lv), NEW l \in 1 .. levels
    PROVE  UNION {Kids(s) : s \in Level(lv, l)}
              = {b \in Blocks(DOMAIN leaf, node) : lv[b] = l + 1}
<1>1. /\ Hanging(DOMAIN leaf, node, {root}, lv)
      /\ \A b \in Blocks(DOMAIN leaf, node) \ {root} : InEntry(node, b)
  BY DEF Tree, Forest
<1>2. \A s \in DOMAIN node : DOMAIN node[s] = 1 .. Len(node[s]) /\ lv[s] \in Nat
  BY TreeTypes
<1>3. ASSUME NEW s \in Level(lv, l), NEW b \in Kids(s)
      PROVE  b \in Blocks(DOMAIN leaf, node) /\ lv[b] = l + 1
  BY <1>1, <1>2 DEF Level, Kids, Hanging
<1>4. ASSUME NEW b \in Blocks(DOMAIN leaf, node), lv[b] = l + 1
      PROVE  \E s \in Level(lv, l) : b \in Kids(s)
  <2>1. b # root
    BY <1>4 DEF Tree
  <2>2. PICK s \in DOMAIN node : \E i \in 1 .. Len(node[s]) : node[s][i].sector = b
    BY <1>1, <2>1 DEF InEntry
  <2>3. lv[b] = lv[s] + 1 /\ b \in Kids(s)
    BY <1>1, <1>2, <2>2 DEF Hanging, Kids
  <2>4. lv[s] = l
    BY <1>2, <1>4, <2>3
  <2> QED
    BY <2>3, <2>4 DEF Level
<1> QED
  BY <1>3, <1>4

\* Only the root is on the first level.
LEMMA RootAlone ==
    ASSUME NEW lv, Tree(lv)
    PROVE  Level(lv, 1) = {root}
<1>1. /\ Hanging(DOMAIN leaf, node, {root}, lv)
      /\ \A b \in Blocks(DOMAIN leaf, node) \ {root} : InEntry(node, b)
  BY DEF Tree, Forest
<1>2. ASSUME NEW s \in DOMAIN node, lv[s] = 1, s # root
      PROVE  FALSE
  <2>1. PICK t \in DOMAIN node : \E i \in 1 .. Len(node[t]) : node[t][i].sector = s
    BY <1>1, <1>2 DEF InEntry, Blocks
  <2>2. lv[s] = lv[t] + 1 /\ lv[t] \in 1 .. levels
    BY <1>1, <2>1, TreeTypes DEF Hanging
  <2> QED
    BY <1>2, <2>2
<1> QED
  BY <1>2 DEF Level, Tree

\* The traversal comes to every node, on its level.
LEMMA NodesAtLevels ==
    ASSUME NEW lv, Tree(lv), NEW l \in 1 .. levels
    PROVE  NodesAt[l] = Level(lv, l)
<1> DEFINE all == [k \in 1 .. levels |-> Level(lv, k)]
           at == CHOOSE a : LevelsDown(a)
<1>0. levels \in Nat \ {0}
  BY TreeTypes
<1>1. \A k \in 1 .. levels : \A s \in Level(lv, k) : s \in DOMAIN node
  BY DEF Level
<1>2. ASSUME NEW k \in 1 .. levels, k # 1
      PROVE  k - 1 \in 1 .. levels /\ Level(lv, k) = UNION {Kids(s) : s \in Level(lv, k - 1)}
  <2>1. k - 1 \in 1 .. levels /\ (k - 1) + 1 = k
    BY <1>0, <1>2
  <2>2. UNION {Kids(s) : s \in Level(lv, k - 1)} = {b \in Blocks(DOMAIN leaf, node) : lv[b] = k}
    BY <2>1, LevelBelow
  <2>3. \A b \in DOMAIN leaf : lv[b] # k
    BY <1>0, TreeTypes
  <2>4. {b \in Blocks(DOMAIN leaf, node) : lv[b] = k} = Level(lv, k)
    BY <2>3 DEF Blocks, Level
  <2> QED
    BY <2>1, <2>2, <2>4
<1>3. LevelsDown(all)
  <2>1. \A k \in 1 .. levels :
          all[k] = IF k = 1 THEN {root} ELSE UNION {Kids(s) : s \in all[k - 1]}
    BY <1>2, RootAlone
  <2> QED
    BY <2>1 DEF LevelsDown
<1>4. LevelsDown(at)
  BY <1>3
<1> HIDE DEF at, all
<1>5. \A k \in 1 .. levels :
        at[k] = IF k = 1 THEN {root} ELSE UNION {Kids(s) : s \in at[k - 1]}
  BY <1>4 DEF LevelsDown
<1> DEFINE Good == {n \in Nat : n + 1 \in 1 .. levels => at[n + 1] = Level(lv, n + 1)}
<1>6. 0 \in Good
  <2>1. 1 \in 1 .. levels => at[1] = Level(lv, 1)
    BY <1>5, RootAlone
  <2>2. 0 + 1 = 1
    OBVIOUS
  <2> QED
    BY <2>1, <2>2
<1>7. ASSUME NEW n \in Nat, n \in Good
      PROVE  n + 1 \in Good
  <2>1. CASE (n + 1) + 1 \in 1 .. levels
    <3>1. n + 1 \in 1 .. levels /\ (n + 1) + 1 # 1 /\ ((n + 1) + 1) - 1 = n + 1
      BY <1>0, <2>1
    <3>2. at[n + 1] = Level(lv, n + 1)
      BY <1>7, <3>1
    <3>3. at[(n + 1) + 1] = UNION {Kids(s) : s \in at[n + 1]}
      BY <1>5, <2>1, <3>1
    <3>4. Level(lv, (n + 1) + 1) = UNION {Kids(s) : s \in Level(lv, n + 1)}
      BY <1>2, <2>1, <3>1
    <3>5. at[(n + 1) + 1] = Level(lv, (n + 1) + 1)
      BY <3>2, <3>3, <3>4
    <3> QED
      BY <3>5
  <2> QED
    BY <2>1
<1>8. \A n \in Nat : n \in Good
  <2> HIDE DEF Good
  <2> QED
    BY <1>6, <1>7, NatInduct
<1>9. l - 1 \in Nat /\ (l - 1) + 1 = l
  BY <1>0
<1>10. at[l] = Level(lv, l)
  BY <1>8, <1>9
<1> QED
  BY <1>10, NodesAtIs DEF at

\* Each block but the root is in one entry: as many entries as blocks.
LEMMA EntriesAreBlocks ==
    ASSUME NEW lv, Tree(lv)
    PROVE  Cardinality(DOMAIN leaf) + Cardinality(DOMAIN node) =
             1 + FoldSet(LAMBDA s, n : Len(node[s]) + n, 0, DOMAIN node)
<1> DEFINE len == [s \in DOMAIN node |-> Len(node[s])]
           places == Places(DOMAIN node, len)
           others == Blocks(DOMAIN leaf, node) \ {root}
           f == [p \in places |-> node[p[1]][p[2]].sector]
<1>1. \A p : p \in places <=> \E s \in DOMAIN node : \E i \in 1 .. Len(node[s]) : p = <<s, i>>
  BY DEF Places
<1>2. f \in [places -> others]
  <2>1. Hanging(DOMAIN leaf, node, {root}, lv)
    BY DEF Tree, Forest
  <2> QED
    BY <1>1, <2>1 DEF Hanging
<1>3. \A p, q \in places : f[p] = f[q] => p = q
  <2>1. Once(node)
    BY DEF Tree, Forest
  <2> QED
    BY <1>1, <2>1 DEF Once
<1>4. \A b \in others : \E p \in places : f[p] = b
  <2> SUFFICES ASSUME NEW b \in others
               PROVE  \E p \in places : f[p] = b
    OBVIOUS
  <2>1. InEntry(node, b)
    BY DEF Tree, Forest
  <2>2. PICK s \in DOMAIN node : \E i \in 1 .. Len(node[s]) : node[s][i].sector = b
    BY <2>1 DEF InEntry
  <2>3. PICK i \in 1 .. Len(node[s]) : node[s][i].sector = b
    BY <2>2
  <2>4. <<s, i>> \in places /\ f[<<s, i>>] = b
    BY <1>1, <2>3
  <2> QED
    BY <2>4
<1>5. /\ len \in [DOMAIN node -> Nat]
      /\ IsFiniteSet(DOMAIN leaf) /\ IsFiniteSet(DOMAIN node)
      /\ DOMAIN leaf \intersect DOMAIN node = {} /\ root \in DOMAIN node
  BY TreeTypes DEF Tree
<1>6. IsFiniteSet(places)
  BY <1>5, PlacesFinite
<1> HIDE DEF f, places, len
<1>7. ExistsBijection(places, others)
  <2>1. f \in Bijection(places, others)
    BY <1>2, <1>3, <1>4 DEF Bijection, Injection, Surjection, IsInjective
  <2> QED
    BY <2>1 DEF ExistsBijection
<1>8. IsFiniteSet(others) /\ Cardinality(others) = Cardinality(places)
  <2> HIDE DEF others
  <2> QED
    BY <1>6, <1>7, FS_Bijection
<1>9. /\ IsFiniteSet(Blocks(DOMAIN leaf, node))
      /\ Cardinality(Blocks(DOMAIN leaf, node)) = Cardinality(DOMAIN leaf) + Cardinality(DOMAIN node)
  <2>1. /\ IsFiniteSet(Blocks(DOMAIN leaf, node))
        /\ Cardinality(Blocks(DOMAIN leaf, node)) =
             Cardinality(DOMAIN leaf) + Cardinality(DOMAIN node) - Cardinality(DOMAIN leaf \intersect DOMAIN node)
    BY <1>5, FS_Union DEF Blocks
  <2>2. Cardinality(DOMAIN leaf \intersect DOMAIN node) = 0
    BY <1>5, FS_EmptySet
  <2>3. Cardinality(DOMAIN leaf) \in Nat /\ Cardinality(DOMAIN node) \in Nat
    BY <1>5, FS_CardinalityType
  <2> QED
    BY <2>1, <2>2, <2>3
<1>10. Cardinality(others) = Cardinality(Blocks(DOMAIN leaf, node)) - 1
  <2>1. root \in Blocks(DOMAIN leaf, node)
    BY <1>5 DEF Blocks
  <2> QED
    BY <1>9, <2>1, FS_RemoveElement
<1>11. FoldSet(LAMBDA s, n : Len(node[s]) + n, 0, DOMAIN node) = Cardinality(places)
  <2>1. \A s \in DOMAIN node : Len(node[s]) \in Nat
    BY TreeTypes
  <2> QED
    BY <1>5, <2>1, NodeSum DEF places, len
<1>12. /\ Cardinality(DOMAIN leaf) \in Nat /\ Cardinality(DOMAIN node) \in Nat
       /\ Cardinality(places) \in Nat
  BY <1>5, <1>6, FS_CardinalityType
<1> DEFINE sum == FoldSet(LAMBDA s, n : Len(node[s]) + n, 0, DOMAIN node)
<1>13. sum = Cardinality(places)
  BY <1>11
<1> HIDE DEF sum
<1>14. Cardinality(DOMAIN leaf) + Cardinality(DOMAIN node) = 1 + sum
  BY <1>8, <1>9, <1>10, <1>12, <1>13
<1> QED
  BY <1>14 DEF sum

\* In a tree all blocks are accounted for.
LEMMA TreeAccounted ==
    ASSUME NEW lv, Tree(lv)
    PROVE  BlocksAccounted
<1>0. levels \in Nat \ {0} /\ levels \in 1 .. levels
  BY TreeTypes
<1>1. LeavesReached = DOMAIN leaf
  <2>1. LeavesReached = UNION {Kids(s) : s \in NodesAt[levels]}
    BY DEF LeavesReached, Kids
  <2>2. LeavesReached = {b \in Blocks(DOMAIN leaf, node) : lv[b] = levels + 1}
    BY <1>0, <2>1, LevelBelow, NodesAtLevels
  <2>3. \A b \in DOMAIN node : lv[b] # levels + 1
    BY <1>0, TreeTypes
  <2> QED
    BY <2>2, <2>3, TreeTypes DEF Blocks
<1>2. DOMAIN node = UNION {NodesAt[l] : l \in 1 .. levels}
  <2>1. UNION {NodesAt[l] : l \in 1 .. levels} = UNION {Level(lv, l) : l \in 1 .. levels}
    BY NodesAtLevels
  <2>2. \A s \in DOMAIN node : lv[s] \in 1 .. levels
    BY TreeTypes
  <2> QED
    BY <2>1, <2>2 DEF Level
<1> QED
  BY <1>1, <1>2, EntriesAreBlocks DEF BlocksAccounted

-----------------------------------------------------------------------------
(* Lookup. *)

\* The function by which Below is defined.
Descends(at, s0, n, c) == at = [k \in 0 .. n |-> IF k = 0 THEN s0 ELSE Child(at[k - 1], c)]

\* Below takes its block from that function.
LEMMA BelowIsDescent ==
    ASSUME NEW s0, NEW n, NEW c
    PROVE  Below(s0, n, c) = (CHOOSE at : Descends(at, s0, n, c))[n]
  BY DEF Below, Descends

\* There is such a function for every depth ...
LEMMA DescentExists ==
    ASSUME NEW s0, NEW c
    PROVE  \A n \in Nat : \E at : Descends(at, s0, n, c)
<1> DEFINE Good == {n \in Nat : \E at : Descends(at, s0, n, c)}
<1>1. 0 \in Good
  <2>1. Descends([k \in 0 .. 0 |-> s0], s0, 0, c)
    BY DEF Descends
  <2> QED
    BY <2>1
<1>2. ASSUME NEW n \in Nat, n \in Good
      PROVE  n + 1 \in Good
  <2>1. PICK at : Descends(at, s0, n, c)
    BY <1>2
  <2> DEFINE more == [k \in 0 .. n + 1 |-> IF k = n + 1 THEN Child(at[n], c) ELSE at[k]]
  <2>2. \A k \in 0 .. n : at[k] = IF k = 0 THEN s0 ELSE Child(at[k - 1], c)
    BY <2>1 DEF Descends
  <2>3. ASSUME NEW k \in 0 .. n + 1
        PROVE  more[k] = IF k = 0 THEN s0 ELSE Child(more[k - 1], c)
    <3>1. CASE k = n + 1
      <4>1. k - 1 \in 0 .. n + 1 /\ k - 1 = n /\ k # 0 /\ k - 1 # n + 1
        BY <3>1
      <4>2. more[k - 1] = at[n] /\ more[k] = Child(at[n], c)
        BY <3>1, <4>1
      <4> QED
        BY <4>1, <4>2
    <3>2. CASE k # n + 1 /\ k # 0
      <4>1. k \in 0 .. n /\ k - 1 \in 0 .. n + 1 /\ k - 1 # n + 1
        BY <3>2
      <4>2. more[k - 1] = at[k - 1] /\ more[k] = at[k]
        BY <3>2, <4>1
      <4> QED
        BY <2>2, <3>2, <4>1, <4>2
    <3>3. CASE k = 0
      <4>1. more[0] = at[0] /\ at[0] = s0
        BY <2>2
      <4> QED
        BY <3>3, <4>1
    <3> QED
      BY <3>1, <3>2, <3>3
  <2>4. Descends(more, s0, n + 1, c)
    BY <2>3 DEF Descends
  <2> QED
    BY <2>4
<1>3. \A n \in Nat : n \in Good
  <2> HIDE DEF Good
  <2> QED
    BY <1>1, <1>2, NatInduct
<1> QED
  BY <1>3

\* ... and two of them agree.
LEMMA DescentUnique ==
    ASSUME NEW s0, NEW c, NEW m \in Nat, NEW n \in Nat, NEW a, NEW b,
           Descends(a, s0, m, c), Descends(b, s0, n, c)
    PROVE  \A k \in Nat : k <= m /\ k <= n => a[k] = b[k]
<1>1. /\ \A k \in 0 .. m : a[k] = IF k = 0 THEN s0 ELSE Child(a[k - 1], c)
      /\ \A k \in 0 .. n : b[k] = IF k = 0 THEN s0 ELSE Child(b[k - 1], c)
  BY DEF Descends
<1> DEFINE Good == {k \in Nat : k <= m /\ k <= n => a[k] = b[k]}
<1>2. 0 \in Good
  BY <1>1
<1>3. ASSUME NEW k \in Nat, k \in Good
      PROVE  k + 1 \in Good
  <2> SUFFICES ASSUME k + 1 <= m, k + 1 <= n
               PROVE  a[k + 1] = b[k + 1]
    OBVIOUS
  <2>1. k + 1 \in 0 .. m /\ k + 1 \in 0 .. n /\ k + 1 # 0 /\ (k + 1) - 1 = k /\ k <= m /\ k <= n
    OBVIOUS
  <2>2. a[k] = b[k]
    BY <1>3, <2>1
  <2> QED
    BY <1>1, <2>1, <2>2
<1>4. \A k \in Nat : k \in Good
  <2> HIDE DEF Good
  <2> QED
    BY <1>2, <1>3, NatInduct
<1> QED
  BY <1>4

\* One level further down.
LEMMA BelowStep ==
    ASSUME NEW s0, NEW c, NEW n \in Nat
    PROVE  /\ Below(s0, 0, c) = s0
           /\ Below(s0, n + 1, c) = Child(Below(s0, n, c), c)
<1> DEFINE at(k) == CHOOSE a : Descends(a, s0, k, c)
<1>1. \A k \in Nat : Descends(at(k), s0, k, c)
  BY DescentExists
<1>2. \A k \in Nat : Below(s0, k, c) = at(k)[k]
  BY BelowIsDescent
<1> HIDE DEF at
<1>3. Below(s0, 0, c) = s0
  BY <1>1, <1>2 DEF Descends
<1>4. Descends(at(n), s0, n, c) /\ Descends(at(n + 1), s0, n + 1, c) /\ n + 1 \in Nat
  BY <1>1
<1>5. at(n)[n] = at(n + 1)[n]
  BY <1>4, DescentUnique
<1>6. n + 1 \in 0 .. n + 1 /\ n + 1 # 0 /\ (n + 1) - 1 = n
  OBVIOUS
<1>7. at(n + 1)[n + 1] = Child(at(n + 1)[n], c)
  BY <1>4, <1>6 DEF Descends
<1> QED
  BY <1>2, <1>3, <1>4, <1>5, <1>7

\* A lookup in a node stops behind one of its entries.
LEMMA NextEntryRange ==
    ASSUME NEW entries \in Seq(Entry), entries # <<>>, NEW c
    PROVE  NextEntry(entries, c) \in 2 .. Len(entries) + 1
<1> DEFINE S == {i \in 2 .. Len(entries) : entries[i].key > c} \union {Len(entries) + 1}
<1>1. Len(entries) \in Nat /\ Len(entries) >= 1
  OBVIOUS
<1>2. S \in SUBSET (2 .. Len(entries) + 1) /\ S \in SUBSET Nat /\ S # {}
  BY <1>1
<1> HIDE DEF S
<1>3. \E m \in S : \A x \in S : m <= x
  BY <1>2, LeastNat
<1>4. Min(S) \in S
  BY <1>3 DEF Min
<1> QED
  BY <1>2, <1>4 DEF NextEntry, S

\* The nodes on the way down are on the levels 1, 2, ...
LEMMA BelowOnLevel ==
    ASSUME NEW lv, Tree(lv), \A s \in DOMAIN node : node[s] # <<>>, NEW c
    PROVE  /\ \A k \in 0 .. levels - 1 : Below(root, k, c) \in Level(lv, k + 1)
           /\ LeafOf(c) \in DOMAIN leaf
<1>0. levels \in Nat \ {0}
  BY TreeTypes
<1>1. ASSUME NEW l \in 1 .. levels, NEW s \in Level(lv, l)
      PROVE  /\ NextEntry(node[s], c) \in 2 .. Len(node[s]) + 1
             /\ NextEntry(node[s], c) - 1 \in 1 .. Len(node[s])
             /\ Child(s, c) \in Blocks(DOMAIN leaf, node) /\ lv[Child(s, c)] = l + 1
  <2>1. s \in DOMAIN node /\ lv[s] = l /\ node[s] \in Seq(Entry) /\ Len(node[s]) \in Nat
    BY TreeTypes DEF Level
  <2>2. NextEntry(node[s], c) \in 2 .. Len(node[s]) + 1
    BY <2>1, NextEntryRange
  <2>3. NextEntry(node[s], c) - 1 \in 1 .. Len(node[s])
    BY <2>1, <2>2
  <2>4. Hanging(DOMAIN leaf, node, {root}, lv)
    BY DEF Tree, Forest
  <2>5. Child(s, c) \in Blocks(DOMAIN leaf, node) /\ lv[Child(s, c)] = l + 1
    BY <2>1, <2>3, <2>4 DEF Child, Hanging
  <2> QED
    BY <2>2, <2>3, <2>5
<1> DEFINE Good == {k \in Nat : k <= levels - 1 => Below(root, k, c) \in Level(lv, k + 1)}
<1>2. 0 \in Good
  <2>1. Below(root, 0, c) = root
    BY BelowStep
  <2>2. root \in Level(lv, 1) /\ 0 + 1 = 1
    BY DEF Level, Tree
  <2> QED
    BY <2>1, <2>2
<1>3. ASSUME NEW k \in Nat, k \in Good
      PROVE  k + 1 \in Good
  <2> SUFFICES ASSUME k + 1 <= levels - 1
               PROVE  Below(root, k + 1, c) \in Level(lv, (k + 1) + 1)
    OBVIOUS
  <2>1. k <= levels - 1 /\ k + 1 \in 1 .. levels
    BY <1>0
  <2>2. Below(root, k, c) \in Level(lv, k + 1)
    BY <1>3, <2>1
  <2>3. Below(root, k + 1, c) = Child(Below(root, k, c), c)
    BY BelowStep
  <2>4. /\ Below(root, k + 1, c) \in Blocks(DOMAIN leaf, node)
        /\ lv[Below(root, k + 1, c)] = (k + 1) + 1
    BY <1>1, <2>1, <2>2, <2>3
  <2>5. (k + 1) + 1 # levels + 1
    BY <1>0
  <2> QED
    BY <2>4, <2>5, TreeTypes DEF Level, Blocks
<1>4. \A k \in Nat : k \in Good
  <2> HIDE DEF Good
  <2> QED
    BY <1>2, <1>3, NatInduct
<1>5. \A k \in 0 .. levels - 1 : Below(root, k, c) \in Level(lv, k + 1)
  BY <1>0, <1>4
<1>6. LeafOf(c) \in DOMAIN leaf
  <2>1. levels - 1 \in Nat /\ (levels - 1) + 1 = levels /\ levels - 1 \in 0 .. levels - 1 /\ levels \in 1 .. levels
    BY <1>0
  <2>2. Below(root, levels - 1, c) \in Level(lv, levels)
    BY <1>5, <2>1
  <2>3. LeafOf(c) = Child(Below(root, levels - 1, c), c)
    BY <2>1, BelowStep DEF LeafOf
  <2>4. LeafOf(c) \in Blocks(DOMAIN leaf, node) /\ lv[LeafOf(c)] = levels + 1
    BY <1>1, <2>1, <2>2, <2>3
  <2>5. \A s \in DOMAIN node : lv[s] # levels + 1
    BY <1>0, TreeTypes
  <2> QED
    BY <2>4, <2>5 DEF Blocks
<1> QED
  BY <1>5, <1>6

\* What probe returns.
LEMMA ProbeIs ==
    ASSUME NEW lv, Tree(lv), \A s \in DOMAIN node : node[s] # <<>>, NEW c
    PROVE  /\ Probe(c) \in [1 .. levels -> [sector : Sectors, next : Nat]]
           /\ Probe(c)[1].sector = root
           /\ \A l \in 1 .. levels :
                 LET step == Probe(c)[l]
                     below == IF l = levels THEN LeafOf(c) ELSE Probe(c)[l + 1].sector
                 IN  /\ step.sector \in Level(lv, l)
                     /\ step.next \in 2 .. Len(node[step.sector]) + 1
                     /\ node[step.sector][step.next - 1].sector = below
<1>0. levels \in Nat \ {0}
  BY TreeTypes
<1> DEFINE at(l) == Below(root, l - 1, c)
<1> DEFINE path == Probe(c)
<1>1. ASSUME NEW l \in 1 .. levels
      PROVE  /\ path[l] = [sector |-> at(l), next |-> NextEntry(node[at(l)], c)]
             /\ path[l].sector = at(l) /\ path[l].next = NextEntry(node[at(l)], c)
  BY DEF Probe
<1>10. path = [l \in 1 .. levels |-> path[l]]
  BY DEF Probe
<1> HIDE DEF path
<1>2. ASSUME NEW l \in 1 .. levels
      PROVE  /\ at(l) \in Level(lv, l) /\ at(l) \in Sectors
             /\ NextEntry(node[at(l)], c) \in 2 .. Len(node[at(l)]) + 1
             /\ NextEntry(node[at(l)], c) \in Nat
  <2>1. l - 1 \in 0 .. levels - 1 /\ (l - 1) + 1 = l
    BY <1>0
  <2>2. at(l) \in Level(lv, l)
    BY <2>1, BelowOnLevel
  <2> HIDE DEF at
  <2>3. at(l) \in DOMAIN node /\ node[at(l)] \in Seq(Entry)
    BY <2>2, TreeTypes DEF Level
  <2>4. DOMAIN node \in SUBSET Sectors
    BY DEF Tree, Forest, Levelled
  <2>5. NextEntry(node[at(l)], c) \in 2 .. Len(node[at(l)]) + 1
    BY <2>3, NextEntryRange
  <2>6. Len(node[at(l)]) \in Nat
    BY <2>3
  <2> QED
    BY <2>2, <2>3, <2>4, <2>5, <2>6
<1>3. ASSUME NEW l \in 1 .. levels
      PROVE  node[at(l)][NextEntry(node[at(l)], c) - 1].sector
                = IF l = levels THEN LeafOf(c) ELSE path[l + 1].sector
  <2>1. l - 1 \in Nat /\ (l - 1) + 1 = l
    BY <1>0
  <2>2. Below(root, l, c) = Child(Below(root, l - 1, c), c)
    BY <2>1, BelowStep
  <2>3. l # levels => l + 1 \in 1 .. levels /\ (l + 1) - 1 = l
    BY <1>0
  <2>4. l # levels => path[l + 1].sector = Below(root, l, c)
    BY <1>1, <2>3
  <2> QED
    BY <2>2, <2>4 DEF Child, LeafOf
<1>4. at(1) = root
  <2>1. 1 - 1 = 0
    OBVIOUS
  <2> QED
    BY <2>1, BelowStep
<1>5. path \in [1 .. levels -> [sector : Sectors, next : Nat]]
  <2>1. ASSUME NEW l \in 1 .. levels
        PROVE  path[l] \in [sector : Sectors, next : Nat]
    <3> HIDE DEF at
    <3>1. path[l] = [sector |-> at(l), next |-> NextEntry(node[at(l)], c)]
      BY <1>1
    <3>2. at(l) \in Sectors /\ NextEntry(node[at(l)], c) \in Nat
      BY <1>2
    <3> QED
      BY <3>1, <3>2
  <2> QED
    BY <1>10, <2>1
<1>6. path[1].sector = root
  <2>1. 1 \in 1 .. levels
    BY <1>0
  <2> HIDE DEF at
  <2> QED
    BY <1>1, <1>4, <2>1
<1> HIDE DEF at
<1>7. \A l \in 1 .. levels :
          LET step == path[l]
              below == IF l = levels THEN LeafOf(c) ELSE path[l + 1].sector
          IN  /\ step.sector \in Level(lv, l)
              /\ step.next \in 2 .. Len(node[step.sector]) + 1
              /\ node[step.sector][step.next - 1].sector = below
  BY <1>1, <1>2, <1>3
<1> QED
  BY <1>5, <1>6, <1>7 DEF path

-----------------------------------------------------------------------------
(* Insertion.                                                                *)

\* The child that is to be put under a node, if any.
Waiting(t) == IF t.child = NIL THEN {} ELSE {t.child}

\* The climb before it comes to level l - 1: the child that waits for a parent
\* is on level l, and there are fresh blocks for the splits above.
Climbing(t, l, leafs, top, depth, lv) ==
    /\ t = [node |-> t.node, key |-> t.key, child |-> t.child, fresh |-> t.fresh]
    /\ Forest(leafs, t.node, {top} \union Waiting(t), depth, lv)
    /\ top \in DOMAIN t.node /\ lv[top] = 1
    /\ t.child # NIL => lv[t.child] = l /\ t.child # top
    /\ t.key \in Int
    /\ t.fresh \in SUBSET Sectors /\ t.fresh \intersect Blocks(leafs, t.node) = {}
    /\ Cardinality(t.fresh) >= l
    /\ \A s \in DOMAIN t.node : Len(t.node[s]) \in 1 .. AllocPerNode

\* new_block takes one of the blocks that are left.
LEMMA FreshBlock ==
    ASSUME NEW S \in SUBSET Sectors, NEW l \in Nat, Cardinality(S) >= l + 1
    PROVE  /\ Min(S) \in S
           /\ S \ {Min(S)} \in SUBSET Sectors /\ Cardinality(S \ {Min(S)}) >= l
<1>1. IsFiniteSet(S) /\ S \in SUBSET Nat
  BY TreeAssumption, FS_Subset
<1>2. S # {}
  BY <1>1, FS_EmptySet
<1>3. \E m \in S : \A x \in S : m <= x
  BY <1>1, <1>2, LeastNat
<1>4. Min(S) \in S
  BY <1>3 DEF Min
<1>5. Cardinality(S \ {Min(S)}) = Cardinality(S) - 1 /\ Cardinality(S) \in Nat
  BY <1>1, <1>4, FS_RemoveElement, FS_CardinalityType
<1> QED
  BY <1>4, <1>5

\* The node has room: the child goes in and the climb is over.
LEMMA ClimbFits ==
    ASSUME NEW t, NEW l \in Nat \ {0}, NEW leafs, NEW top, NEW depth, NEW lv,
           Climbing(t, l + 1, leafs, top, depth, lv), t.child # NIL,
           NEW step, step.sector \in DOMAIN t.node, lv[step.sector] = l,
           step.next \in 2 .. Len(t.node[step.sector]) + 1,
           Len(t.node[step.sector]) < AllocPerNode
    PROVE  /\ Climbing(ClimbOne(t, step), l, leafs, top, depth, lv)
           /\ ClimbOne(t, step).child = NIL
           /\ DOMAIN ClimbOne(t, step).node = DOMAIN t.node
           /\ \A s \in DOMAIN t.node \ {step.sector} : ClimbOne(t, step).node[s] = t.node[s]
<1> DEFINE b == step.sector
           e == [key |-> t.key, sector |-> t.child]
           index == [t.node EXCEPT ![b] = InsertAt(@, step.next, e)]
           u == [node |-> index, key |-> t.key, child |-> NIL, fresh |-> t.fresh]
<1>1. ClimbOne(t, step) = u
  <2>1. t = [node |-> t.node, key |-> t.key, child |-> t.child, fresh |-> t.fresh]
    BY DEF Climbing
  <2>2. ClimbOne(t, step) = [t EXCEPT !.node[b] = InsertAt(t.node[b], step.next, e), !.child = NIL]
    BY DEF ClimbOne
  <2> HIDE DEF e
  <2> QED
    BY <2>1, <2>2
<1>2. /\ Forest(leafs, t.node, {top} \union Waiting(t), depth, lv)
      /\ Waiting(t) = {t.child} /\ t.child # top
      /\ t.key \in Int /\ lv[t.child] = l + 1
  BY DEF Climbing, Waiting
<1>3. t.node[b] \in Seq(Entry) /\ Len(t.node[b]) \in Nat /\ t.child \in Sectors
  BY <1>2 DEF Forest, Levelled, Blocks
<1>4. e \in Entry /\ e.sector = t.child
  BY <1>2, <1>3 DEF Entry
<1>5. step.next \in 1 .. Len(t.node[b]) + 1
  BY <1>3
<1> HIDE DEF e
<1>6. Forest(leafs, index, ({top} \union Waiting(t)) \ {e.sector}, depth, lv)
  <2> HIDE DEF b
  <2>1. e.sector \in {top} \union Waiting(t) /\ lv[e.sector] = lv[b] + 1 /\ b \in DOMAIN t.node
    BY <1>2, <1>4 DEF b
  <2> QED
    BY <1>2, <1>4, <1>5, <2>1, KidPutIn
<1>7. ({top} \union Waiting(t)) \ {e.sector} = {top}
  BY <1>2, <1>4
<1>8. u.node = index /\ u.key = t.key /\ u.child = NIL /\ u.fresh = t.fresh
  OBVIOUS
<1>9. Waiting(u) = {}
  BY <1>8 DEF Waiting
<1>10. /\ DOMAIN index = DOMAIN t.node
       /\ index[b] = InsertAt(t.node[b], step.next, e)
       /\ \A s \in DOMAIN t.node \ {b} : index[s] = t.node[s]
  OBVIOUS
<1>11. Len(index[b]) = Len(t.node[b]) + 1
  <2>1. Len(InsertAt(t.node[b], step.next, e)) = Len(t.node[b]) + 1
    BY <1>3, <1>4, <1>5, InsertAtProperties
  <2> QED
    BY <1>10, <2>1
<1> HIDE DEF index
<1>12. \A s \in DOMAIN index : Len(index[s]) \in 1 .. AllocPerNode
  <2>1. Len(index[b]) \in 1 .. AllocPerNode
    BY <1>3, <1>11, TreeAssumption
  <2> QED
    BY <1>10, <2>1 DEF Climbing
<1>13. Cardinality(t.fresh) >= l
  <2>1. Cardinality(t.fresh) >= l + 1 /\ IsFiniteSet(t.fresh)
    BY TreeAssumption, FS_Subset DEF Climbing
  <2>2. Cardinality(t.fresh) \in Nat
    BY <2>1, FS_CardinalityType
  <2> QED
    BY <2>1, <2>2
<1>14. Blocks(leafs, index) = Blocks(leafs, t.node)
  BY <1>10 DEF Blocks
<1>15. Climbing(u, l, leafs, top, depth, lv)
  <2>1. Forest(leafs, u.node, {top} \union Waiting(u), depth, lv)
    BY <1>6, <1>7, <1>8, <1>9
  <2>2. /\ top \in DOMAIN index /\ lv[top] = 1 /\ t.fresh \in SUBSET Sectors
        /\ t.fresh \intersect Blocks(leafs, index) = {}
    BY <1>10, <1>14 DEF Climbing
  <2> QED
    BY <1>2, <1>8, <1>12, <1>13, <2>1, <2>2 DEF Climbing
<1> QED
  BY <1>1, <1>8, <1>10, <1>15

\* A step of the climb changes one node it finds, and no level.
Kept(t, u, b, leafs, lv, lw) ==
    /\ \A x \in Blocks(leafs, t.node) : lw[x] = lv[x]
    /\ DOMAIN t.node \in SUBSET DOMAIN u.node
    /\ \A s \in DOMAIN t.node \ {b} : u.node[s] = t.node[s]

\* The node is full: its upper half goes to a new one, which waits for a parent
\* on the level above.
LEMMA ClimbSplits ==
    ASSUME NEW t, NEW l \in Nat \ {0}, NEW leafs, NEW top, NEW depth, NEW lv,
           Climbing(t, l + 1, leafs, top, depth, lv), t.child # NIL,
           NEW step, step.sector \in DOMAIN t.node, lv[step.sector] = l,
           step.next \in 2 .. Len(t.node[step.sector]) + 1,
           ~(Len(t.node[step.sector]) < AllocPerNode)
    PROVE  \E lw : /\ Climbing(ClimbOne(t, step), l, leafs, top, depth, lw)
                   /\ Kept(t, ClimbOne(t, step), step.sector, leafs, lv, lw)
<1> DEFINE b == step.sector
           old == t.node[b]
           h == NodeHalf(old)
           n == Min(t.fresh)
           e == [key |-> t.key, sector |-> t.child]
           toUpper == step.next > h + 1
           index1 == WithNode(t.node, n)
           index2 == [index1 EXCEPT ![n] = @ \o SubSeq(index1[b], h + 1, Len(index1[b])),
                                    ![b] = SubSeq(@, 1, h)]
           to == IF toUpper THEN n ELSE b
           at == IF toUpper THEN step.next - h ELSE step.next
           index3 == [index2 EXCEPT ![to] = InsertAt(@, at, e)]
           u == [node |-> index3, key |-> old[h + 1].key, child |-> n, fresh |-> t.fresh \ {n}]
<1>1. /\ t = [node |-> t.node, key |-> t.key, child |-> t.child, fresh |-> t.fresh]
      /\ Forest(leafs, t.node, {top} \union {t.child}, depth, lv)
      /\ Waiting(t) = {t.child} /\ t.child # top
      /\ t.key \in Int /\ lv[t.child] = l + 1 /\ b \in DOMAIN t.node
  BY DEF Climbing, Waiting
<1>2. /\ old \in Seq(Entry) /\ Len(old) \in Nat /\ t.child \in Sectors
      /\ t.child \in Blocks(leafs, t.node)
  BY <1>1 DEF Forest, Levelled, Blocks
<1>3. Len(old) = AllocPerNode
  <2>1. Len(old) \in 1 .. AllocPerNode
    BY <1>1 DEF Climbing
  <2> QED
    BY <2>1, TreeAssumption
<1>4. h \in Nat /\ 1 <= h /\ h + 1 <= Len(old)
  BY <1>2, <1>3, TreeAssumption DEF NodeHalf
<1>5. /\ n \in t.fresh /\ n \in Sectors /\ n \notin Blocks(leafs, t.node)
      /\ t.fresh \ {n} \in SUBSET Sectors /\ Cardinality(t.fresh \ {n}) >= l
  <2>1. t.fresh \in SUBSET Sectors /\ Cardinality(t.fresh) >= l + 1 /\ l \in Nat
    BY DEF Climbing
  <2> QED
    BY <2>1, FreshBlock DEF Climbing
<1>6. e \in Entry /\ e.sector = t.child
  BY <1>1, <1>2 DEF Entry
<1>7. b # n /\ lv[b] = l
  BY <1>1, <1>5 DEF Blocks
<1>8. l \in 1 .. depth
  <2>1. lv[b] \in 1 .. depth + 1 /\ (b \in leafs <=> lv[b] = depth + 1) /\ b \notin leafs
    BY <1>1 DEF Forest, Levelled, Blocks
  <2>2. depth \in Nat /\ lv[b] = l
    BY <1>1 DEF Forest, Levelled
  <2> QED
    BY <2>1, <2>2
<1> HIDE DEF b, old, h, n, e
<1>9. /\ DOMAIN index1 = DOMAIN t.node \union {n}
      /\ index1[n] = <<>>
      /\ \A s \in DOMAIN t.node : index1[s] = t.node[s]
  BY <1>5 DEF Blocks, WithNode
<1> DEFINE lw == [x \in Blocks(leafs, t.node) \union {n} |-> IF x = n THEN l ELSE lv[x]]
<1>10. /\ lw \in [Blocks(leafs, t.node) \union {n} -> 1 .. depth + 1]
       /\ lw[n] = l /\ lw[n] # depth + 1
       /\ \A x \in Blocks(leafs, t.node) : lw[x] = lv[x]
  <2>1. lv \in [Blocks(leafs, t.node) -> 1 .. depth + 1] /\ depth \in Nat
    BY <1>1 DEF Forest, Levelled
  <2> QED
    BY <1>5, <1>8, <2>1
<1> HIDE DEF lw
<1>30. Forest(leafs, index1, {top, t.child, n}, depth, lw)
  <2>1. ({top} \union {t.child}) \union {n} = {top, t.child, n}
    OBVIOUS
  <2>2. Forest(leafs, index1, ({top} \union {t.child}) \union {n}, depth, lw)
    <3> DEFINE index == t.node
               tops == {top} \union {t.child}
    <3>1. Forest(leafs, index, tops, depth, lv) /\ index1 = WithNode(index, n)
      BY <1>1
    <3>2. /\ n \in Sectors /\ n \notin Blocks(leafs, index) /\ lw[n] # depth + 1
          /\ lw \in [Blocks(leafs, index) \union {n} -> 1 .. depth + 1]
          /\ \A x \in Blocks(leafs, index) : lw[x] = lv[x]
      BY <1>5, <1>10
    <3> HIDE DEF index, tops, index1
    <3> QED
      BY <3>1, <3>2, NodeAdded DEF tops
  <2> QED
    BY <2>1, <2>2
<1> HIDE DEF index1
<1>0. lw[b] = lv[b] /\ b \in Blocks(leafs, t.node)
  BY <1>1, <1>10 DEF Blocks
<1>11. index1[b] = old /\ b \in DOMAIN index1 /\ n \in DOMAIN index1
  BY <1>1, <1>9 DEF old
<1>12. Forest(leafs, index2, {top, t.child, n}, depth, lw)
  <2>1. h \in 0 .. Len(index1[b])
    BY <1>2, <1>4, <1>11
  <2> QED
    BY <1>0, <1>7, <1>10, <1>11, <1>30, <2>1, KidsMoved
<1>13. /\ DOMAIN index2 = DOMAIN t.node \union {n}
       /\ index2[n] = <<>> \o SubSeq(old, h + 1, Len(old))
       /\ index2[b] = SubSeq(old, 1, h)
       /\ \A s \in DOMAIN t.node : s # b => index2[s] = t.node[s]
  BY <1>1, <1>5, <1>7, <1>9, <1>11 DEF Blocks
<1> HIDE DEF index2
<1>14. /\ SubSeq(old, 1, h) \in Seq(Entry) /\ Len(SubSeq(old, 1, h)) = h
       /\ SubSeq(old, h + 1, Len(old)) \in Seq(Entry)
       /\ Len(SubSeq(old, h + 1, Len(old))) = Len(old) - h
  <2>1. SubSeq(old, 1, h) \in Seq(Entry) /\ Len(SubSeq(old, 1, h)) = h
    BY <1>2, <1>4, SubSeqProperties
  <2>2. /\ SubSeq(old, h + 1, Len(old)) \in Seq(Entry)
        /\ Len(SubSeq(old, h + 1, Len(old))) = Len(old) - h
    BY <1>2, <1>4, SubSeqProperties
  <2> QED
    BY <2>1, <2>2
<1>15. index2[n] = SubSeq(old, h + 1, Len(old))
  BY <1>13, <1>14
<1>16. at \in 1 .. Len(index2[to]) + 1 /\ to \in DOMAIN index2 /\ lw[e.sector] = lw[to] + 1
  <2>1. step.next \in 2 .. Len(old) + 1
    BY DEF old, b
  <2>2. lw[e.sector] = l + 1 /\ lw[to] = l
    BY <1>0, <1>1, <1>2, <1>6, <1>7, <1>10
  <2>3. at \in 1 .. Len(index2[to]) + 1
    <3>1. Len(old) \in Nat /\ h \in Nat /\ h >= 1 /\ h + 1 <= Len(old)
      BY <1>2, <1>4
    <3>2. Len(index2[n]) = Len(old) - h
      BY <1>14, <1>15
    <3>3. Len(index2[b]) = h
      BY <1>13, <1>14
    <3>4. CASE toUpper
      <4>1. to = n /\ at = step.next - h
        BY <3>4
      <4>2. step.next - h \in 1 .. (Len(old) - h) + 1
        BY ONLY <2>1, <3>1, <3>4
      <4> QED
        BY ONLY <3>2, <4>1, <4>2
    <3>5. CASE ~toUpper
      <4>1. to = b /\ at = step.next
        BY <3>5
      <4>2. step.next \in 1 .. h + 1
        BY ONLY <2>1, <3>1, <3>5
      <4> QED
        BY ONLY <3>3, <4>1, <4>2
    <3> QED
      BY <3>4, <3>5
  <2> QED
    BY <1>1, <1>13, <2>2, <2>3
<1>17. index2[to] \in Seq(Entry) /\ Len(index2[to]) \in 1 .. AllocPerNode - 1
  <2>1. index2[n] \in Seq(Entry) /\ Len(index2[n]) \in 1 .. AllocPerNode - 1
    <3> DEFINE part == SubSeq(old, h + 1, Len(old))
               o == Len(old)
    <3>1. index2[n] = part /\ part \in Seq(Entry) /\ Len(part) = o - h
      BY ONLY <1>14, <1>15
    <3>2. o = AllocPerNode /\ o \in Nat /\ h \in Nat /\ 1 <= h /\ h + 1 <= o
      BY ONLY <1>2, <1>3, <1>4
    <3> HIDE DEF part, o
    <3>3. o - h \in 1 .. AllocPerNode - 1
      BY ONLY <3>2
    <3> QED
      BY ONLY <3>1, <3>3
  <2>2. index2[b] \in Seq(Entry) /\ Len(index2[b]) \in 1 .. AllocPerNode - 1
    <3> DEFINE part == SubSeq(old, 1, h)
               o == Len(old)
    <3>1. index2[b] = part /\ part \in Seq(Entry) /\ Len(part) = h
      BY ONLY <1>13, <1>14
    <3>2. o = AllocPerNode /\ o \in Nat /\ h \in Nat /\ 1 <= h /\ h + 1 <= o
      BY ONLY <1>2, <1>3, <1>4
    <3> HIDE DEF part, o
    <3>3. h \in 1 .. AllocPerNode - 1
      BY ONLY <3>2
    <3> QED
      BY ONLY <3>1, <3>3
  <2>3. to = n \/ to = b
    OBVIOUS
  <2> HIDE DEF to
  <2> QED
    BY <2>1, <2>2, <2>3
<1> HIDE DEF to, at
<1>18. Forest(leafs, index3, {top, n}, depth, lw)
  <2>1. e.sector \in {top, t.child, n}
    BY <1>6
  <2>2. Forest(leafs, index3, {top, t.child, n} \ {e.sector}, depth, lw)
    BY <1>6, <1>12, <1>16, <2>1, KidPutIn
  <2>3. {top, t.child, n} \ {e.sector} = {top, n}
    BY <1>1, <1>2, <1>5, <1>6
  <2> QED
    BY <2>2, <2>3
<1>19. /\ DOMAIN index3 = DOMAIN t.node \union {n}
       /\ index3[to] = InsertAt(index2[to], at, e)
       /\ \A s \in DOMAIN index2 : s # to => index3[s] = index2[s]
  BY <1>13, <1>16
<1>20. index3 = [s \in DOMAIN t.node \union {n} |-> index3[s]]
  BY <1>13
<1> HIDE DEF index3
<1>21. Len(index3[to]) \in 1 .. AllocPerNode
  <2>1. Len(InsertAt(index2[to], at, e)) = Len(index2[to]) + 1
    <3>1. index2[to] \in Seq(Entry) /\ at \in 1 .. Len(index2[to]) + 1 /\ e \in Entry
      BY <1>6, <1>16, <1>17
    <3> QED
      BY <3>1, InsertAtProperties
  <2> QED
    BY <1>17, <1>19, <2>1, TreeAssumption
<1>22. \A s \in DOMAIN index3 : Len(index3[s]) \in 1 .. AllocPerNode
  <2> SUFFICES ASSUME NEW s \in DOMAIN index3, s # to
               PROVE  Len(index2[s]) \in 1 .. AllocPerNode
    BY <1>13, <1>19, <1>21
  <2>1. CASE s = n \/ s = b
    BY <1>2, <1>3, <1>4, <1>13, <1>14, <1>15, <2>1
  <2>2. CASE ~(s = n \/ s = b)
    BY <1>13, <1>19, <2>2 DEF Climbing
  <2> QED
    BY <2>1, <2>2
<1>23. ClimbOne(t, step) = u
  <2> DEFINE lower == SubSeq(old, 1, h)
             upper == SubSeq(old, h + 1, Len(old))
             nodes == [s \in DOMAIN t.node \union {n} |->
                                IF s = n
                                THEN IF step.next > h + 1 THEN InsertAt(upper, step.next - h, e)
                                     ELSE upper
                                ELSE IF s = b
                                THEN IF step.next > h + 1 THEN lower ELSE InsertAt(lower, step.next, e)
                                ELSE t.node[s]]
  <2>1. ClimbOne(t, step) =
            [t EXCEPT !.node = nodes, !.key = old[h + 1].key, !.child = n, !.fresh = @ \ {n}]
    BY DEF ClimbOne, old, b, h, n, e
  <2>2. nodes = index3
    <3>1. ASSUME NEW s \in DOMAIN t.node \union {n}
          PROVE  nodes[s] = index3[s]
      <4>1. CASE s = n
        BY <1>7, <1>13, <1>15, <1>19, <4>1 DEF to, at
      <4>2. CASE s = b
        BY <1>7, <1>13, <1>15, <1>19, <4>2 DEF to, at
      <4>3. CASE s # n /\ s # b
        BY <1>13, <1>19, <4>3 DEF to
      <4> QED
        BY <4>1, <4>2, <4>3
    <3> QED
      BY <1>20, <3>1
  <2> HIDE DEF nodes
  <2>3. ClimbOne(t, step) =
            [node |-> nodes, key |-> old[h + 1].key, child |-> n, fresh |-> t.fresh \ {n}]
    BY <1>1, <2>1
  <2> QED
    BY <2>2, <2>3
<1>24. /\ u.node = index3 /\ u.key = old[h + 1].key /\ u.child = n
       /\ u.fresh = t.fresh \ {n}
       /\ u = [node |-> u.node, key |-> u.key, child |-> u.child, fresh |-> u.fresh]
  OBVIOUS
<1> HIDE DEF u
<1>25. Waiting(u) = {n}
  <2>1. n # 0
    BY <1>5, TreeAssumption
  <2> QED
    BY <1>24, <2>1 DEF Waiting, NIL
<1>26. old[h + 1].key \in Int
  <2>1. old[h + 1] \in Entry
    BY <1>2, <1>4
  <2> QED
    BY <2>1 DEF Entry
<1>27. Climbing(u, l, leafs, top, depth, lw)
  <2>1. top \in DOMAIN t.node /\ lv[top] = 1 /\ top # n /\ lw[top] = 1
    BY <1>5, <1>10 DEF Climbing, Blocks
  <2>2. Forest(leafs, u.node, {top} \union Waiting(u), depth, lw)
    <3>1. {top} \union {n} = {top, n}
      OBVIOUS
    <3> QED
      BY <1>18, <1>24, <1>25, <3>1
  <2>3. u.fresh \intersect Blocks(leafs, u.node) = {}
    <3>1. Blocks(leafs, u.node) = Blocks(leafs, t.node) \union {n}
      BY <1>19, <1>24 DEF Blocks
    <3> QED
      BY <1>24, <3>1 DEF Climbing
  <2>4. top \in DOMAIN u.node /\ \A s \in DOMAIN u.node : Len(u.node[s]) \in 1 .. AllocPerNode
    BY <1>19, <1>22, <1>24, <2>1
  <2> QED
    BY <1>5, <1>10, <1>24, <1>26, <2>1, <2>2, <2>3, <2>4 DEF Climbing
<1>28. \A s \in DOMAIN t.node \ {step.sector} : u.node[s] = t.node[s]
  BY <1>5, <1>13, <1>19, <1>24 DEF to, b, Blocks
<1>29. DOMAIN t.node \in SUBSET DOMAIN u.node
  BY <1>19, <1>24
<1> QED
  BY <1>10, <1>23, <1>27, <1>28, <1>29 DEF Kept

\* One level of the climb, whether the node has room or not.
LEMMA ClimbOneKeeps ==
    ASSUME NEW t, NEW l \in Nat \ {0}, NEW leafs, NEW top, NEW depth, NEW lv,
           Climbing(t, l + 1, leafs, top, depth, lv),
           NEW step, step.sector \in DOMAIN t.node, lv[step.sector] = l,
           step.next \in 2 .. Len(t.node[step.sector]) + 1
    PROVE  \E lw : /\ Climbing(ClimbOne(t, step), l, leafs, top, depth, lw)
                   /\ Kept(t, ClimbOne(t, step), step.sector, leafs, lv, lw)
<1>1. CASE t.child = NIL
  <2>1. ClimbOne(t, step) = t
    BY <1>1 DEF ClimbOne
  <2>2. Cardinality(t.fresh) \in Nat
    BY TreeAssumption, FS_Subset, FS_CardinalityType DEF Climbing
  <2>3. Cardinality(t.fresh) >= l
    BY <2>2 DEF Climbing
  <2>4. Climbing(t, l, leafs, top, depth, lv)
    BY <1>1, <2>3 DEF Climbing
  <2> QED
    BY <2>1, <2>4 DEF Kept
<1>2. CASE t.child # NIL /\ Len(t.node[step.sector]) < AllocPerNode
  <2>1. /\ Climbing(ClimbOne(t, step), l, leafs, top, depth, lv)
        /\ DOMAIN ClimbOne(t, step).node = DOMAIN t.node
        /\ \A s \in DOMAIN t.node \ {step.sector} : ClimbOne(t, step).node[s] = t.node[s]
    BY <1>2, ClimbFits
  <2> QED
    BY <2>1 DEF Kept
<1>3. CASE t.child # NIL /\ ~(Len(t.node[step.sector]) < AllocPerNode)
  BY <1>3, ClimbSplits
<1> QED
  BY <1>1, <1>2, <1>3

\* The function by which Climbed is defined.
Climbs(from, path, start) ==
    from = [l \in 1 .. Len(path) + 1 |->
               IF l = Len(path) + 1 THEN start ELSE ClimbOne(from[l + 1], path[l])]

\* Climbed takes its index from that function ...
LEMMA ClimbedIs ==
    ASSUME NEW path, NEW key, NEW child, NEW fresh
    PROVE  Climbed(path, key, child, fresh)
              = (CHOOSE from : Climbs(from, path, [node |-> node, key |-> key, child |-> child,
                                                   fresh |-> fresh]))[1]
  BY DEF Climbed, Climbs

\* ... which exists for every path.
LEMMA ClimbExists ==
    ASSUME NEW path, Len(path) \in Nat, NEW start
    PROVE  \E from : Climbs(from, path, start)
<1> DEFINE top == Len(path) + 1
           Good == {n \in Nat : n <= top - 1 =>
                      \E from : /\ DOMAIN from = top - n .. top
                                /\ \A l \in top - n .. top :
                                      from[l] = IF l = top THEN start
                                                ELSE ClimbOne(from[l + 1], path[l])}
<1>1. top \in Nat
  OBVIOUS
<1>5. top = Len(path) + 1
  OBVIOUS
<1> HIDE DEF top
<1>2. 0 \in Good
  <2> DEFINE from == [l \in top - 0 .. top |-> start]
  <2>1. /\ DOMAIN from = top - 0 .. top
        /\ \A l \in top - 0 .. top : from[l] = start /\ l = top
    BY <1>1
  <2> HIDE DEF from
  <2> QED
    BY <2>1
<1>3. ASSUME NEW n \in Nat, n \in Good
      PROVE  n + 1 \in Good
  <2> SUFFICES ASSUME n + 1 <= top - 1
               PROVE  \E from : /\ DOMAIN from = top - (n + 1) .. top
                                /\ \A l \in top - (n + 1) .. top :
                                      from[l] = IF l = top THEN start
                                                ELSE ClimbOne(from[l + 1], path[l])
    OBVIOUS
  <2>0. n <= top - 1
    BY <1>1
  <2>1. PICK f : /\ DOMAIN f = top - n .. top
                 /\ \A l \in top - n .. top :
                       f[l] = IF l = top THEN start ELSE ClimbOne(f[l + 1], path[l])
    BY <1>3, <2>0
  <2> DEFINE m == top - (n + 1)
             from == [l \in m .. top |-> IF l = m THEN ClimbOne(f[m + 1], path[m]) ELSE f[l]]
  <2>2. m \in Int /\ m + 1 = top - n /\ m < top /\ \A l \in m .. top : l # m => l \in top - n .. top
    BY <1>1, <2>0
  <2>3. DOMAIN from = m .. top
    OBVIOUS
  <2>4. m \in m .. top /\ m + 1 \in m .. top /\ m + 1 # m
    BY <1>1, <2>2
  <2>5. from[m] = ClimbOne(f[m + 1], path[m]) /\ from[m + 1] = f[m + 1]
    BY <2>4
  <2>6. \A l \in m .. top : l # m => from[l] = f[l]
    OBVIOUS
  <2> HIDE DEF from, m
  <2>7. ASSUME NEW l \in m .. top
        PROVE  from[l] = IF l = top THEN start ELSE ClimbOne(from[l + 1], path[l])
    <3>1. CASE l = m
      <4>1. l # top
        BY <1>1, <2>2, <3>1
      <4> QED
        BY <2>5, <3>1, <4>1
    <3>2. CASE l # m /\ l = top
      <4>1. l \in top - n .. top
        BY <2>2, <3>2
      <4> QED
        BY <2>1, <2>6, <3>2, <4>1
    <3>3. CASE l # m /\ l # top
      <4>1. l \in top - n .. top
        BY <2>2, <3>3
      <4>2. l + 1 \in m .. top /\ l + 1 # m
        BY <1>1, <2>2, <3>3
      <4>3. f[l] = ClimbOne(f[l + 1], path[l])
        BY <2>1, <3>3, <4>1
      <4> QED
        BY <2>6, <3>3, <4>2, <4>3
    <3> QED
      BY <3>1, <3>2, <3>3
  <2> QED
    BY <2>3, <2>7 DEF m
<1>4. \A n \in Nat : n \in Good
  <2> HIDE DEF Good
  <2> QED
    BY <1>2, <1>3, NatInduct
<1>6. top - 1 \in Nat /\ top - (top - 1) = 1
  BY <1>1, <1>5
<1>7. PICK f : /\ DOMAIN f = top - (top - 1) .. top
               /\ \A l \in top - (top - 1) .. top :
                     f[l] = IF l = top THEN start ELSE ClimbOne(f[l + 1], path[l])
  BY <1>4, <1>6
<1> DEFINE g == [l \in 1 .. top |-> f[l]]
<1>8. \A l \in 1 .. top : f[l] = IF l = top THEN start ELSE ClimbOne(f[l + 1], path[l])
  BY <1>6, <1>7
<1>9. \A l \in 1 .. top : l # top => l + 1 \in 1 .. top
  BY <1>1
<1>10. \A l \in 1 .. top : g[l] = IF l = top THEN start ELSE ClimbOne(g[l + 1], path[l])
  BY <1>8, <1>9
<1>11. g = [l \in 1 .. top |-> IF l = top THEN start ELSE ClimbOne(g[l + 1], path[l])]
  BY <1>10
<1> HIDE DEF g
<1> QED
  BY <1>5, <1>11 DEF Climbs

\* The nodes of the path that the climb has not come to, on their levels.
Ahead(t, path, l, lw) ==
    \A k \in 1 .. l - 1 :
        /\ path[k].sector \in DOMAIN t.node /\ lw[path[k].sector] = k
        /\ path[k].next \in 2 .. Len(t.node[path[k].sector]) + 1

\* The climb of the whole path.
LEMMA ClimbedKeeps ==
    ASSUME NEW path, Len(path) = levels, levels \in Nat \ {0},
           NEW leafs, NEW lv, NEW start,
           Climbing(start, levels + 1, leafs, root, levels, lv), Ahead(start, path, levels + 1, lv),
           NEW from, Climbs(from, path, start)
    PROVE  \E lw : Climbing(from[1], 1, leafs, root, levels, lw)
<1> DEFINE Good == {n \in Nat : n <= levels =>
                       \E lw : /\ Climbing(from[(levels + 1) - n], (levels + 1) - n, leafs, root, levels, lw)
                               /\ Ahead(from[(levels + 1) - n], path, (levels + 1) - n, lw)}
<1>1. \A l \in 1 .. levels + 1 :
          from[l] = IF l = levels + 1 THEN start ELSE ClimbOne(from[l + 1], path[l])
  BY DEF Climbs
<1>2. 0 \in Good
  <2>1. (levels + 1) - 0 = levels + 1 /\ levels + 1 \in 1 .. levels + 1
    OBVIOUS
  <2>2. from[levels + 1] = start
    BY <1>1, <2>1
  <2>3. \E lw : /\ Climbing(from[levels + 1], levels + 1, leafs, root, levels, lw)
                /\ Ahead(from[levels + 1], path, levels + 1, lw)
    BY <2>2
  <2> QED
    BY <2>1, <2>3
<1>3. ASSUME NEW n \in Nat, n \in Good
      PROVE  n + 1 \in Good
  <2> SUFFICES ASSUME n + 1 <= levels
               PROVE  \E lw : /\ Climbing(from[(levels + 1) - (n + 1)], (levels + 1) - (n + 1),
                                          leafs, root, levels, lw)
                              /\ Ahead(from[(levels + 1) - (n + 1)], path, (levels + 1) - (n + 1), lw)
    OBVIOUS
  <2> DEFINE l == (levels + 1) - (n + 1)
             t == from[l + 1]
             u == from[l]
             step == path[l]
  <2>1. /\ n <= levels /\ l \in Nat \ {0} /\ l \in 1 .. levels + 1 /\ l # levels + 1
        /\ (levels + 1) - n = l + 1
    OBVIOUS
  <2>2. PICK lw : /\ Climbing(from[(levels + 1) - n], (levels + 1) - n, leafs, root, levels, lw)
                  /\ Ahead(from[(levels + 1) - n], path, (levels + 1) - n, lw)
    BY <1>3, <2>1
  <2>3. Climbing(t, l + 1, leafs, root, levels, lw) /\ Ahead(t, path, l + 1, lw)
    BY <2>1, <2>2
  <2>4. u = ClimbOne(t, step)
    BY <1>1, <2>1
  <2> HIDE DEF l, u, t, step
  <2>5. l \in 1 .. (l + 1) - 1 /\ \A k \in 1 .. l - 1 : k \in 1 .. (l + 1) - 1 /\ k # l
    BY <2>1
  <2>6. /\ step.sector \in DOMAIN t.node /\ lw[step.sector] = l
        /\ step.next \in 2 .. Len(t.node[step.sector]) + 1
    BY <2>3, <2>5 DEF Ahead, step
  <2>7. PICK lx : /\ Climbing(ClimbOne(t, step), l, leafs, root, levels, lx)
                  /\ Kept(t, ClimbOne(t, step), step.sector, leafs, lw, lx)
    BY <2>1, <2>3, <2>6, ClimbOneKeeps
  <2>8. Climbing(u, l, leafs, root, levels, lx) /\ Kept(t, u, step.sector, leafs, lw, lx)
    BY <2>4, <2>7
  <2>9. Ahead(u, path, l, lx)
    <3> SUFFICES ASSUME NEW k \in 1 .. l - 1
                 PROVE  /\ path[k].sector \in DOMAIN u.node /\ lx[path[k].sector] = k
                        /\ path[k].next \in 2 .. Len(u.node[path[k].sector]) + 1
      BY DEF Ahead
    <3> DEFINE s == path[k].sector
    <3>1. /\ s \in DOMAIN t.node /\ lw[s] = k /\ k # l
          /\ path[k].next \in 2 .. Len(t.node[s]) + 1
      BY <2>3, <2>5 DEF Ahead
    <3>2. s # step.sector /\ s \in Blocks(leafs, t.node)
      BY <2>6, <3>1 DEF Blocks
    <3>3. s \in DOMAIN u.node /\ u.node[s] = t.node[s] /\ lx[s] = lw[s]
      BY <2>8, <3>1, <3>2 DEF Kept
    <3> HIDE DEF s
    <3>4. s \in DOMAIN u.node /\ lx[s] = k /\ path[k].next \in 2 .. Len(u.node[s]) + 1
      BY <3>1, <3>3
    <3> QED
      BY <3>4 DEF s
  <2>10. \E lz : Climbing(u, l, leafs, root, levels, lz) /\ Ahead(u, path, l, lz)
    BY <2>8, <2>9
  <2> QED
    BY <2>10 DEF l, u
<1>4. \A n \in Nat : n \in Good
  <2> HIDE DEF Good
  <2> QED
    BY <1>2, <1>3, NatInduct
<1>5. levels \in Nat /\ (levels + 1) - levels = 1
  OBVIOUS
<1>6. PICK lw : Climbing(from[(levels + 1) - levels], (levels + 1) - levels, leafs, root, levels, lw)
  BY <1>4, <1>5
<1> QED
  BY <1>5, <1>6

\* The root was split: the new one has the two on the level below.
LEMMA RootGrown ==
    ASSUME NEW t, NEW leafs, NEW depth, NEW lv,
           Climbing(t, 1, leafs, root, depth, lv), t.child # NIL
    PROVE  \E lw : /\ Forest(leafs, NewRoot(t), {Min(t.fresh)}, depth + 1, lw)
                   /\ lw[Min(t.fresh)] = 1
<1> DEFINE n == Min(t.fresh)
           g == t.node
           e1 == [key |-> 0, sector |-> root]
           e2 == [key |-> t.key, sector |-> t.child]
           index1 == WithNode(g, n)
           index2 == [index1 EXCEPT ![n] = InsertAt(@, 1, e1)]
           index3 == [index2 EXCEPT ![n] = InsertAt(@, 2, e2)]
<1>1. /\ Forest(leafs, g, {root, t.child}, depth, lv)
      /\ root # t.child /\ root \in Blocks(leafs, g) /\ t.child \in Blocks(leafs, g)
      /\ lv[root] = 1 /\ lv[t.child] = 1 /\ t.key \in Int
  <2>1. Forest(leafs, g, {root} \union {t.child}, depth, lv)
    BY DEF Climbing, Waiting
  <2>2. {root} \union {t.child} = {root, t.child}
    OBVIOUS
  <2>3. Forest(leafs, g, {root, t.child}, depth, lv)
    BY <2>1, <2>2
  <2>4. root \in Blocks(leafs, g) /\ t.child \in Blocks(leafs, g)
    BY <2>3 DEF Forest, Levelled
  <2> QED
    BY <2>3, <2>4 DEF Climbing
<1>2. n \in Sectors /\ n \notin Blocks(leafs, g)
  <2>1. t.fresh \in SUBSET Sectors /\ Cardinality(t.fresh) >= 0 + 1 /\ 0 \in Nat
    BY DEF Climbing
  <2>2. n \in t.fresh
    BY <2>1, FreshBlock
  <2> QED
    BY <2>1, <2>2 DEF Climbing
<1>3. Blocks(leafs, g) \in SUBSET Sectors /\ depth \in Nat \ {0}
  BY <1>1 DEF Forest, Levelled, Blocks
<1>4. e1 \in Entry /\ e1.sector = root /\ e2 \in Entry /\ e2.sector = t.child
  BY <1>1, <1>3 DEF Entry
<1> HIDE DEF n, g, e1, e2
<1>5. PICK up : /\ Forest(leafs, g, {root, t.child}, depth + 1, up)
                /\ \A b \in Blocks(leafs, g) : up[b] = lv[b] + 1
  BY <1>1, LevelAdded
<1> DEFINE lw == [x \in Blocks(leafs, g) \union {n} |-> IF x = n THEN 1 ELSE up[x]]
<1>6. /\ lw \in [Blocks(leafs, g) \union {n} -> 1 .. (depth + 1) + 1]
      /\ lw[n] = 1 /\ lw[n] # (depth + 1) + 1
      /\ \A x \in Blocks(leafs, g) : lw[x] = up[x]
  <2>1. up \in [Blocks(leafs, g) -> 1 .. (depth + 1) + 1]
    BY <1>5 DEF Forest, Levelled
  <2> QED
    BY <1>2, <1>3, <2>1
<1> HIDE DEF lw
<1>7. lw[root] = lw[n] + 1 /\ lw[t.child] = lw[n] + 1
  BY <1>1, <1>5, <1>6
<1>8. /\ DOMAIN index1 = DOMAIN g \union {n} /\ index1[n] = <<>>
      /\ \A s \in DOMAIN g : index1[s] = g[s] /\ s # n
  BY <1>2 DEF WithNode, Blocks
<1>9. Forest(leafs, index1, {root, t.child, n}, depth + 1, lw)
  <2>1. Forest(leafs, index1, {root, t.child} \union {n}, depth + 1, lw)
    BY <1>2, <1>5, <1>6, NodeAdded
  <2>2. {root, t.child} \union {n} = {root, t.child, n}
    OBVIOUS
  <2> QED
    BY <2>1, <2>2
<1> HIDE DEF index1
<1>10. <<>> \in Seq(Entry) /\ Len(<<>>) = 0
  OBVIOUS
<1>11. Forest(leafs, index2, {root, t.child, n} \ {root}, depth + 1, lw)
  <2>1. /\ n \in DOMAIN index1 /\ 1 \in 1 .. Len(index1[n]) + 1
        /\ e1.sector \in {root, t.child, n} /\ lw[e1.sector] = lw[n] + 1
    BY <1>4, <1>7, <1>8, <1>10
  <2> QED
    BY <1>4, <1>9, <2>1, KidPutIn
<1>12. /\ DOMAIN index2 = DOMAIN g \union {n} /\ index2[n] = InsertAt(<<>>, 1, e1)
       /\ \A s \in DOMAIN g : index2[s] = g[s]
  BY <1>8
<1> HIDE DEF index2
<1>13. index2[n] = <<e1>> /\ <<e1>> \in Seq(Entry) /\ Len(<<e1>>) = 1
  <2>1. InsertAt(<<>>, Len(<<>>) + 1, e1) = Append(<<>>, e1)
    BY <1>4, <1>10, InsertAtEnd
  <2>2. Append(<<>>, e1) = <<e1>> /\ Len(<<>>) + 1 = 1
    OBVIOUS
  <2>3. index2[n] = <<e1>>
    BY <1>12, <2>1, <2>2
  <2>4. <<e1>> \in Seq(Entry) /\ Len(<<e1>>) = 1
    BY <1>4
  <2> QED
    BY <2>3, <2>4
<1>14. Forest(leafs, index3, {n}, depth + 1, lw)
  <2>0. Len(index2[n]) = 1
    BY <1>13
  <2>1. n \in DOMAIN index2 /\ 2 \in 1 .. Len(index2[n]) + 1
    BY <1>12, <2>0
  <2>4. lw[e2.sector] = lw[n] + 1
    BY <1>4, <1>7
  <2>5. e2.sector \in {root, t.child, n} \ {root}
    BY <1>1, <1>4
  <2>2. Forest(leafs, index3, ({root, t.child, n} \ {root}) \ {e2.sector}, depth + 1, lw)
    BY <1>4, <1>11, <2>1, <2>4, <2>5, KidPutIn
  <2>3. ({root, t.child, n} \ {root}) \ {e2.sector} = {n}
    BY <1>1, <1>2, <1>4
  <2> QED
    BY <2>2, <2>3
<1>15. /\ index3[n] = InsertAt(index2[n], 2, e2)
       /\ \A s \in DOMAIN g : index3[s] = g[s]
       /\ index3 = [s \in DOMAIN g \union {n} |-> index3[s]]
  BY <1>8, <1>12
<1> HIDE DEF index3
<1>16. index3[n] = <<e1, e2>>
  <2>1. InsertAt(<<e1>>, Len(<<e1>>) + 1, e2) = Append(<<e1>>, e2)
    BY <1>4, <1>13, InsertAtEnd
  <2>2. Append(<<e1>>, e2) = <<e1, e2>> /\ Len(<<e1>>) + 1 = 2
    BY <1>4, <1>13, AppendSecond
  <2>3. index3[n] = InsertAt(<<e1>>, 2, e2)
    BY <1>13, <1>15
  <2> QED
    BY <2>1, <2>2, <2>3
<1>17. NewRoot(t) = index3
  <2>1. NewRoot(t) = [s \in DOMAIN g \union {n} |-> IF s = n THEN <<e1, e2>> ELSE g[s]]
    BY DEF NewRoot, n, g, e1, e2
  <2>2. \A s \in DOMAIN g \union {n} : index3[s] = IF s = n THEN <<e1, e2>> ELSE g[s]
    BY <1>15, <1>16
  <2> QED
    BY <1>15, <2>1, <2>2
<1> QED
  BY <1>6, <1>14, <1>17 DEF n

\* No node is empty or too long with the new root.
LEMMA RootGrownFits ==
    ASSUME NEW t, NEW leafs, NEW depth, NEW lv,
           Climbing(t, 1, leafs, root, depth, lv), t.child # NIL
    PROVE  \A s \in DOMAIN NewRoot(t) : Len(NewRoot(t)[s]) \in 1 .. AllocPerNode
<1> DEFINE two == <<[key |-> 0, sector |-> root], [key |-> t.key, sector |-> t.child]>>
<1>1. Len(two) \in 1 .. AllocPerNode
  BY TreeAssumption
<1> HIDE DEF two
<1>2. \A s \in DOMAIN NewRoot(t) :
          \/ NewRoot(t)[s] = two
          \/ s \in DOMAIN t.node /\ NewRoot(t)[s] = t.node[s]
  BY DEF NewRoot, two
<1> QED
  BY <1>1, <1>2 DEF Climbing

-----------------------------------------------------------------------------
(* Where the walk of a deletion is.                                          *)

\* Entry i of node s leads to block b.
Leads(index, s, i, b) == i \in 1 .. Len(index[s]) /\ index[s][i].sector = b

\* The last entry of node s leads to block b.
EndsIn(index, s, b) == Leads(index, s, Len(index[s]), b)

\* The node s of the index is on level k.
OnLevel(index, lv, s, k) == s \in DOMAIN index /\ lv[s] = k

\* The block below level k that was done last: a leaf, or the node held on the
\* next level.
LastBelow(hold, prev, depth, k) == IF k = depth THEN prev ELSE hold[k + 1]

\* It is below the entry before the next one; if that is the first, it is the
\* last below the node held on its level.
LastDone(path, hold, index, k, done, last) ==
    last # NIL => IF done >= 1 THEN Leads(index, path[k].sector, done, last)
                  ELSE hold[k] # NIL /\ EndsIn(index, hold[k], last)

\* The walk between two blocks: it has done d entries of the node on the path's
\* level; the levels below are done up to the nodes held.
Between(path, level, hold, prev, d, leafs, index, top, depth, lv) ==
    /\ level \in 1 .. depth
    /\ path \in [1 .. depth -> [sector : Sectors, next : Nat]]
    /\ hold \in [1 .. depth -> Sectors \union {NIL}]
    /\ path[1].sector = top /\ hold[1] = NIL
    /\ d \in 0 .. Len(index[path[level].sector])
    /\ prev # NIL => prev \in leafs
    /\ \A k \in 1 .. level : OnLevel(index, lv, path[k].sector, k) /\ hold[k] # path[k].sector
    /\ \A k \in 1 .. level - 1 : Leads(index, path[k].sector, path[k].next - 1, path[k + 1].sector)
    /\ \A k \in 1 .. depth : hold[k] # NIL => OnLevel(index, lv, hold[k], k)
    /\ LastDone(path, hold, index, level, d, LastBelow(hold, prev, depth, level))
    /\ \A k \in 1 .. level - 1 :
          LastDone(path, hold, index, k, path[k].next - 2, LastBelow(hold, prev, depth, k))
    /\ \A k \in level + 1 .. depth :
          hold[k] # NIL /\ EndsIn(index, hold[k], LastBelow(hold, prev, depth, k))

\* No node but s is empty.
FullBut(index, s) == \A t \in DOMAIN index : t # s => Len(index[t]) >= 1

\* The record has the fields of a walk.
IsWalk(w) == w = [at |-> w.at, bits |-> w.bits, level |-> w.level, path |-> w.path,
                  hold |-> w.hold, prev |-> w.prev, this |-> w.this]

\* The walk is at the leaf of the entry before the next one.
AtLeaf(w, leafs, index, top, depth, lv) ==
    LET s == w.path[depth].sector
        n == w.path[depth].next
    IN  /\ w.at = "leaf" /\ w.level = depth
        /\ n \in 2 .. Len(index[s]) + 1
        /\ Between(w.path, depth, w.hold, w.prev, n - 2, leafs, index, top, depth, lv)
        /\ w.this = index[s][n - 1].sector
        /\ FullBut(index, NIL)

\* The walk is behind the last entry of a node, which is empty if all it had
\* has been merged away.
AtNodeEnd(w, leafs, index, top, depth, lv) ==
    LET s == w.path[w.level].sector
        n == w.path[w.level].next
    IN  /\ w.at = "pop"
        /\ n = Len(index[s]) + 1
        /\ Between(w.path, w.level, w.hold, w.prev, n - 1, leafs, index, top, depth, lv)
        /\ LastBelow(w.hold, w.prev, depth, w.level) # NIL
        /\ FullBut(index, s)

\* The walk is on a level above the lowest, before an entry.
AtNode(w, leafs, index, top, depth, lv) ==
    LET s == w.path[w.level].sector
        n == w.path[w.level].next
    IN  /\ w.at = "push" /\ w.level < depth
        /\ n \in 1 .. Len(index[s])
        /\ Between(w.path, w.level, w.hold, w.prev, n - 1, leafs, index, top, depth, lv)
        /\ FullBut(index, NIL)

\* All levels are done: the nodes held are the last of each.
AtTop(w, index, top, depth) ==
    /\ w.at = "shrink"
    /\ w.hold \in [1 .. depth -> Sectors]
    /\ w.hold[1] = top
    /\ \A k \in 1 .. depth - 1 : w.hold[k] \in DOMAIN index /\ EndsIn(index, w.hold[k], w.hold[k + 1])
    /\ w.hold[depth] \in DOMAIN index
    /\ FullBut(index, NIL)

\* The first n entries of a node lead where they did; all of them do; all of all
\* nodes but one do.
SameKids(index, index2, s, n) == \A j \in 1 .. n : index2[s][j].sector = index[s][j].sector

Alike(index, index2, s) ==
    Len(index2[s]) = Len(index[s]) /\ SameKids(index, index2, s, Len(index[s]))

AlikeBut(index, index2, s) == \A t \in DOMAIN index : t # s => Alike(index, index2, t)

\* The nodes are lists.
Counted(index) == \A s \in DOMAIN index : Len(index[s]) \in Nat

\* The path is the same above a level, and its node on it.
SamePath(path, path2, level) ==
    /\ path2[level].sector = path[level].sector
    /\ \A k \in 1 .. level - 1 : path2[k] = path[k]

\* Entries other than those behind the done ones of the path's node may not go.
LEMMA BetweenStays ==
    ASSUME NEW path, NEW level, NEW hold, NEW prev, NEW d, NEW leafs, NEW index, NEW top,
           NEW depth, NEW lv,
           Between(path, level, hold, prev, d, leafs, index, top, depth, lv),
           depth \in Nat, Counted(index),
           NEW leafs2, prev # NIL => prev \in leafs2,
           NEW index2, DOMAIN index2 = DOMAIN index, Counted(index2),
           NEW lw, SameOn(DOMAIN index, lv, lw),
           NEW p, p = path[level].sector, AlikeBut(index, index2, p),
           Len(index2[p]) >= d, SameKids(index, index2, p, d),
           NEW path2, path2 \in [1 .. depth -> [sector : Sectors, next : Nat]],
           SamePath(path, path2, level)
    PROVE  Between(path2, level, hold, prev, d, leafs2, index2, top, depth, lw)
<1> USE DEF Counted, SameOn, AlikeBut, Alike, SameKids, SamePath
<1>1. /\ level \in 1 .. depth /\ level \in Nat /\ 1 <= level
      /\ d \in 0 .. Len(index[p]) /\ p \in DOMAIN index /\ lv[p] = level /\ d \in Nat
  <2>1. level \in 1 .. depth /\ d \in 0 .. Len(index[p]) /\ OnLevel(index, lv, p, level)
    <3>1. level \in 1 .. depth /\ \A k \in 1 .. level : OnLevel(index, lv, path[k].sector, k)
      BY DEF Between
    <3>2. level \in 1 .. level
      BY <3>1
    <3> QED
      BY <3>1, <3>2 DEF Between
  <2>2. level \in Nat /\ 1 <= level
    BY <2>1
  <2> QED
    BY <2>1, <2>2 DEF OnLevel
<1>2. ASSUME NEW s \in DOMAIN index, s # p, NEW i, NEW b, Leads(index, s, i, b)
      PROVE  Leads(index2, s, i, b)
  BY <1>2 DEF Leads
<1>3. ASSUME NEW s \in DOMAIN index, s # p, NEW b, EndsIn(index, s, b)
      PROVE  EndsIn(index2, s, b)
  BY <1>3 DEF EndsIn, Leads
<1>4. ASSUME NEW k \in 1 .. depth, hold[k] # NIL
      PROVE  hold[k] \in DOMAIN index /\ hold[k] # p
  <2>1. OnLevel(index, lv, hold[k], k)
    BY <1>4 DEF Between
  <2>2. CASE k = level
    <3>1. hold[level] # path[level].sector
      BY <1>1 DEF Between
    <3> QED
      BY <2>1, <2>2, <3>1 DEF OnLevel
  <2>3. CASE k # level
    BY <1>1, <2>1, <2>3 DEF OnLevel
  <2> QED
    BY <2>2, <2>3
<1>5. ASSUME NEW k \in 1 .. level - 1
      PROVE  /\ path[k].sector \in DOMAIN index /\ path[k].sector # p
             /\ path2[k] = path[k] /\ k \in 1 .. depth
  <2>1. k \in 1 .. level /\ k # level /\ k \in 1 .. depth
    BY <1>1
  <2>2. OnLevel(index, lv, path[k].sector, k)
    BY <2>1 DEF Between
  <2> QED
    BY <1>1, <2>1, <2>2 DEF OnLevel
<1>6. path2[level].sector = p
  OBVIOUS
<1>7. \A k \in 1 .. level : path2[k].sector = path[k].sector
  <2>1. \A k \in 1 .. level : k = level \/ k \in 1 .. level - 1
    BY <1>1
  <2> QED
    BY <2>1, <1>5
<1>8. path2[1].sector = top
  BY <1>1, <1>7 DEF Between
<1>9. \A k \in 1 .. level : OnLevel(index2, lw, path2[k].sector, k) /\ hold[k] # path2[k].sector
  <2> SUFFICES ASSUME NEW k \in 1 .. level
               PROVE  OnLevel(index2, lw, path2[k].sector, k) /\ hold[k] # path2[k].sector
    OBVIOUS
  <2>1. OnLevel(index, lv, path[k].sector, k) /\ hold[k] # path[k].sector
    BY DEF Between
  <2> QED
    BY <1>7, <2>1 DEF OnLevel
<1>10. ASSUME NEW k \in 1 .. level - 1
       PROVE  Leads(index2, path2[k].sector, path2[k].next - 1, path2[k + 1].sector)
  <2>1. Leads(index, path[k].sector, path[k].next - 1, path[k + 1].sector)
    BY DEF Between
  <2>2. k + 1 \in 1 .. level
    BY <1>1
  <2>3. path2[k + 1].sector = path[k + 1].sector
    BY <1>7, <2>2
  <2>4. path2[k] = path[k] /\ path[k].sector \in DOMAIN index /\ path[k].sector # p
    BY <1>5
  <2>5. Leads(index2, path[k].sector, path[k].next - 1, path[k + 1].sector)
    BY <1>2, <2>1, <2>4
  <2> QED
    BY <2>3, <2>4, <2>5
<1>11. \A k \in 1 .. depth : hold[k] # NIL => OnLevel(index2, lw, hold[k], k)
  BY DEF Between, OnLevel
<1>12. LastDone(path2, hold, index2, level, d, LastBelow(hold, prev, depth, level))
  <2> DEFINE b == LastBelow(hold, prev, depth, level)
  <2> SUFFICES ASSUME b # NIL
               PROVE  IF d >= 1 THEN Leads(index2, p, d, b)
                      ELSE hold[level] # NIL /\ EndsIn(index2, hold[level], b)
    BY <1>6 DEF LastDone
  <2>1. IF d >= 1 THEN Leads(index, p, d, b) ELSE hold[level] # NIL /\ EndsIn(index, hold[level], b)
    BY DEF Between, LastDone
  <2> HIDE DEF b
  <2>2. CASE d >= 1
    BY <1>1, <2>1, <2>2 DEF Leads
  <2>3. CASE ~(d >= 1)
    BY <1>1, <1>3, <1>4, <2>1, <2>3
  <2> QED
    BY <2>2, <2>3
<1>13. ASSUME NEW k \in 1 .. level - 1
       PROVE  LastDone(path2, hold, index2, k, path2[k].next - 2, LastBelow(hold, prev, depth, k))
  <2> DEFINE b == LastBelow(hold, prev, depth, k)
             n == path[k].next - 2
  <2>1. b # NIL => IF n >= 1 THEN Leads(index, path[k].sector, n, b)
                   ELSE hold[k] # NIL /\ EndsIn(index, hold[k], b)
    BY DEF Between, LastDone
  <2>2. /\ path2[k] = path[k] /\ path[k].sector \in DOMAIN index /\ path[k].sector # p
        /\ k \in 1 .. depth
    BY <1>5
  <2> HIDE DEF b, n
  <2>3. b # NIL => IF n >= 1 THEN Leads(index2, path[k].sector, n, b)
                   ELSE hold[k] # NIL /\ EndsIn(index2, hold[k], b)
    BY <1>2, <1>3, <1>4, <2>1, <2>2
  <2> QED
    BY <2>2, <2>3 DEF LastDone, b, n
<1>14. ASSUME NEW k \in level + 1 .. depth
       PROVE  hold[k] # NIL /\ EndsIn(index2, hold[k], LastBelow(hold, prev, depth, k))
  <2>1. k \in 1 .. depth
    BY <1>1
  <2>2. hold[k] # NIL /\ EndsIn(index, hold[k], LastBelow(hold, prev, depth, k))
    BY DEF Between
  <2> QED
    BY <1>3, <1>4, <2>1, <2>2
<1>15. d \in 0 .. Len(index2[path2[level].sector])
  BY <1>1, <1>6
<1>16. hold \in [1 .. depth -> Sectors \union {NIL}] /\ hold[1] = NIL
  BY DEF Between
<1> QED
  BY <1>1, <1>8, <1>9, <1>10, <1>11, <1>12, <1>13, <1>14, <1>15, <1>16 DEF Between

\* What is done is not what comes next.
LEMMA LastIsNotNext ==
    ASSUME NEW path, NEW level, NEW hold, NEW prev, NEW d, NEW leafs, NEW index, NEW top,
           NEW depth, NEW lv,
           Between(path, level, hold, prev, d, leafs, index, top, depth, lv),
           NEW tops, Forest(leafs, index, tops, depth, lv),
           d + 1 <= Len(index[path[level].sector]),
           LastBelow(hold, prev, depth, level) # NIL
    PROVE  LastBelow(hold, prev, depth, level) # index[path[level].sector][d + 1].sector
<1> DEFINE p == path[level].sector
           b == LastBelow(hold, prev, depth, level)
<1>1. /\ level \in 1 .. depth /\ depth \in Nat /\ d \in Nat
      /\ p \in DOMAIN index /\ hold[level] # p /\ Len(index[p]) \in Nat
  <2>1. p \in DOMAIN index /\ hold[level] # p /\ level \in 1 .. depth /\ d \in 0 .. Len(index[p])
    BY DEF Between, OnLevel, Forest, Levelled
  <2>2. depth \in Nat /\ index[p] \in Seq(Entry)
    BY <2>1 DEF Forest, Levelled
  <2> QED
    BY <2>1, <2>2
<1>2. LastDone(path, hold, index, level, d, b) /\ Once(index)
  BY DEF Between, Forest
<1>3. hold[level] # NIL => hold[level] \in DOMAIN index
  BY <1>1 DEF Between, OnLevel
<1>4. d + 1 \in 1 .. Len(index[p])
  BY <1>1
<1> HIDE DEF p, b
<1>5. CASE d >= 1
  <2>1. d \in 1 .. Len(index[p]) /\ index[p][d].sector = b /\ d # d + 1
    BY <1>1, <1>2, <1>5 DEF LastDone, Leads, p, b
  <2> QED
    BY <1>1, <1>2, <1>4, <2>1 DEF Once, p, b
<1>6. CASE ~(d >= 1)
  <2> DEFINE h == hold[level]
  <2>1. h # NIL /\ EndsIn(index, h, b)
    BY <1>2, <1>6 DEF LastDone, b
  <2>2. h \in DOMAIN index /\ h # p /\ \E i \in 1 .. Len(index[h]) : index[h][i].sector = b
    BY <1>1, <1>3, <2>1 DEF EndsIn, Leads
  <2> HIDE DEF h
  <2> QED
    BY <1>1, <1>2, <1>4, <2>2 DEF Once, p, b
<1> QED
  BY <1>5, <1>6

\* The path is behind entry i of node s.
Behind(path, l, s, i) == s = path[l].sector /\ i = path[l].next - 1

\* The nodes held, with s on level l.
Held(hold, l, s) == [hold EXCEPT ![l] = s]

\* The path one level further down, at the first entry of s.
Down(path, l, s) ==
    [path EXCEPT ![l].next = @ + 1, ![l + 1] = [sector |-> s, next |-> 1]]

\* The node is done and stays: the walk is on the level above, behind it.
LEMMA WalkUp ==
    ASSUME NEW path, NEW level, NEW hold, NEW prev, NEW d, NEW leafs, NEW index, NEW top,
           NEW depth, NEW lv,
           Between(path, level, hold, prev, d, leafs, index, top, depth, lv),
           depth \in Nat, NEW up \in Nat \ {0}, level = up + 1,
           LastBelow(hold, prev, depth, level) # NIL,
           NEW p, p = path[level].sector, p # NIL, d = Len(index[p]), d \in Nat \ {0},
           NEW s, NEW u, Behind(path, up, s, u), Len(index[s]) \in Nat,
           NEW held, held = Held(hold, level, p)
    PROVE  Between(path, up, held, prev, u, leafs, index, top, depth, lv)
<1>0. up = level - 1 /\ s = path[up].sector /\ u = path[up].next - 1
  BY DEF Behind
<1> USE <1>0
<1>1. level \in 1 .. depth /\ up \in 1 .. depth /\ up + 1 = level /\ up \in 1 .. level - 1 /\ up # level
  BY DEF Between
<1>2. /\ path \in [1 .. depth -> [sector : Sectors, next : Nat]]
      /\ hold \in [1 .. depth -> Sectors \union {NIL}]
      /\ path[1].sector = top /\ hold[1] = NIL
      /\ prev # NIL => prev \in leafs
  BY DEF Between
<1>3. p \in Sectors /\ OnLevel(index, lv, p, level)
  BY <1>1, <1>2 DEF Between
<1>4. held \in [1 .. depth -> Sectors \union {NIL}] /\ held[1] = NIL
  <2>1. level # 1
    BY <1>1
  <2>2. held[1] = hold[1]
    BY <1>1, <1>2, <2>1 DEF Held
  <2> QED
    BY <1>1, <1>2, <1>3, <2>2 DEF Held
<1>5. held[level] = p /\ \A k \in 1 .. depth : k # level => held[k] = hold[k]
  BY <1>1, <1>2 DEF Held
<1>6. Leads(index, path[up].sector, u, p)
  BY <1>1 DEF Between
<1>7. u \in 0 .. Len(index[path[up].sector]) /\ u >= 1
  BY <1>6 DEF Leads
<1>8. \A k \in 1 .. up : OnLevel(index, lv, path[k].sector, k) /\ held[k] # path[k].sector
  <2> SUFFICES ASSUME NEW k \in 1 .. up
               PROVE  OnLevel(index, lv, path[k].sector, k) /\ held[k] # path[k].sector
    OBVIOUS
  <2>1. k \in 1 .. level /\ k \in 1 .. depth /\ k # level
    BY <1>1
  <2> QED
    BY <1>5, <2>1 DEF Between
<1>9. \A k \in 1 .. up - 1 : Leads(index, path[k].sector, path[k].next - 1, path[k + 1].sector)
  BY <1>1 DEF Between
<1>10. \A k \in 1 .. depth : held[k] # NIL => OnLevel(index, lv, held[k], k)
  BY <1>3, <1>5 DEF Between
<1>11. LastDone(path, held, index, up, u, LastBelow(held, prev, depth, up))
  <2>1. LastBelow(held, prev, depth, up) = p
    BY <1>1, <1>5 DEF LastBelow
  <2> QED
    BY <1>6, <1>7, <2>1 DEF LastDone
<1>12. ASSUME NEW k \in 1 .. up - 1
       PROVE  LastDone(path, held, index, k, path[k].next - 2, LastBelow(held, prev, depth, k))
  <2>1. /\ k \in 1 .. level - 1 /\ k # level /\ k + 1 # level /\ k # depth
        /\ k \in 1 .. depth /\ k + 1 \in 1 .. depth
    BY <1>1
  <2>2. LastDone(path, hold, index, k, path[k].next - 2, LastBelow(hold, prev, depth, k))
    BY <2>1 DEF Between
  <2>3. held[k] = hold[k] /\ LastBelow(held, prev, depth, k) = LastBelow(hold, prev, depth, k)
    BY <1>5, <2>1 DEF LastBelow
  <2> QED
    BY <2>2, <2>3 DEF LastDone
<1>13. ASSUME NEW k \in up + 1 .. depth
       PROVE  held[k] # NIL /\ EndsIn(index, held[k], LastBelow(held, prev, depth, k))
  <2>1. LastBelow(held, prev, depth, k) = LastBelow(hold, prev, depth, k)
    <3>1. k = depth \/ (k + 1 \in 1 .. depth /\ k + 1 # level)
      BY <1>1
    <3> QED
      BY <1>5, <3>1 DEF LastBelow
  <2>2. CASE k = level
    <3>1. LastDone(path, hold, index, level, d, LastBelow(hold, prev, depth, level))
      BY DEF Between
    <3>2. Leads(index, p, d, LastBelow(hold, prev, depth, level))
      BY <3>1 DEF LastDone
    <3> QED
      BY <1>5, <2>1, <2>2, <3>2 DEF EndsIn
  <2>3. CASE k # level
    <3>1. k \in level + 1 .. depth /\ k \in 1 .. depth
      BY <1>1, <2>3
    <3> QED
      BY <1>5, <2>1, <2>3, <3>1 DEF Between
  <2> QED
    BY <2>2, <2>3
<1>14. Between(path, up, held, prev, u, leafs, index, top, depth, lv)
  BY <1>1, <1>2, <1>4, <1>7, <1>8, <1>9, <1>10, <1>11, <1>12, <1>13 DEF Between
<1> QED
  BY <1>14

\* The walk goes to the node that comes next.
LEMMA WalkDown ==
    ASSUME NEW path, NEW level, NEW hold, NEW prev, NEW d, NEW leafs, NEW index, NEW top,
           NEW depth, NEW lv,
           Between(path, level, hold, prev, d, leafs, index, top, depth, lv),
           NEW tops, Forest(leafs, index, tops, depth, lv),
           level < depth, NEW p, Behind(path, level, p, d), d + 1 <= Len(index[p]),
           NEW down, down = level + 1,
           NEW kid, Leads(index, p, d + 1, kid),
           NEW route, route = Down(path, level, kid)
    PROVE  Between(route, down, hold, prev, 0, leafs, index, top, depth, lv)
<1>0. p = path[level].sector /\ d = path[level].next - 1 /\ kid = index[p][d + 1].sector
  BY DEF Behind, Leads
<1>1. /\ level \in 1 .. depth /\ depth \in Nat /\ level \in Nat /\ down \in 1 .. depth
      /\ down # level /\ down # 1
  BY DEF Between, Forest, Levelled
<1>2. /\ path \in [1 .. depth -> [sector : Sectors, next : Nat]]
      /\ hold \in [1 .. depth -> Sectors \union {NIL}]
      /\ path[1].sector = top /\ hold[1] = NIL
      /\ prev # NIL => prev \in leafs
  BY DEF Between
<1>3. /\ p \in DOMAIN index /\ lv[p] = level /\ d \in Nat /\ index[p] \in Seq(Entry)
      /\ Len(index[p]) \in Nat /\ d + 1 \in 1 .. Len(index[p])
  <2>1. p \in DOMAIN index /\ lv[p] = level /\ d \in 0 .. Len(index[p])
    BY <1>0, <1>1 DEF Between, OnLevel
  <2>2. index[p] \in Seq(Entry)
    BY <2>1 DEF Forest, Levelled
  <2> QED
    BY <2>1, <2>2
<1>4. kid \in DOMAIN index /\ lv[kid] = down /\ kid \in Sectors
  <2>1. kid \in Blocks(leafs, index) /\ lv[kid] = level + 1
    BY <1>0, <1>3 DEF Forest, Hanging
  <2>2. kid \notin leafs
    BY <1>1, <2>1 DEF Forest, Levelled
  <2> QED
    BY <2>1, <2>2 DEF Blocks, Forest, Levelled
<1>5. /\ route[down].sector = kid /\ route[down].next = 1
      /\ route[level].sector = p /\ route[level].next = d + 2
      /\ \A k \in 1 .. depth : k # level /\ k # down => route[k] = path[k]
  <2>1. path[level].next + 1 = d + 2
    BY <1>0, <1>1, <1>2
  <2>2. route = [path EXCEPT ![level].next = d + 2, ![down] = [sector |-> kid, next |-> 1]]
    BY <2>1 DEF Down
  <2>3. DOMAIN path = 1 .. depth /\ level \in DOMAIN path /\ down \in DOMAIN path
    BY <1>1, <1>2
  <2>4. path[level] = [sector |-> path[level].sector, next |-> path[level].next]
    BY <1>1, <1>2
  <2>5. /\ [path[level] EXCEPT !.next = d + 2].sector = p
        /\ [path[level] EXCEPT !.next = d + 2].next = d + 2
    BY <1>0, <2>4
  <2>6. route[level] = [path[level] EXCEPT !.next = d + 2]
    BY <1>1, <2>2, <2>3
  <2>7. route[down] = [sector |-> kid, next |-> 1]
    BY <1>1, <2>2, <2>3
  <2>8. \A k \in 1 .. depth : k # level /\ k # down => route[k] = path[k]
    BY <2>2, <2>3
  <2> QED
    BY <2>5, <2>6, <2>7, <2>8
<1>6. route \in [1 .. depth -> [sector : Sectors, next : Nat]]
  <2>1. [sector |-> kid, next |-> 1] \in [sector : Sectors, next : Nat]
    BY <1>4
  <2>2. [path[level] EXCEPT !.next = d + 2] \in [sector : Sectors, next : Nat]
    <3>1. path[level] \in [sector : Sectors, next : Nat] /\ d + 2 \in Nat
      BY <1>1, <1>2, <1>3
    <3> QED
      BY <3>1
  <2>3. path[level].next + 1 = d + 2
    BY <1>0, <1>1, <1>2
  <2>4. route = [path EXCEPT ![level].next = d + 2, ![down] = [sector |-> kid, next |-> 1]]
    BY <2>3 DEF Down
  <2> QED
    BY <1>1, <1>2, <2>1, <2>2, <2>4
<1>7. hold[down] # NIL /\ EndsIn(index, hold[down], LastBelow(hold, prev, depth, down))
  <2>1. down \in level + 1 .. depth
    BY <1>1
  <2> QED
    BY <2>1 DEF Between
<1>8. LastBelow(hold, prev, depth, level) = hold[down]
  BY <1>1 DEF LastBelow
<1>9. hold[down] # kid
  BY <1>0, <1>3, <1>7, <1>8, LastIsNotNext
<1>10. \A k \in 1 .. down : OnLevel(index, lv, route[k].sector, k) /\ hold[k] # route[k].sector
  <2> SUFFICES ASSUME NEW k \in 1 .. down
               PROVE  OnLevel(index, lv, route[k].sector, k) /\ hold[k] # route[k].sector
    OBVIOUS
  <2>1. CASE k = down
    BY <1>4, <1>5, <1>9, <2>1 DEF OnLevel
  <2>2. CASE k # down
    <3>1. k \in 1 .. level /\ k \in 1 .. depth
      BY <1>1, <2>2
    <3>2. route[k].sector = path[k].sector
      BY <1>0, <1>5, <2>2, <3>1
    <3> QED
      BY <3>1, <3>2 DEF Between
  <2> QED
    BY <2>1, <2>2
<1>11. ASSUME NEW k \in 1 .. down - 1
       PROVE  Leads(index, route[k].sector, route[k].next - 1, route[k + 1].sector)
  <2>1. CASE k = level
    <3>1. (d + 2) - 1 = d + 1
      BY <1>3
    <3> QED
      BY <1>0, <1>3, <1>5, <2>1, <3>1 DEF Leads
  <2>2. CASE k # level
    <3>1. k \in 1 .. level - 1 /\ k \in 1 .. depth /\ k # down /\ k + 1 \in 1 .. depth /\ k + 1 # down
      BY <1>1, <2>2
    <3>2. route[k] = path[k] /\ route[k + 1].sector = path[k + 1].sector
      BY <1>0, <1>5, <2>2, <3>1
    <3> QED
      BY <3>1, <3>2 DEF Between
  <2> QED
    BY <2>1, <2>2
<1>12. LastDone(route, hold, index, down, 0, LastBelow(hold, prev, depth, down))
  BY <1>7 DEF LastDone
<1>13. ASSUME NEW k \in 1 .. down - 1
       PROVE  LastDone(route, hold, index, k, route[k].next - 2, LastBelow(hold, prev, depth, k))
  <2>1. CASE k = level
    <3>1. (d + 2) - 2 = d
      BY <1>3
    <3>2. LastDone(path, hold, index, level, d, LastBelow(hold, prev, depth, level))
      BY DEF Between
    <3> QED
      BY <1>0, <1>5, <2>1, <3>1, <3>2 DEF LastDone
  <2>2. CASE k # level
    <3>1. k \in 1 .. level - 1 /\ k \in 1 .. depth /\ k # down
      BY <1>1, <2>2
    <3>2. route[k] = path[k]
      BY <1>0, <1>5, <2>2, <3>1
    <3> QED
      BY <3>1, <3>2 DEF Between, LastDone
  <2> QED
    BY <2>1, <2>2
<1>14. \A k \in down + 1 .. depth :
          hold[k] # NIL /\ EndsIn(index, hold[k], LastBelow(hold, prev, depth, k))
  BY <1>1 DEF Between
<1>15. /\ route[1].sector = top
       /\ \A k \in 1 .. depth : hold[k] # NIL => OnLevel(index, lv, hold[k], k)
       /\ 0 \in 0 .. Len(index[route[down].sector])
  <2>1. Len(index[kid]) \in Nat
    BY <1>4 DEF Forest, Levelled
  <2>2. route[1].sector = path[1].sector
    <3>1. CASE level = 1
      BY <1>0, <1>5, <3>1
    <3>2. CASE level # 1
      <4>1. 1 \in 1 .. depth /\ 1 # down
        BY <1>1
      <4> QED
        BY <1>5, <3>2, <4>1
    <3> QED
      BY <3>1, <3>2
  <2> QED
    BY <1>2, <1>5, <2>1, <2>2 DEF Between
<1>16. Between(route, down, hold, prev, 0, leafs, index, top, depth, lv)
  BY <1>1, <1>2, <1>6, <1>10, <1>11, <1>12, <1>13, <1>14, <1>15 DEF Between
<1> QED
  BY <1>16

\* A node has got the entries of another one behind its own.
Joined(index, index2, this, q) ==
    /\ Len(index2[q]) = Len(index[q]) + Len(index[this])
    /\ SameKids(index, index2, q, Len(index[q]))
    /\ \A j \in 1 .. Len(index[this]) :
          index2[q][Len(index[q]) + j].sector = index[this][j].sector

\* The last entry of a node that got those of another one.
LEMMA JoinedEnd ==
    ASSUME NEW index, NEW index2, NEW this, NEW q, NEW b,
           Len(index[q]) \in Nat, Len(index[this]) \in Nat, Joined(index, index2, this, q),
           NEW n, n = Len(index[this]),
           IF n >= 1 THEN Leads(index, this, n, b) ELSE EndsIn(index, q, b)
    PROVE  EndsIn(index2, q, b)
<1> DEFINE m == Len(index[q])
<1>0. /\ m \in Nat /\ n \in Nat /\ Len(index2[q]) = m + n
      /\ \A j \in 1 .. m : index2[q][j].sector = index[q][j].sector
      /\ \A j \in 1 .. n : index2[q][m + j].sector = index[this][j].sector
  BY DEF Joined, SameKids
<1> HIDE DEF m
<1>1. CASE n >= 1
  <2>1. n \in 1 .. n /\ index[this][n].sector = b
    BY <1>0, <1>1 DEF Leads
  <2>2. index2[q][m + n].sector = b /\ m + n \in 1 .. m + n
    BY <1>0, <1>1, <2>1
  <2> QED
    BY <1>0, <2>2 DEF EndsIn, Leads
<1>2. CASE ~(n >= 1)
  <2>1. n = 0 /\ m \in 1 .. m /\ index[q][m].sector = b
    BY <1>0, <1>2 DEF EndsIn, Leads, m
  <2>2. Len(index2[q]) = m /\ index2[q][m].sector = b
    BY <1>0, <2>1
  <2> QED
    BY <2>1, <2>2 DEF EndsIn, Leads
<1> QED
  BY <1>1, <1>2

\* All nodes but three lead where they did.
AlikeBeside(index, index2, a, b, c) ==
    \A t \in DOMAIN index : t # a /\ t # b /\ t # c => Alike(index, index2, t)

\* The node is done and goes into the one held on its level: the walk is on the
\* level above, before the entry that was the node's.
LEMMA WalkMergesUp ==
    ASSUME NEW path, NEW level, NEW hold, NEW prev, NEW d, NEW leafs, NEW index, NEW top,
           NEW depth, NEW lv,
           Between(path, level, hold, prev, d, leafs, index, top, depth, lv),
           depth \in Nat, Counted(index),
           LastBelow(hold, prev, depth, level) # NIL,
           NEW this, this = path[level].sector, d = Len(index[this]),
           NEW up, level = up + 1, up \in Nat \ {0},
           NEW p, NEW i \in Nat, Behind(path, up, p, i),
           NEW q, q = hold[level], q # NIL,
           NEW index2, NEW lw,
           DOMAIN index2 = DOMAIN index \ {this},
           SameOn(DOMAIN index \ {this}, lv, lw),
           AlikeBeside(index, index2, this, p, q),
           Len(index2[p]) = Len(index[p]) - 1, SameKids(index, index2, p, i - 1),
           Joined(index, index2, this, q),
           NEW path2, path2 \in [1 .. depth -> [sector : Sectors, next : Nat]],
           SamePath(path, path2, up),
           NEW e, e = i - 1
    PROVE  Between(path2, up, hold, prev, e, leafs, index2, top, depth, lw)
<1>0. /\ up = level - 1 /\ level > 1 /\ hold[level] # NIL
      /\ \A s \in DOMAIN index : Len(index[s]) \in Nat
      /\ p = path[level - 1].sector /\ i = path[level - 1].next - 1
      /\ \A s \in DOMAIN index \ {this} : lw[s] = lv[s]
      /\ \A s \in DOMAIN index \ {this, p, q} : Alike(index, index2, s)
      /\ path2[level - 1].sector = p
      /\ \A k \in 1 .. level - 2 : path2[k] = path[k]
  <2>1. up = level - 1 /\ level > 1 /\ up - 1 = level - 2
    OBVIOUS
  <2>2. /\ path2[up].sector = path[up].sector
        /\ \A k \in 1 .. level - 2 : path2[k] = path[k]
    BY <2>1 DEF SamePath
  <2>3. \A s \in DOMAIN index \ {this, p, q} : Alike(index, index2, s)
    BY DEF AlikeBeside
  <2> QED
    BY <2>1, <2>2, <2>3 DEF Behind, Counted, SameOn
<1> USE <1>0
<1>1. /\ level \in 1 .. depth /\ level \in Nat /\ up \in 1 .. depth /\ up \in 1 .. level
      /\ up \in 1 .. level - 1 /\ up + 1 = level /\ up # level /\ up \in Nat /\ up # depth
  BY DEF Between
<1>2. /\ hold \in [1 .. depth -> Sectors \union {NIL}]
      /\ path[1].sector = top /\ hold[1] = NIL
      /\ prev # NIL => prev \in leafs
  BY DEF Between
<1>3. /\ this \in DOMAIN index /\ lv[this] = level
      /\ p \in DOMAIN index /\ lv[p] = up
      /\ q \in DOMAIN index /\ lv[q] = level
      /\ q # this /\ p # this /\ p # q
  <2>1. OnLevel(index, lv, this, level) /\ q # this
    BY <1>1 DEF Between
  <2>2. OnLevel(index, lv, p, up)
    BY <1>1 DEF Between
  <2>3. OnLevel(index, lv, q, level)
    BY <1>1 DEF Between
  <2> QED
    BY <1>1, <2>1, <2>2, <2>3 DEF OnLevel
<1>4. i \in 1 .. Len(index[p]) /\ i \in Nat /\ i >= 1
  <2>1. Leads(index, path[up].sector, path[up].next - 1, path[up + 1].sector)
    BY <1>1 DEF Between
  <2> QED
    BY <1>1, <1>3, <2>1 DEF Leads
<1>18. Len(index2[p]) \in Nat /\ Len(index2[p]) >= i - 1
  <2> DEFINE m == Len(index[p])
             n == Len(index2[p])
  <2>1. m \in Nat /\ n = m - 1 /\ i \in 1 .. m
    BY <1>3, <1>4
  <2> HIDE DEF m, n
  <2>2. n \in Nat /\ n >= i - 1
    BY <2>1
  <2> QED
    BY <2>2 DEF n
<1>5. ASSUME NEW k \in 1 .. depth, hold[k] # NIL
      PROVE  /\ hold[k] \in DOMAIN index /\ lv[hold[k]] = k /\ hold[k] # this /\ hold[k] # p
             /\ k # level => hold[k] # q
  <2>1. hold[k] \in DOMAIN index /\ lv[hold[k]] = k
    BY <1>5 DEF Between, OnLevel
  <2>2. hold[up] # p
    BY <1>1 DEF Between
  <2>3. k = up => hold[k] # p
    BY <2>2
  <2>4. k = level => hold[k] # this
    BY <1>3
  <2> QED
    BY <1>3, <2>1, <2>3, <2>4
<1>6. ASSUME NEW s \in DOMAIN index, s # this, s # p, s # q, NEW j, NEW b, Leads(index, s, j, b)
      PROVE  Leads(index2, s, j, b)
  BY <1>6 DEF Leads, Alike, SameKids
<1>7. ASSUME NEW k \in 1 .. depth, k # level, hold[k] # NIL, NEW b, EndsIn(index, hold[k], b)
      PROVE  EndsIn(index2, hold[k], b)
  <2> DEFINE h == hold[k]
  <2>1. h \in DOMAIN index /\ h # this /\ h # p /\ h # q
    BY <1>5, <1>7
  <2>2. Len(index2[h]) = Len(index[h]) /\ Leads(index, h, Len(index[h]), b)
    BY <1>7, <2>1 DEF EndsIn, Alike
  <2> HIDE DEF h
  <2>3. Leads(index2, h, Len(index[h]), b)
    BY <1>6, <2>1, <2>2
  <2>4. EndsIn(index2, h, b)
    BY <2>2, <2>3 DEF EndsIn
  <2> QED
    BY <2>4 DEF h
<1>8. ASSUME NEW k \in 1 .. up - 1
      PROVE  /\ k \in 1 .. level /\ k \in 1 .. level - 1 /\ k \in 1 .. depth /\ k # level
             /\ path2[k] = path[k]
             /\ path[k].sector \in DOMAIN index /\ lv[path[k].sector] = k
             /\ path[k].sector # this /\ path[k].sector # p /\ path[k].sector # q
  <2>1. /\ k \in 1 .. level /\ k \in 1 .. level - 1 /\ k \in 1 .. depth /\ k # level /\ k # up
        /\ path2[k] = path[k]
    BY <1>1
  <2>2. path[k].sector \in DOMAIN index /\ lv[path[k].sector] = k
    BY <2>1 DEF Between, OnLevel
  <2> QED
    BY <1>3, <2>1, <2>2
<1>9. ASSUME NEW k \in 1 .. up
      PROVE  OnLevel(index2, lw, path2[k].sector, k) /\ hold[k] # path2[k].sector
  <2>1. CASE k = up
    <3>1. hold[up] # p
      BY <1>1 DEF Between
    <3> QED
      <4>1. path2[up].sector = p /\ p \in DOMAIN index2 /\ lw[p] = up
        BY <1>3
      <4> QED
        BY ONLY <2>1, <3>1, <4>1 DEF OnLevel
  <2>2. CASE k # up
    <3>1. k \in 1 .. up - 1
      BY <1>1, <2>2
    <3>2. hold[k] # path[k].sector
      BY <1>8, <3>1 DEF Between
    <3>3. /\ path2[k] = path[k] /\ path[k].sector \in DOMAIN index /\ lv[path[k].sector] = k
          /\ path[k].sector # this
      BY <1>8, <3>1
    <3>4. OnLevel(index2, lw, path[k].sector, k)
      BY <3>3 DEF OnLevel
    <3> QED
      BY <3>2, <3>3, <3>4
  <2> QED
    BY <2>1, <2>2
<1>10. ASSUME NEW k \in 1 .. up - 1
       PROVE  Leads(index2, path2[k].sector, path2[k].next - 1, path2[k + 1].sector)
  <2>1. Leads(index, path[k].sector, path[k].next - 1, path[k + 1].sector)
    BY <1>8 DEF Between
  <2>2. path2[k + 1].sector = path[k + 1].sector
    <3>1. k + 1 = up \/ k + 1 \in 1 .. level - 2
      BY <1>1
    <3> QED
      BY <3>1
  <2>3. Leads(index2, path[k].sector, path[k].next - 1, path[k + 1].sector)
    BY <1>6, <1>8, <2>1
  <2> QED
    BY <1>8, <2>2, <2>3
<1>11. \A k \in 1 .. depth : hold[k] # NIL => OnLevel(index2, lw, hold[k], k)
  BY <1>5 DEF OnLevel
<1>12. LastBelow(hold, prev, depth, up) = q
  BY <1>1 DEF LastBelow
<1>13. LastDone(path2, hold, index2, up, i - 1, q)
  <2>1. LastDone(path, hold, index, up, path[up].next - 2, q)
    BY <1>1, <1>12 DEF Between
  <2>2. path[up].next - 2 = i - 1 /\ q # NIL
    <3>1. path[up].next \in Nat
      BY <1>1 DEF Between
    <3> QED
      BY <3>1
  <2>3. IF i - 1 >= 1 THEN Leads(index, p, i - 1, q) ELSE hold[up] # NIL /\ EndsIn(index, hold[up], q)
    BY <2>1, <2>2 DEF LastDone
  <2>4. CASE i - 1 >= 1
    <3>1. i - 1 \in 1 .. Len(index[p]) /\ index[p][i - 1].sector = q
      BY <2>3, <2>4 DEF Leads
    <3>2. i - 1 \in 1 .. Len(index2[p]) /\ i - 1 \in 1 .. i - 1
      <4> DEFINE n == Len(index2[p])
      <4>1. i \in Nat /\ n \in Nat /\ n >= i - 1
        BY <1>4, <1>18
      <4> HIDE DEF n
      <4>2. i - 1 \in 1 .. n /\ i - 1 \in 1 .. i - 1
        BY <2>4, <4>1
      <4> QED
        BY <4>2 DEF n
    <3>3. Leads(index2, p, i - 1, q)
      BY <3>1, <3>2 DEF Leads, SameKids
    <3> QED
      BY <2>4, <3>3 DEF LastDone
  <2>5. CASE ~(i - 1 >= 1)
    <3>1. EndsIn(index2, hold[up], q) /\ hold[up] # NIL
      BY <1>1, <1>7, <2>3, <2>5
    <3> QED
      BY <2>5, <3>1 DEF LastDone
  <2> QED
    BY <2>4, <2>5
<1>14. ASSUME NEW k \in 1 .. up - 1
       PROVE  LastDone(path2, hold, index2, k, path2[k].next - 2, LastBelow(hold, prev, depth, k))
  <2> DEFINE b == LastBelow(hold, prev, depth, k)
             n == path[k].next - 2
  <2>1. b # NIL => IF n >= 1 THEN Leads(index, path[k].sector, n, b)
                   ELSE hold[k] # NIL /\ EndsIn(index, hold[k], b)
    BY <1>8 DEF Between, LastDone
  <2> HIDE DEF b, n
  <2>2. b # NIL => IF n >= 1 THEN Leads(index2, path[k].sector, n, b)
                   ELSE hold[k] # NIL /\ EndsIn(index2, hold[k], b)
    BY <1>6, <1>7, <1>8, <2>1
  <2> QED
    BY <1>8, <2>2 DEF LastDone, b, n
<1>15. EndsIn(index2, q, LastBelow(hold, prev, depth, level))
  <2> DEFINE b == LastBelow(hold, prev, depth, level)
  <2>1. IF d >= 1 THEN Leads(index, this, d, b) ELSE EndsIn(index, q, b)
    BY DEF Between, LastDone
  <2>2. Len(index[q]) \in Nat /\ Len(index[this]) \in Nat
    BY <1>3
  <2> HIDE DEF b
  <2>3. EndsIn(index2, q, b)
    BY <2>1, <2>2, JoinedEnd
  <2> QED
    BY <2>3 DEF b
<1>16. ASSUME NEW k \in up + 1 .. depth
       PROVE  hold[k] # NIL /\ EndsIn(index2, hold[k], LastBelow(hold, prev, depth, k))
  <2>1. CASE k = level
    BY <1>15, <2>1
  <2>2. CASE k # level
    <3>1. k \in level + 1 .. depth /\ k \in 1 .. depth
      BY <1>1, <2>2
    <3>2. hold[k] # NIL /\ EndsIn(index, hold[k], LastBelow(hold, prev, depth, k))
      BY <3>1 DEF Between
    <3> QED
      BY <1>7, <2>2, <3>1, <3>2
  <2> QED
    BY <2>1, <2>2
<1>17. /\ path2[1].sector = top
       /\ i - 1 \in 0 .. Len(index2[path2[up].sector])
  <2>1. i - 1 \in 0 .. Len(index2[p])
    <3> DEFINE n == Len(index2[p])
    <3>1. i \in Nat /\ 1 <= i /\ n \in Nat /\ n >= i - 1
      BY <1>4, <1>18
    <3> HIDE DEF n
    <3>2. i - 1 \in 0 .. n
      BY <3>1
    <3> QED
      BY <3>2 DEF n
  <2>2. up = 1 \/ 1 \in 1 .. level - 2
    BY <1>1
  <2>3. path2[1].sector = path[1].sector
    BY <2>2
  <2> QED
    BY <1>2, <2>1, <2>3
<1> QED
  BY <1>1, <1>2, <1>9, <1>10, <1>11, <1>12, <1>13, <1>14, <1>16, <1>17 DEF Between

\* The path comes over entries of other nodes to a node of level l.
OnTheWay(index, path, l, s) ==
    \A k \in 1 .. l - 1 : /\ path[k].sector \in DOMAIN index /\ path[k].sector # s
                          /\ path[k].next - 1 \in 1 .. Len(index[path[k].sector])

\* S with x.
Plus(S, x) == S \union {x}

\* remove_index takes one entry out; the key it may set above is no sector.
LEMMA RemoveIndexIs ==
    ASSUME NEW leafs, NEW index, NEW tops, NEW depth, NEW lv,
           Forest(leafs, index, tops, depth, lv),
           NEW path, NEW l \in Nat \ {0},
           NEW s \in DOMAIN index, NEW i \in 1 .. Len(index[s]), Behind(path, l, s, i),
           OnTheWay(index, path, l, s),
           NEW r, r = RemoveIndex(index, path, l),
           NEW over, over = Plus(tops, index[s][i].sector)
    PROVE  /\ Forest(leafs, r, over, depth, lv)
           /\ DOMAIN r = DOMAIN index
           /\ AlikeBut(index, r, s)
           /\ Len(r[s]) = Len(index[s]) - 1
           /\ SameKids(index, r, s, i - 1)
<1> DEFINE q == RemoveAt(index[s], i)
           without == [index EXCEPT ![s] = q]
<1>1. index[s] \in Seq(Entry) /\ Len(index[s]) \in Nat /\ i \in DOMAIN index[s]
  BY DEF Forest, Levelled
<1>2. /\ q \in Seq(Entry)
      /\ Len(q) = Len(index[s]) - 1
      /\ \A j \in 1 .. Len(index[s]) - 1 :
           q[j] = IF j < i THEN index[s][j] ELSE index[s][j + 1]
  BY <1>1, RemoveAtProperties
<1>3. Forest(leafs, without, over, depth, lv)
  BY KidTakenOut DEF Plus
<1>4. /\ DOMAIN without = DOMAIN index
      /\ without[s] = q
      /\ \A t \in DOMAIN index : t # s => without[t] = index[t]
      /\ without \in [DOMAIN index -> Seq(Entry)]
  BY <1>2 DEF Forest, Levelled
<1> HIDE DEF q
<1> HIDE DEF without
<1>5. /\ \A t \in DOMAIN index : t # s => Alike(index, without, t)
      /\ Len(without[s]) = Len(index[s]) - 1
      /\ SameKids(index, without, s, i - 1)
  <2>1. \A j \in 1 .. i - 1 : j \in 1 .. Len(index[s]) - 1 /\ j < i
    BY <1>1
  <2> QED
    BY <1>2, <1>4, <2>1 DEF Alike, SameKids
<1>6. CASE r = without
  BY <1>3, <1>4, <1>5, <1>6 DEF AlikeBut
<1>7. CASE r # without
  <2> DEFINE pivot == index[s][i + 1].key
             up == {k \in 1 .. l - 1 : path[k].next - 1 # 1}
             m == Max(up)
             p == path[m].sector
             j == path[m].next - 1
  <2>1. /\ ~(i = Len(index[s]) \/ i # 1)
        /\ r = Pivot(without, path, l, index[s][i + 1].key)
    BY <1>7 DEF RemoveIndex, without, q, Behind
  <2>2. up # {} /\ r = [without EXCEPT ![p][j].key = pivot]
    BY <1>7, <2>1 DEF Pivot
  <2>3. pivot \in Int
    <3> HIDE DEF pivot, up, m, p, j
    <3>1. i + 1 \in 1 .. Len(index[s])
      <4>1. i = 1 /\ i # Len(index[s])
        BY <2>1
      <4>2. Len(index[s]) > 1
        <5>1. Len(index[s]) >= 1 /\ Len(index[s]) \in Nat
          BY <1>1
        <5> QED
          BY <4>1, <5>1
      <4>3. 1 + 1 \in 1 .. Len(index[s])
        BY <1>1, <4>2
      <4> QED
        BY <4>1, <4>3
    <3>2. index[s][i + 1] \in Entry
      BY <1>1, <3>1
    <3> QED
      BY <3>2 DEF Entry, pivot
  <2>4. m \in up
    <3>1. up \in SUBSET (0 .. l - 1) /\ l - 1 \in Nat
      OBVIOUS
    <3> HIDE DEF up
    <3>2. \E x \in up : \A y \in up : y <= x
      BY <2>2, <3>1, GreatestNat
    <3>3. \E x \in up : \A y \in up : x >= y
      <4>1. \A x, y \in up : y <= x => x >= y
        BY <3>1
      <4> QED
        BY <3>2, <4>1
    <3> QED
      BY <3>3 DEF Max
  <2>5. m \in 1 .. l - 1
    BY <2>4
  <2>6. p \in DOMAIN index /\ p # s /\ j \in 1 .. Len(index[p])
    BY <2>5 DEF OnTheWay
  <2> HIDE DEF m, up, p, j, pivot
  <2> DEFINE e == [without[p][j] EXCEPT !.key = pivot]
             list == [without[p] EXCEPT ![j] = e]
  <2>7. without[p] \in Seq(Entry) /\ without[p] = index[p] /\ Len(without[p]) \in Nat
    BY <1>4, <2>6
  <2>8. without[p][j] \in Entry
    BY <2>6, <2>7
  <2>9. e \in Entry /\ e.sector = without[p][j].sector
    BY <2>3, <2>8 DEF Entry
  <2> HIDE DEF e
  <2>10. /\ list \in Seq(Entry) /\ Len(list) = Len(without[p])
         /\ \A x \in 1 .. Len(without[p]) : list[x].sector = without[p][x].sector
    BY <2>6, <2>7, <2>9
  <2>11. r = [without EXCEPT ![p] = list]
    BY <2>2 DEF e
  <2> HIDE DEF list
  <2>12. /\ DOMAIN r = DOMAIN index /\ r[p] = list
         /\ \A t \in DOMAIN index : t # p => r[t] = without[t]
         /\ r \in [DOMAIN index -> Seq(Entry)]
    BY <1>4, <2>6, <2>10, <2>11
  <2>13. \A t \in DOMAIN index :
            /\ Len(r[t]) = Len(without[t])
            /\ \A x \in 1 .. Len(without[t]) : r[t][x].sector = without[t][x].sector
    BY <2>10, <2>12
  <2>14. Forest(leafs, r, over, depth, lv)
    <3>1. /\ r \in [DOMAIN without -> Seq(Entry)]
          /\ \A t \in DOMAIN without :
                /\ Len(r[t]) = Len(without[t])
                /\ \A x \in 1 .. Len(without[t]) : r[t][x].sector = without[t][x].sector
      BY <1>4, <2>12, <2>13
    <3> QED
      BY <1>3, <3>1, KeysSet
  <2>15. \A t \in DOMAIN index : t # s => Alike(index, r, t)
    BY <1>4, <1>5, <2>13 DEF Alike, SameKids
  <2>16. Len(r[s]) = Len(index[s]) - 1 /\ SameKids(index, r, s, i - 1)
    BY <1>5, <2>6, <2>12 DEF SameKids
  <2> QED
    BY <2>12, <2>14, <2>15, <2>16 DEF AlikeBut
<1> QED
  BY <1>6, <1>7

\* The position on the path's level does not matter.
LEMMA BetweenTurned ==
    ASSUME NEW path, NEW level, NEW hold, NEW prev, NEW d, NEW leafs, NEW index, NEW top,
           NEW depth, NEW lv, NEW tops, Forest(leafs, index, tops, depth, lv),
           Between(path, level, hold, prev, d, leafs, index, top, depth, lv),
           NEW n \in Nat
    PROVE  Between([path EXCEPT ![level].next = n], level, hold, prev, d, leafs, index, top, depth, lv)
<1> DEFINE path2 == [path EXCEPT ![level].next = n]
<1>1. /\ level \in 1 .. depth /\ path \in [1 .. depth -> [sector : Sectors, next : Nat]]
      /\ d \in 0 .. Len(index[path[level].sector]) /\ path[level].sector \in DOMAIN index
  BY DEF Between, OnLevel
<1>2. depth \in Nat /\ \A s \in DOMAIN index : Len(index[s]) \in Nat
  <2>1. depth \in Nat /\ index \in [DOMAIN index -> Seq(Entry)]
    BY DEF Forest, Levelled
  <2> QED
    BY <2>1
<1>3. path2 \in [1 .. depth -> [sector : Sectors, next : Nat]] /\ SamePath(path, path2, level)
  <2>1. [path[level] EXCEPT !.next = n] \in [sector : Sectors, next : Nat]
    BY <1>1
  <2>2. [path[level] EXCEPT !.next = n].sector = path[level].sector
    BY <1>1
  <2>3. \A k \in 1 .. level - 1 : k \in 1 .. depth /\ k # level
    BY <1>1, <1>2
  <2> QED
    BY <1>1, <2>1, <2>2, <2>3 DEF SamePath
<1> HIDE DEF path2
<1>4. prev # NIL => prev \in leafs
  BY DEF Between
<1> DEFINE p == path[level].sector
<1>5. p = path[level].sector /\ Len(index[p]) >= d
  BY <1>1, <1>2
<1> HIDE DEF p
<1>6. /\ Counted(index) /\ SameOn(DOMAIN index, lv, lv) /\ AlikeBut(index, index, p)
      /\ SameKids(index, index, p, d)
  BY <1>2 DEF Counted, SameOn, AlikeBut, Alike, SameKids
<1>7. Between(path2, level, hold, prev, d, leafs, index, top, depth, lv)
  BY <1>2, <1>3, <1>4, <1>5, <1>6, BetweenStays
<1> QED
  BY <1>7 DEF path2

\* A walk of these fields.
WalkOf(at, bits, level, path, hold, prev, this) ==
    [at |-> at, bits |-> bits, level |-> level, path |-> path, hold |-> hold, prev |-> prev,
     this |-> this]

\* Its fields are these.
LEMMA WalkFields ==
    ASSUME NEW at, NEW bits, NEW level, NEW path, NEW hold, NEW prev, NEW this,
           NEW w, w = WalkOf(at, bits, level, path, hold, prev, this)
    PROVE  /\ IsWalk(w) /\ w.at = at /\ w.bits = bits /\ w.level = level /\ w.path = path
           /\ w.hold = hold /\ w.prev = prev /\ w.this = this
  BY DEF IsWalk, WalkOf

\* The next leaf of the lowest node, or the end of the node.
Onward(w, index) ==
    IF Finished(w, index) THEN [w EXCEPT !.at = "pop"] ELSE ToLeaf(w, index)

\* From the lowest level the walk goes to the leaf of the next entry, or the
\* node is at its end.
LEMMA ToNextLeaf ==
    ASSUME NEW w, IsWalk(w),
           NEW leafs, NEW index, NEW top, NEW depth, NEW lv, NEW tops,
           Forest(leafs, index, tops, depth, lv),
           w.level = depth,
           NEW d \in Nat, d + 1 = w.path[depth].next,
           Between(w.path, depth, w.hold, w.prev, d, leafs, index, top, depth, lv),
           FullBut(index, w.path[depth].sector),
           Finished(w, index) => w.prev # NIL,
           NEW x, x = Onward(w, index)
    PROVE  /\ IsWalk(x)
           /\ AtLeaf(x, leafs, index, top, depth, lv) \/ AtNodeEnd(x, leafs, index, top, depth, lv)
<1> DEFINE s == w.path[depth].sector
           n == d + 1
<1>0. n \in Nat \ {0} /\ n = w.path[depth].next /\ d = n - 1
  OBVIOUS
<1> HIDE DEF n
<1>10. Between(w.path, depth, w.hold, w.prev, n - 1, leafs, index, top, depth, lv)
  BY <1>0
<1>1. /\ depth \in 1 .. depth /\ w.path \in [1 .. depth -> [sector : Sectors, next : Nat]]
      /\ n - 1 \in 0 .. Len(index[s]) /\ s \in DOMAIN index /\ Len(index[s]) \in Nat
  <2>1. /\ depth \in 1 .. depth /\ w.path \in [1 .. depth -> [sector : Sectors, next : Nat]]
        /\ n - 1 \in 0 .. Len(index[s]) /\ s \in DOMAIN index
    BY <1>10 DEF Between, OnLevel
  <2>2. index \in [DOMAIN index -> Seq(Entry)]
    BY DEF Forest, Levelled
  <2>3. index[s] \in Seq(Entry)
    BY <2>1, <2>2
  <2> QED
    BY <2>1, <2>3
<1>2. Finished(w, index) <=> n = Len(index[s]) + 1
  BY <1>0 DEF Finished
<1>3. CASE Finished(w, index)
  <2>1. x = [at |-> "pop", bits |-> w.bits, level |-> w.level, path |-> w.path,
             hold |-> w.hold, prev |-> w.prev, this |-> w.this]
    BY <1>3 DEF IsWalk, Onward
  <2>2. /\ IsWalk(x) /\ x.at = "pop" /\ x.level = depth /\ x.path = w.path /\ x.hold = w.hold
        /\ x.prev = w.prev
    BY <2>1 DEF IsWalk
  <2>3. LastBelow(w.hold, w.prev, depth, depth) # NIL
    BY <1>3 DEF LastBelow
  <2> QED
    BY <1>0, <1>2, <1>3, <1>10, <2>2, <2>3 DEF AtNodeEnd
<1>4. CASE ~Finished(w, index)
  <2> DEFINE route == [w.path EXCEPT ![depth].next = n + 1]
  <2>1. x = [at |-> "leaf", bits |-> w.bits, level |-> w.level, path |-> route,
             hold |-> w.hold, prev |-> w.prev, this |-> index[s][n].sector]
    BY <1>0, <1>4 DEF IsWalk, ToLeaf, Onward
  <2>2. Between(route, depth, w.hold, w.prev, n - 1, leafs, index, top, depth, lv)
    BY <1>0, <1>10, BetweenTurned, n + 1 \in Nat
  <2>3. route[depth].sector = s /\ route[depth].next = n + 1
    BY <1>1
  <2> HIDE DEF route
  <2>4. /\ IsWalk(x) /\ x.at = "leaf" /\ x.level = depth /\ x.path = route /\ x.hold = w.hold
        /\ x.prev = w.prev /\ x.this = index[s][n].sector
    BY <2>1 DEF IsWalk
  <2>5. n \in 1 .. Len(index[s])
    BY <1>0, <1>1, <1>2, <1>4
  <2>6. FullBut(index, NIL)
    <3>1. Len(index[s]) >= 1
      BY <1>0, <1>1, <2>5
    <3> QED
      BY <3>1 DEF FullBut
  <2>7. n + 1 \in 2 .. Len(index[s]) + 1 /\ (n + 1) - 2 = n - 1 /\ (n + 1) - 1 = n
    BY <1>0, <1>1, <2>5
  <2> QED
    BY <2>2, <2>3, <2>4, <2>6, <2>7 DEF AtLeaf
<1> QED
  BY <1>3, <1>4

\* No node has more entries than its block takes.
Sized(index) == \A s \in DOMAIN index : Len(index[s]) <= AllocPerNode

\* Where the walk of a deletion can be; the first is no deletion.
Walking(w, leafs, index, top, depth, lv) ==
    \/ w = Idle /\ FullBut(index, NIL)
    \/ IsWalk(w) /\ AtLeaf(w, leafs, index, top, depth, lv)
    \/ IsWalk(w) /\ AtNodeEnd(w, leafs, index, top, depth, lv)
    \/ IsWalk(w) /\ AtNode(w, leafs, index, top, depth, lv)
    \/ IsWalk(w) /\ AtTop(w, index, top, depth)

\* A tree: a forest with one top, on the first level.
Rooted(leafs, index, top, depth, lv) ==
    Forest(leafs, index, {top}, depth, lv) /\ top \in DOMAIN index /\ lv[top] = 1

\* The tree and the walk in it.
Sound(leafs, index, top, depth, w) ==
    /\ Sized(index)
    /\ \E lv : Rooted(leafs, index, top, depth, lv) /\ Walking(w, leafs, index, top, depth, lv)

\* The walk is at a leaf.
LEMMA LeafHere ==
    ASSUME NEW w, NEW leafs, NEW index, NEW top, NEW depth, NEW lv, NEW tops,
           Forest(leafs, index, tops, depth, lv),
           AtLeaf(w, leafs, index, top, depth, lv)
    PROVE  w.this \in leafs
<1> DEFINE s == w.path[depth].sector
           i == w.path[depth].next - 1
<1>1. /\ w.path[depth].next \in 2 .. Len(index[s]) + 1
      /\ OnLevel(index, lv, s, depth)
      /\ w.this = index[s][i].sector
  <2>1. \A k \in 1 .. depth : OnLevel(index, lv, w.path[k].sector, k)
    BY DEF AtLeaf, Between
  <2>2. depth \in 1 .. depth
    BY DEF Forest, Levelled
  <2> QED
    BY <2>1, <2>2 DEF AtLeaf
<1>2. s \in DOMAIN index /\ lv[s] = depth /\ Len(index[s]) \in Nat
  BY <1>1 DEF OnLevel, Forest, Levelled
<1>3. i \in 1 .. Len(index[s])
  BY <1>1, <1>2
<1> HIDE DEF i, s
<1>4. w.this \in Blocks(leafs, index) /\ lv[w.this] = depth + 1
  BY <1>1, <1>2, <1>3 DEF Forest, Hanging
<1> QED
  BY <1>4 DEF Forest, Levelled

\* The leaf is done and stays.
LEMMA LeafKept ==
    ASSUME NEW w, IsWalk(w),
           NEW leafs, NEW index, NEW top, NEW depth, NEW lv, NEW tops,
           Forest(leafs, index, tops, depth, lv),
           AtLeaf(w, leafs, index, top, depth, lv),
           NEW next, next = [w EXCEPT !.prev = w.this],
           NEW x, x = Onward(next, index)
    PROVE  /\ IsWalk(x)
           /\ AtLeaf(x, leafs, index, top, depth, lv) \/ AtNodeEnd(x, leafs, index, top, depth, lv)
<1> DEFINE s == w.path[depth].sector
           n == w.path[depth].next
           this == index[s][n - 1].sector
<1>1. /\ w.level = depth /\ n \in 2 .. Len(index[s]) + 1
      /\ Between(w.path, depth, w.hold, w.prev, n - 2, leafs, index, top, depth, lv)
      /\ w.this = this
      /\ FullBut(index, NIL)
  BY DEF AtLeaf
<1>2. /\ depth \in 1 .. depth /\ s \in DOMAIN index /\ lv[s] = depth
      /\ index[s] \in Seq(Entry) /\ Len(index[s]) \in Nat
      /\ w.path \in [1 .. depth -> [sector : Sectors, next : Nat]]
  <2>1. /\ depth \in 1 .. depth /\ s \in DOMAIN index /\ lv[s] = depth
        /\ w.path \in [1 .. depth -> [sector : Sectors, next : Nat]]
    BY <1>1 DEF Between, OnLevel
  <2>2. index \in [DOMAIN index -> Seq(Entry)]
    BY DEF Forest, Levelled
  <2>3. index[s] \in Seq(Entry)
    BY <2>1, <2>2
  <2> QED
    BY <2>1, <2>3
<1>3. n \in Nat \ {0} /\ n - 1 \in 1 .. Len(index[s]) /\ n - 1 >= 1 /\ n - 1 \in 0 .. Len(index[s])
  BY <1>1, <1>2
<1>4. this \in leafs /\ this \in Sectors /\ this # NIL
  <2>1. this \in Blocks(leafs, index) /\ lv[this] = depth + 1
    BY <1>2, <1>3 DEF Forest, Hanging
  <2>2. this \in leafs /\ leafs \in SUBSET Sectors
    BY <2>1 DEF Forest, Levelled
  <2> QED
    BY <2>2, TreeAssumption DEF NIL
<1>5. next = [at |-> w.at, bits |-> w.bits, level |-> w.level, path |-> w.path,
              hold |-> w.hold, prev |-> w.this, this |-> w.this]
  BY DEF IsWalk
<1>6. /\ IsWalk(next) /\ next.level = depth /\ next.path = w.path /\ next.hold = w.hold
      /\ next.prev = this
  BY <1>1, <1>5 DEF IsWalk
<1>7. Between(w.path, depth, w.hold, this, n - 1, leafs, index, top, depth, lv)
  <2>1. LastDone(w.path, w.hold, index, depth, n - 1, LastBelow(w.hold, this, depth, depth))
    <3>1. LastBelow(w.hold, this, depth, depth) = this
      BY DEF LastBelow
    <3>2. Leads(index, w.path[depth].sector, n - 1, this)
      BY <1>3 DEF Leads
    <3> QED
      BY <1>3, <3>1, <3>2 DEF LastDone
  <2>2. \A k \in 1 .. depth - 1 :
          LastDone(w.path, w.hold, index, k, w.path[k].next - 2, LastBelow(w.hold, this, depth, k))
    <3>1. ASSUME NEW k \in 1 .. depth - 1
          PROVE  LastBelow(w.hold, this, depth, k) = LastBelow(w.hold, w.prev, depth, k)
      <4>1. k # depth
        BY <1>2
      <4> QED
        BY <4>1 DEF LastBelow
    <3> QED
      BY <1>1, <3>1 DEF Between
  <2>3. \A k \in depth + 1 .. depth : FALSE
    BY <1>2
  <2> HIDE DEF this, n, s
  <2> QED
    BY <1>1, <1>3, <1>4, <2>1, <2>2, <2>3 DEF Between, s
<1>8. FullBut(index, s)
  BY <1>1, <1>2, TreeAssumption DEF FullBut, NIL, Forest, Levelled
<1> HIDE DEF this
<1> DEFINE d == n - 1
<1>9. d \in Nat /\ d + 1 = next.path[depth].next /\ FullBut(index, next.path[depth].sector)
  BY <1>3, <1>6, <1>8
<1>10. Between(next.path, depth, next.hold, next.prev, d, leafs, index, top, depth, lv)
  BY <1>6, <1>7
<1>11. Finished(next, index) => next.prev # NIL
  BY <1>4, <1>6
<1> HIDE DEF d, n, s
<1> QED
  BY <1>6, <1>9, <1>10, <1>11, ToNextLeaf

\* The leaf goes into the one before.
LEMMA LeafMerged ==
    ASSUME NEW w, IsWalk(w),
           NEW leafs, NEW index, NEW top, NEW depth, NEW lv,
           Forest(leafs, index, {top}, depth, lv), top \in DOMAIN index, lv[top] = 1,
           Sized(index), AtLeaf(w, leafs, index, top, depth, lv), w.prev # NIL,
           NEW next, next = [w EXCEPT !.path[w.level].next = @ - 1],
           NEW index2, index2 = RemoveIndex(index, w.path, w.level),
           NEW x, x = Onward(next, index2),
           NEW less, less = leafs \ {w.this}
    PROVE  w.prev \in less /\ Sound(less, index2, top, depth, x)
<1> DEFINE s == w.path[depth].sector
           n == w.path[depth].next
           this == index[s][n - 1].sector
<1>1. /\ w.level = depth /\ n \in 2 .. Len(index[s]) + 1
      /\ Between(w.path, depth, w.hold, w.prev, n - 2, leafs, index, top, depth, lv)
      /\ w.this = this
      /\ FullBut(index, NIL)
  BY DEF AtLeaf
<1>2. /\ depth \in 1 .. depth /\ depth \in Nat \ {0} /\ s \in DOMAIN index /\ lv[s] = depth
      /\ index[s] \in Seq(Entry) /\ Len(index[s]) \in Nat
      /\ w.path \in [1 .. depth -> [sector : Sectors, next : Nat]]
  <2>1. /\ depth \in 1 .. depth /\ s \in DOMAIN index /\ lv[s] = depth
        /\ w.path \in [1 .. depth -> [sector : Sectors, next : Nat]]
    BY <1>1 DEF Between, OnLevel
  <2>2. index \in [DOMAIN index -> Seq(Entry)] /\ depth \in Nat \ {0}
    BY DEF Forest, Levelled
  <2>3. index[s] \in Seq(Entry)
    BY <2>1, <2>2
  <2> QED
    BY <2>1, <2>2, <2>3
<1> DEFINE d == n - 2
           i == n - 1
<1>3. /\ n - 1 \in 1 .. Len(index[s]) /\ d \in Nat /\ i \in Nat
      /\ d + 1 = n - 1 /\ i = n - 1 /\ i - 1 = d /\ d + 1 = i /\ i \in 1 .. Len(index[s])
      /\ d + 1 <= Len(index[s])
  BY <1>1, <1>2
<1>4. this \in leafs /\ this # top
  <2>1. this \in Blocks(leafs, index) \ {top} /\ lv[this] = depth + 1
    BY <1>2, <1>3 DEF Forest, Hanging
  <2> QED
    BY <2>1 DEF Forest, Levelled
<1>5. /\ s = w.path[depth].sector /\ n = w.path[depth].next /\ this = index[s][i].sector
      /\ Between(w.path, depth, w.hold, w.prev, d, leafs, index, top, depth, lv)
  BY <1>1, <1>3
<1> HIDE DEF s, n, this, d, i
<1>6. w.prev \in leafs /\ w.prev # this
  <2>1. LastBelow(w.hold, w.prev, depth, depth) = w.prev
    BY DEF LastBelow
  <2>2. w.prev \in leafs
    BY <1>5 DEF Between
  <2>3. d + 1 <= Len(index[w.path[depth].sector])
    BY <1>3, <1>5
  <2>4. w.prev # index[w.path[depth].sector][d + 1].sector
    BY <1>5, <2>1, <2>3, LastIsNotNext
  <2> QED
    BY <1>3, <1>5, <2>2, <2>4
<1> DEFINE over == {top} \union {this}
<1>7. /\ Forest(leafs, index2, over, depth, lv)
      /\ DOMAIN index2 = DOMAIN index
      /\ AlikeBut(index, index2, s)
      /\ Len(index2[s]) = Len(index[s]) - 1
      /\ SameKids(index, index2, s, d)
  <2>1. OnTheWay(index, w.path, depth, s)
    <3>1. ASSUME NEW k \in 1 .. depth - 1
          PROVE  /\ w.path[k].sector \in DOMAIN index /\ w.path[k].sector # s
                 /\ w.path[k].next - 1 \in 1 .. Len(index[w.path[k].sector])
      <4>1. k \in 1 .. depth /\ k # depth
        BY <1>2
      <4>2. OnLevel(index, lv, w.path[k].sector, k)
        BY <1>5, <4>1 DEF Between
      <4>3. Leads(index, w.path[k].sector, w.path[k].next - 1, w.path[k + 1].sector)
        BY <1>5 DEF Between
      <4> QED
        BY <1>2, <4>1, <4>2, <4>3 DEF OnLevel, Leads
    <3> QED
      BY <3>1 DEF OnTheWay
  <2>2. Behind(w.path, depth, s, i)
    BY <1>3, <1>5 DEF Behind
  <2>3. index2 = RemoveIndex(index, w.path, depth)
    BY <1>1
  <2>4. over = Plus({top}, index[s][i].sector)
    BY <1>5 DEF Plus
  <2> HIDE DEF over
  <2>5. /\ Forest(leafs, index2, over, depth, lv)
        /\ DOMAIN index2 = DOMAIN index
        /\ AlikeBut(index, index2, s)
        /\ Len(index2[s]) = Len(index[s]) - 1
        /\ SameKids(index, index2, s, i - 1)
    BY <1>2, <1>3, <1>5, <2>1, <2>2, <2>3, <2>4, RemoveIndexIs
  <2> QED
    BY <1>3, <2>5
<1>8. this \in over /\ over \ {this} = {top} /\ leafs \ {this} = less
  BY <1>1, <1>4
<1> HIDE DEF over
<1>9. PICK lw : /\ Forest(leafs \ {this}, index2, over \ {this}, depth, lw)
                /\ SameOn(Blocks(leafs, index2) \ {this}, lv, lw)
  BY <1>4, <1>7, <1>8, LeafDropped
<1>10. Forest(less, index2, {top}, depth, lw)
  BY <1>8, <1>9
<1>11. SameOn(DOMAIN index, lv, lw)
  <2>1. this \notin DOMAIN index
    BY <1>4 DEF Forest, Levelled
  <2> QED
    BY <1>7, <1>9, <2>1 DEF Blocks, SameOn
<1> DEFINE route == [w.path EXCEPT ![depth].next = i]
<1>12. /\ route \in [1 .. depth -> [sector : Sectors, next : Nat]]
       /\ route[depth].sector = s /\ route[depth].next = i
       /\ SamePath(w.path, route, depth)
  <2>1. /\ [w.path[depth] EXCEPT !.next = i] \in [sector : Sectors, next : Nat]
        /\ [w.path[depth] EXCEPT !.next = i].sector = s
        /\ [w.path[depth] EXCEPT !.next = i].next = i
    BY <1>2, <1>3, <1>5
  <2>2. \A k \in 1 .. depth - 1 : k \in 1 .. depth /\ k # depth
    BY <1>2
  <2>3. \A k \in 1 .. depth - 1 : route[k] = w.path[k]
    BY <1>2, <2>2
  <2> QED
    BY <1>2, <1>5, <2>1, <2>3 DEF SamePath
<1>13. next = [at |-> w.at, bits |-> w.bits, level |-> w.level, path |-> route,
               hold |-> w.hold, prev |-> w.prev, this |-> w.this]
  <2>1. w.path[depth].next - 1 = i
    BY <1>3, <1>5
  <2>2. [w.path EXCEPT ![w.level].next = @ - 1] = route
    BY <1>1, <1>2, <2>1
  <2> HIDE DEF route
  <2> QED
    BY <2>2 DEF IsWalk
<1> HIDE DEF route
<1>14. Counted(index) /\ Counted(index2)
  <2>1. index \in [DOMAIN index -> Seq(Entry)] /\ index2 \in [DOMAIN index2 -> Seq(Entry)]
    BY <1>10 DEF Forest, Levelled
  <2> QED
    BY <2>1 DEF Counted
<1>15. Between(route, depth, w.hold, w.prev, d, less, index2, top, depth, lw)
  <2>1. w.prev # NIL => w.prev \in less
    BY <1>6, <1>8
  <2>2. Len(index2[s]) >= d
    BY <1>2, <1>3, <1>7
  <2> QED
    BY <1>2, <1>5, <1>7, <1>11, <1>12, <1>14, <2>1, <2>2, BetweenStays
<1>16. FullBut(index2, s)
  <2>1. \A t \in DOMAIN index : t # NIL
    BY TreeAssumption DEF NIL, Forest, Levelled
  <2> QED
    BY <1>1, <1>7, <2>1 DEF FullBut, Alike, AlikeBut
<1>17. /\ IsWalk(next) /\ next.level = depth /\ next.path = route /\ next.hold = w.hold
       /\ next.prev = w.prev
  BY <1>1, <1>13 DEF IsWalk
<1>18. /\ d + 1 = next.path[depth].next
       /\ Between(next.path, depth, next.hold, next.prev, d, less, index2, top, depth, lw)
       /\ FullBut(index2, next.path[depth].sector)
       /\ next.prev # NIL
  BY <1>3, <1>12, <1>15, <1>16, <1>17
<1>19. /\ IsWalk(x)
       /\ \/ AtLeaf(x, less, index2, top, depth, lw)
          \/ AtNodeEnd(x, less, index2, top, depth, lw)
  BY <1>3, <1>10, <1>17, <1>18, ToNextLeaf
<1>20. \A t \in DOMAIN index : Len(index2[t]) <= Len(index[t])
  BY <1>7, <1>14 DEF Alike, AlikeBut, Counted
<1>21. w.this \in leafs /\ w.prev \in less /\ lw[top] = lv[top]
  BY <1>1, <1>4, <1>6, <1>8, <1>11 DEF SameOn
<1>22. Sized(index2) /\ top \in DOMAIN index2
  <2>1. \A t \in DOMAIN index : Len(index2[t]) <= Len(index[t]) /\ Len(index[t]) <= AllocPerNode
                              /\ Len(index2[t]) \in Nat /\ Len(index[t]) \in Nat
    BY <1>7, <1>14, <1>20 DEF Sized, Counted
  <2>2. DOMAIN index2 = DOMAIN index
    BY <1>7
  <2>3. AllocPerNode \in Nat
    BY TreeAssumption
  <2>4. \A t \in DOMAIN index : Len(index2[t]) <= AllocPerNode
    BY <2>1, <2>3
  <2> QED
    BY <2>2, <2>4 DEF Sized
<1>23. Sound(less, index2, top, depth, x)
  BY <1>10, <1>19, <1>21, <1>22 DEF Sound, Rooted, Walking
<1> QED
  BY <1>21, <1>23

-----------------------------------------------------------------------------
(* The nodes of a walk. *)

\* One level up, before the node's next entry, or at the node's end.
Upward(w, index) == IF Finished(w, index) THEN w ELSE [w EXCEPT !.at = "push"]

\* From a node that is done the walk goes to the level above.
LEMMA ToUpperNode ==
    ASSUME NEW w, IsWalk(w), w.at = "pop",
           NEW leafs, NEW index, NEW top, NEW depth, NEW lv, NEW tops,
           Forest(leafs, index, tops, depth, lv),
           w.level < depth, NEW s, NEW d, Behind(w.path, w.level, s, d),
           Between(w.path, w.level, w.hold, w.prev, d, leafs, index, top, depth, lv),
           FullBut(index, s),
           LastBelow(w.hold, w.prev, depth, w.level) # NIL,
           NEW x, x = Upward(w, index)
    PROVE  /\ IsWalk(x)
           /\ AtNode(x, leafs, index, top, depth, lv) \/ AtNodeEnd(x, leafs, index, top, depth, lv)
<1>1. /\ w.level \in 1 .. depth /\ w.path \in [1 .. depth -> [sector : Sectors, next : Nat]]
      /\ s = w.path[w.level].sector /\ d = w.path[w.level].next - 1
      /\ d \in 0 .. Len(index[s]) /\ s \in DOMAIN index
  BY DEF Between, OnLevel, Behind
<1>2. Len(index[s]) \in Nat /\ w.path[w.level].next \in Nat
  <2>1. index \in [DOMAIN index -> Seq(Entry)]
    BY DEF Forest, Levelled
  <2>2. index[s] \in Seq(Entry)
    BY <1>1, <2>1
  <2>3. w.path[w.level] \in [sector : Sectors, next : Nat]
    BY <1>1
  <2> QED
    BY <2>2, <2>3
<1> DEFINE n == w.path[w.level].next
<1>3. Finished(w, index) <=> n = Len(index[s]) + 1
  BY <1>1 DEF Finished
<1>4. n - 1 = d /\ (n # Len(index[s]) + 1 => n \in 1 .. Len(index[s]))
  BY <1>1, <1>2
<1> HIDE DEF n
<1>5. CASE Finished(w, index)
  BY <1>1, <1>3, <1>4, <1>5 DEF AtNodeEnd, n, Upward
<1>6. CASE ~Finished(w, index)
  <2>1. x = [at |-> "push", bits |-> w.bits, level |-> w.level, path |-> w.path,
             hold |-> w.hold, prev |-> w.prev, this |-> w.this]
    BY <1>6 DEF IsWalk, Upward
  <2>2. /\ IsWalk(x) /\ x.at = "push" /\ x.level = w.level /\ x.path = w.path /\ x.hold = w.hold
        /\ x.prev = w.prev
    BY <2>1 DEF IsWalk
  <2>3. FullBut(index, NIL)
    <3>1. Len(index[s]) >= 1
      BY <1>2, <1>3, <1>4, <1>6
    <3> QED
      BY <3>1 DEF FullBut
  <2> QED
    BY <1>1, <1>3, <1>4, <1>6, <2>2, <2>3 DEF AtNode, n
<1> QED
  BY <1>5, <1>6

\* Whether a node is merged into the one held.
Merges(index, this, prev) == prev # NIL /\ Len(index[this]) <= AllocPerNode - Len(index[prev])

\* The walk above a node that stays: PopNode when it merges nothing.
KeptAbove(w, index, this) ==
    LET next == [w EXCEPT !.hold[w.level] = this]
        up   == [next EXCEPT !.level = w.level - 1]
    IN  IF w.level = 1 THEN [next EXCEPT !.at = "shrink"] ELSE Upward(up, index)

\* The fields of that walk.
LEMMA KeptAboveIs ==
    ASSUME NEW w, IsWalk(w), w.at = "pop", NEW index, NEW this,
           NEW held, held = Held(w.hold, w.level, this),
           NEW m, m = w.level - 1
    PROVE  KeptAbove(w, index, this) =
             IF w.level = 1 THEN WalkOf("shrink", w.bits, w.level, w.path, held, w.prev, w.this)
             ELSE Upward(WalkOf("pop", w.bits, m, w.path, held, w.prev, w.this), index)
<1> DEFINE next == [w EXCEPT !.hold[w.level] = this]
           up   == [next EXCEPT !.level = w.level - 1]
<1>1. next = WalkOf("pop", w.bits, w.level, w.path, held, w.prev, w.this)
  BY DEF IsWalk, Held, WalkOf
<1> HIDE DEF next
<1>2. up = WalkOf("pop", w.bits, m, w.path, held, w.prev, w.this)
  BY <1>1 DEF WalkOf
<1>3. [next EXCEPT !.at = "shrink"] = WalkOf("shrink", w.bits, w.level, w.path, held, w.prev, w.this)
  BY <1>1 DEF WalkOf
<1> QED
  BY <1>2, <1>3 DEF KeptAbove, next

\* The node is done and stays.
LEMMA NodeKept ==
    ASSUME NEW w, IsWalk(w),
           NEW leafs, NEW index, NEW top, NEW depth, NEW lv, NEW tops,
           Forest(leafs, index, tops, depth, lv), Sized(index),
           AtNodeEnd(w, leafs, index, top, depth, lv),
           NEW this, this = w.path[w.level].sector,
           ~Merges(index, this, w.hold[w.level]),
           NEW x, x = KeptAbove(w, index, this)
    PROVE  /\ IsWalk(x)
           /\ \/ AtNode(x, leafs, index, top, depth, lv)
              \/ AtNodeEnd(x, leafs, index, top, depth, lv)
              \/ AtTop(x, index, top, depth)
<1> DEFINE l == w.level
           n == w.path[l].next
           d == n - 1
           held == Held(w.hold, l, this)
<1>1. /\ w.at = "pop" /\ n = Len(index[this]) + 1
      /\ Between(w.path, l, w.hold, w.prev, d, leafs, index, top, depth, lv)
      /\ LastBelow(w.hold, w.prev, depth, l) # NIL
      /\ FullBut(index, this)
  BY DEF AtNodeEnd
<1>2. /\ l \in 1 .. depth /\ depth \in Nat
      /\ w.path \in [1 .. depth -> [sector : Sectors, next : Nat]]
      /\ w.hold \in [1 .. depth -> Sectors \union {NIL}]
      /\ this \in DOMAIN index /\ this \in Sectors /\ this # NIL
      /\ w.path[1].sector = top /\ w.hold[1] = NIL
  <2>1. this \in DOMAIN index /\ l \in 1 .. depth
    BY <1>1 DEF Between, OnLevel
  <2> QED
    BY <1>1, <2>1, TreeAssumption DEF Between, Forest, Levelled, NIL
<1>3. Counted(index)
  <2>1. index \in [DOMAIN index -> Seq(Entry)]
    BY DEF Forest, Levelled
  <2> QED
    BY <2>1 DEF Counted
<1>4. d = Len(index[this]) /\ d \in Nat
  BY <1>1, <1>2, <1>3 DEF Counted
<1> HIDE DEF l, n, d
<1>5. d # 0
  <2> SUFFICES ASSUME d = 0
               PROVE  FALSE
    OBVIOUS
  <2>1. w.hold[l] # NIL
    BY <1>1 DEF Between, LastDone
  <2>2. w.hold[l] \in DOMAIN index
    BY <1>1, <1>2, <2>1 DEF Between, OnLevel
  <2>3. Len(index[w.hold[l]]) <= AllocPerNode /\ Len(index[w.hold[l]]) \in Nat
    BY <1>3, <2>2 DEF Sized, Counted
  <2>4. Len(index[this]) <= AllocPerNode - Len(index[w.hold[l]])
    <3>1. Len(index[this]) = 0 /\ AllocPerNode \in Nat
      BY <1>4, TreeAssumption
    <3> QED
      BY <2>3, <3>1
  <2> QED
    BY <2>1, <2>4 DEF Merges, l
<1>6. FullBut(index, NIL)
  <2>1. Len(index[this]) >= 1
    BY <1>4, <1>5
  <2> QED
    BY <1>1, <2>1 DEF FullBut
<1> HIDE DEF held
<1>7. ASSUME NEW m, m = l - 1
      PROVE  x = IF l = 1 THEN WalkOf("shrink", w.bits, l, w.path, held, w.prev, w.this)
                 ELSE Upward(WalkOf("pop", w.bits, m, w.path, held, w.prev, w.this), index)
  BY <1>1, <1>7, KeptAboveIs DEF l, held
<1>8. CASE l = 1
  <2>1. x = WalkOf("shrink", w.bits, l, w.path, held, w.prev, w.this)
    BY <1>7, <1>8
  <2>2. IsWalk(x) /\ x.at = "shrink" /\ x.hold = held
    BY <2>1, WalkFields
  <2>3. held[1] = this /\ \A k \in 1 .. depth : k # 1 => held[k] = w.hold[k]
    BY <1>2, <1>8 DEF held, Held
  <2>4. \A k \in 1 .. depth : k # 1 => w.hold[k] # NIL /\ w.hold[k] \in DOMAIN index
    <3> SUFFICES ASSUME NEW k \in 1 .. depth, k # 1
                 PROVE  w.hold[k] # NIL /\ w.hold[k] \in DOMAIN index
      OBVIOUS
    <3>1. k \in l + 1 .. depth
      BY <1>8
    <3>2. w.hold[k] # NIL
      BY <1>1, <3>1 DEF Between
    <3> QED
      BY <1>1, <3>2 DEF Between, OnLevel
  <2>5. held \in [1 .. depth -> Sectors]
    <3>1. held \in [1 .. depth -> Sectors \union {NIL}]
      BY <1>2 DEF held, Held
    <3>2. \A k \in 1 .. depth : held[k] \in Sectors
      BY <1>2, <2>3, <2>4
    <3> QED
      BY <3>1, <3>2
  <2>6. \A k \in 1 .. depth : held[k] \in DOMAIN index
    BY <1>2, <2>3, <2>4
  <2>7. ASSUME NEW k \in 1 .. depth - 1
        PROVE  EndsIn(index, held[k], held[k + 1])
    <3>1. k \in 1 .. depth /\ k + 1 \in 1 .. depth /\ k + 1 # 1 /\ k # depth
      BY <1>2
    <3>2. LastBelow(w.hold, w.prev, depth, k) = held[k + 1]
      BY <2>3, <3>1 DEF LastBelow
    <3>3. CASE k = 1
      <4>1. LastDone(w.path, w.hold, index, 1, d, LastBelow(w.hold, w.prev, depth, 1))
        BY <1>1, <1>8 DEF Between
      <4>2. Leads(index, w.path[1].sector, d, held[k + 1])
        BY <1>1, <1>4, <1>5, <1>8, <3>2, <3>3, <4>1 DEF LastDone
      <4> QED
        BY <1>4, <1>8, <2>3, <3>3, <4>2 DEF EndsIn, l
    <3>4. CASE k # 1
      <4>1. k \in l + 1 .. depth
        BY <1>8, <3>1, <3>4
      <4>2. EndsIn(index, w.hold[k], LastBelow(w.hold, w.prev, depth, k))
        BY <1>1, <4>1 DEF Between
      <4> QED
        BY <2>3, <3>1, <3>2, <3>4, <4>2
    <3> QED
      BY <3>3, <3>4
  <2>8. \A k \in 1 .. depth - 1 : held[k] \in DOMAIN index /\ EndsIn(index, held[k], held[k + 1])
    BY <1>2, <2>6, <2>7
  <2>9. held[1] = top /\ held[depth] \in DOMAIN index
    <3>1. depth \in 1 .. depth /\ this = top
      BY <1>2, <1>8 DEF l
    <3> QED
      BY <2>3, <2>6, <3>1
  <2> QED
    BY <1>6, <2>2, <2>5, <2>8, <2>9 DEF AtTop
<1>9. CASE l # 1
  <2> DEFINE m == l - 1
             s == w.path[m].sector
             u == w.path[m].next - 1
  <2>1. m \in Nat \ {0} /\ l = m + 1 /\ Behind(w.path, m, s, u) /\ m < depth /\ m = l - 1
        /\ m \in 1 .. l /\ m # depth
    BY <1>2, <1>9 DEF Behind
  <2> HIDE DEF m, s, u
  <2>2. s \in DOMAIN index
    BY <1>1, <2>1 DEF Between, OnLevel, Behind
  <2>3. Len(index[s]) \in Nat
    BY <1>3, <2>2 DEF Counted
  <2>4. this = w.path[l].sector /\ held = Held(w.hold, l, this) /\ d \in Nat \ {0}
    BY <1>4, <1>5 DEF l, held
  <2>5. Between(w.path, m, held, w.prev, u, leafs, index, top, depth, lv)
    BY <1>1, <1>2, <1>4, <2>1, <2>3, <2>4, WalkUp
  <2> DEFINE above == WalkOf("pop", w.bits, m, w.path, held, w.prev, w.this)
  <2>6. x = Upward(above, index)
    BY <1>7, <1>9, <2>1
  <2>7. /\ IsWalk(above) /\ above.at = "pop" /\ above.level = m /\ above.path = w.path
        /\ above.hold = held /\ above.prev = w.prev
    BY WalkFields
  <2> HIDE DEF above
  <2>8. LastBelow(held, w.prev, depth, m) # NIL
    <3>1. LastBelow(held, w.prev, depth, m) = held[l]
      BY <2>1 DEF LastBelow
    <3>2. held[l] = this
      BY <1>2 DEF held, Held
    <3> QED
      BY <1>2, <3>1, <3>2
  <2>9. FullBut(index, s)
    BY <1>6, <2>2, TreeAssumption DEF FullBut, NIL, Forest, Levelled
  <2> QED
    BY <2>1, <2>5, <2>7, <2>8, <2>9, <2>6, ToUpperNode
<1> QED
  BY <1>8, <1>9

\* A node without a parent goes; its entries, perhaps with another key, are put
\* behind those of a node of its level.
Joining(index, this, q, more) == Without([index EXCEPT ![q] = @ \o more], this)

\* What is then in the nodes.
JoinedTo(index, index2, this, q, more) ==
    /\ DOMAIN index2 = DOMAIN index \ {this}
    /\ index2 \in [DOMAIN index \ {this} -> Seq(Entry)]
    /\ index2[q] = index[q] \o more
    /\ \A t \in DOMAIN index : t # this /\ t # q => index2[t] = index[t]

\* The nodes are joined.
LEMMA JoiningIs ==
    ASSUME NEW index, index \in [DOMAIN index -> Seq(Entry)],
           NEW this \in DOMAIN index, NEW q \in DOMAIN index, this # q, NEW more, more \in Seq(Entry),
           NEW index2, index2 = Joining(index, this, q, more)
    PROVE  JoinedTo(index, index2, this, q, more)
<1> DEFINE long == [index EXCEPT ![q] = @ \o more]
<1>1. index[q] \o more \in Seq(Entry)
  BY ConcatProperties
<1>2. /\ long \in [DOMAIN index -> Seq(Entry)] /\ long[q] = index[q] \o more
      /\ \A t \in DOMAIN index : t # q => long[t] = index[t]
  BY <1>1
<1>3. index2 = Without(long, this)
  BY DEF Joining
<1> HIDE DEF long
<1>4. index2 = [t \in DOMAIN index \ {this} |-> long[t]]
  BY <1>2, <1>3 DEF Without, Restrict
<1> QED
  BY <1>2, <1>4 DEF JoinedTo

\* Two lists of entries lead to the same blocks.
SameList(list, other) ==
    Len(list) = Len(other) /\ \A j \in 1 .. Len(list) : list[j].sector = other[j].sector

\* The forest stays one when two nodes are joined.
LEMMA NodesJoined ==
    ASSUME NEW leafs, NEW index, NEW over, NEW depth, NEW lv,
           Forest(leafs, index, over, depth, lv),
           NEW this \in DOMAIN index, NEW q \in DOMAIN index, this # q, lv[this] = lv[q],
           this \in over, NEW rest, rest = over \ {this},
           NEW more, more \in Seq(Entry), SameList(more, index[this]),
           NEW index2, index2 = Joining(index, this, q, more)
    PROVE  \E lw : /\ Forest(leafs, index2, rest, depth, lw)
                   /\ SameOn(Blocks(leafs, index) \ {this}, lv, lw)
<1> DEFINE n == Len(index[this])
           a == index[q] \o SubSeq(index[this], 0 + 1, n)
           b == SubSeq(index[this], 1, 0)
           index3 == [index EXCEPT ![q] = @ \o SubSeq(index[this], 0 + 1, Len(index[this])),
                                   ![this] = SubSeq(@, 1, 0)]
<1>1. index \in [DOMAIN index -> Seq(Entry)] /\ n \in Nat /\ 0 \in 0 .. Len(index[this])
  BY DEF Forest, Levelled
<1>2. Forest(leafs, index3, over, depth, lv)
  BY <1>1, KidsMoved
<1>3. /\ DOMAIN index3 = DOMAIN index /\ index3[q] = a /\ index3[this] = b
      /\ \A t \in DOMAIN index : t # q /\ t # this => index3[t] = index[t]
  BY <1>1
<1> HIDE DEF index3
<1>4. SubSeq(index[this], 0 + 1, n) = index[this] /\ b = <<>>
  <2>1. index[this] \in Seq(Entry) /\ 0 + 1 = 1
    BY <1>1
  <2> QED
    BY <2>1
<1>5. a = index[q] \o index[this]
  BY <1>4
<1>6. index3[this] = <<>> /\ this \in DOMAIN index3
  BY <1>3, <1>4
<1>7. PICK lw : /\ Forest(leafs, Without(index3, this), over \ {this}, depth, lw)
                /\ SameOn(Blocks(leafs, index3) \ {this}, lv, lw)
  BY <1>2, <1>6, NodeDropped
<1> DEFINE index4 == Without(index3, this)
<1>8. /\ DOMAIN index4 = DOMAIN index \ {this} /\ index4[q] = index[q] \o index[this]
      /\ \A t \in DOMAIN index : t # q /\ t # this => index4[t] = index[t]
  BY <1>3, <1>5 DEF Without, Restrict
<1>9. Forest(leafs, index4, rest, depth, lw)
  BY <1>7
<1> HIDE DEF index4
<1>14. /\ Len(more) = n /\ n = Len(index[this])
       /\ \A j \in 1 .. n : more[j].sector = index[this][j].sector
  BY DEF SameList
<1> HIDE DEF n
<1>10. /\ DOMAIN index2 = DOMAIN index \ {this}
       /\ index2 \in [DOMAIN index \ {this} -> Seq(Entry)]
       /\ index2[q] = index[q] \o more
       /\ \A t \in DOMAIN index : t # this /\ t # q => index2[t] = index[t]
  <2>1. JoinedTo(index, index2, this, q, more)
    BY <1>1, JoiningIs
  <2> QED
    BY <2>1 DEF JoinedTo
<1>11. ASSUME NEW t \in DOMAIN index4
       PROVE  /\ Len(index2[t]) = Len(index4[t])
              /\ \A i \in 1 .. Len(index4[t]) : index2[t][i].sector = index4[t][i].sector
  <2>1. CASE t # q
    BY <1>8, <1>10, <2>1
  <2>2. CASE t = q
    <3> DEFINE m == Len(index[q])
               x == index[q] \o more
               y == index[q] \o index[this]
    <3>1. index[q] \in Seq(Entry) /\ index[this] \in Seq(Entry) /\ m \in Nat
      BY <1>1
    <3>6. more \in Seq(Entry) /\ Len(more) = n
      BY <1>14
    <3>7. Len(index[this]) = n
      BY <1>14
    <3>2. /\ Len(x) = m + n
          /\ \A i \in 1 .. m + n : x[i] = IF i <= m THEN index[q][i] ELSE more[i - m]
      <4>1. index[q] \in Seq(Entry) /\ more \in Seq(Entry)
        BY <3>1, <3>6
      <4>2. m = Len(index[q]) /\ n = Len(more) /\ x = index[q] \o more
        BY <3>6
      <4> HIDE DEF m, x
      <4> QED
        BY <4>1, <4>2, ConcatAt
    <3>3. /\ Len(y) = m + n
          /\ \A i \in 1 .. m + n : y[i] = IF i <= m THEN index[q][i] ELSE index[this][i - m]
      BY <3>1, <3>7, ConcatProperties
    <3>4. index2[t] = x /\ index4[t] = y
      BY <1>8, <1>10, <2>2
    <3> HIDE DEF x, y, m
    <3>5. \A i \in 1 .. m + n : x[i].sector = y[i].sector
      <4> SUFFICES ASSUME NEW i \in 1 .. m + n
                   PROVE  x[i].sector = y[i].sector
        OBVIOUS
      <4>1. CASE i <= m
        BY <3>2, <3>3, <4>1
      <4>2. CASE ~(i <= m)
        <5>1. i - m \in 1 .. n
          BY <1>1, <3>1, <4>2
        <5>2. x[i] = more[i - m] /\ y[i] = index[this][i - m]
          BY <3>2, <3>3, <4>2
        <5> QED
          BY <1>14, <5>1, <5>2
      <4> QED
        BY <4>1, <4>2
    <3> QED
      BY <3>2, <3>3, <3>4, <3>5
  <2> QED
    BY <2>1, <2>2
<1>12. Forest(leafs, index2, rest, depth, lw)
  <2>1. index2 \in [DOMAIN index4 -> Seq(Entry)]
    BY <1>8, <1>10
  <2>2. Forest(leafs, index4, rest, depth, lw)
    BY <1>9
  <2>3. \A t \in DOMAIN index4 :
           /\ Len(index2[t]) = Len(index4[t])
           /\ \A i \in 1 .. Len(index4[t]) : index2[t][i].sector = index4[t][i].sector
    BY <1>11
  <2> QED
    BY ONLY <2>1, <2>2, <2>3, KeysSet
<1>13. SameOn(Blocks(leafs, index) \ {this}, lv, lw)
  BY <1>3, <1>7 DEF Blocks
<1> QED
  BY <1>12, <1>13

\* The path one entry back on level l.
Back(path, l) == [path EXCEPT ![l].next = @ - 1]

\* The walk above a node that is merged: PopNode when it merges.
MergedAbove(w, index) ==
    LET next == [w EXCEPT !.path[w.level - 1].next = @ - 1]
    IN  Upward([next EXCEPT !.level = w.level - 1], index)

\* The fields of that walk.
LEMMA MergedAboveIs ==
    ASSUME NEW w, IsWalk(w), w.at = "pop", NEW index, NEW m, m = w.level - 1,
           NEW route, route = Back(w.path, m)
    PROVE  MergedAbove(w, index) =
             Upward(WalkOf("pop", w.bits, m, route, w.hold, w.prev, w.this), index)
<1> DEFINE next == [w EXCEPT !.path[w.level - 1].next = @ - 1]
<1>1. next = WalkOf("pop", w.bits, w.level, route, w.hold, w.prev, w.this)
  BY DEF IsWalk, Back, WalkOf
<1> HIDE DEF next
<1>2. [next EXCEPT !.level = w.level - 1] = WalkOf("pop", w.bits, m, route, w.hold, w.prev, w.this)
  BY <1>1 DEF WalkOf
<1> QED
  BY <1>2 DEF MergedAbove, next

\* The paths of a tree of that depth.
Paths(depth) == [1 .. depth -> [sector : Sectors, next : Nat]]

\* The path that is one entry back.
LEMMA BackIs ==
    ASSUME NEW depth, NEW path, path \in Paths(depth), NEW l, NEW s, NEW i, Behind(path, l, s, i),
           l \in 1 .. depth, depth \in Nat, i \in Nat,
           NEW route, route = Back(path, l)
    PROVE  /\ route \in Paths(depth)
           /\ SamePath(path, route, l) /\ Behind(route, l, s, i - 1)
<1>0. path \in [1 .. depth -> [sector : Sectors, next : Nat]]
  BY DEF Paths
<1>1. path[l].next - 1 = i /\ path[l].next \in Nat /\ path[l].sector = s
  BY <1>0 DEF Behind
<1>2. route = [path EXCEPT ![l] = [path[l] EXCEPT !.next = i]]
  BY <1>1 DEF Back
<1>3. path[l] = [sector |-> path[l].sector, next |-> path[l].next] /\ path[l].sector \in Sectors
  BY <1>0
<1>4. [path[l] EXCEPT !.next = i] = [sector |-> path[l].sector, next |-> i]
  BY <1>3
<1>5. /\ route \in [1 .. depth -> [sector : Sectors, next : Nat]]
      /\ route[l] = [sector |-> path[l].sector, next |-> i]
      /\ \A k \in 1 .. depth : k # l => route[k] = path[k]
  BY <1>0, <1>2, <1>3, <1>4
<1>6. \A k \in 1 .. l - 1 : k \in 1 .. depth /\ k # l
  OBVIOUS
<1> QED
  BY <1>1, <1>5, <1>6 DEF SamePath, Paths, Behind

\* The index when node this is merged into prev.
MergedIndex(w, index, this, prev) ==
    Without([RemoveIndex(index, w.path, w.level - 1) EXCEPT ![prev] = @ \o index[this]], this)

\* The node is done and goes into the one held.
LEMMA NodeMerged ==
    ASSUME NEW w, IsWalk(w),
           NEW leafs, NEW index, NEW top, NEW depth, NEW lv,
           Forest(leafs, index, {top}, depth, lv), top \in DOMAIN index, lv[top] = 1,
           Sized(index),
           AtNodeEnd(w, leafs, index, top, depth, lv),
           NEW this, this = w.path[w.level].sector,
           NEW q, q = w.hold[w.level], Merges(index, this, q),
           NEW index2, index2 = MergedIndex(w, index, this, q),
           NEW x, x = MergedAbove(w, index2)
    PROVE  w.level # 1 /\ Sound(leafs, index2, top, depth, x)
<1> DEFINE l == w.level
           n == w.path[l].next
           d == n - 1
           m == l - 1
           p == w.path[m].sector
           i == w.path[m].next - 1
           e == i - 1
<1>1. /\ w.at = "pop" /\ n = Len(index[this]) + 1
      /\ Between(w.path, l, w.hold, w.prev, d, leafs, index, top, depth, lv)
      /\ LastBelow(w.hold, w.prev, depth, l) # NIL
      /\ FullBut(index, this)
  BY DEF AtNodeEnd
<1>2. /\ l \in 1 .. depth /\ depth \in Nat
      /\ w.path \in [1 .. depth -> [sector : Sectors, next : Nat]]
      /\ w.hold \in [1 .. depth -> Sectors \union {NIL}]
      /\ this \in DOMAIN index /\ lv[this] = l /\ this \in Sectors /\ this # NIL
      /\ w.path[1].sector = top /\ w.hold[1] = NIL
  <2>1. this \in DOMAIN index /\ lv[this] = l /\ l \in 1 .. depth
    BY <1>1 DEF Between, OnLevel
  <2> QED
    BY <1>1, <2>1, TreeAssumption DEF Between, Forest, Levelled, NIL
<1>3. Counted(index) /\ index \in [DOMAIN index -> Seq(Entry)]
  <2>1. index \in [DOMAIN index -> Seq(Entry)]
    BY DEF Forest, Levelled
  <2> QED
    BY <2>1 DEF Counted
<1>4. d = Len(index[this]) /\ d \in Nat
  BY <1>1, <1>2, <1>3 DEF Counted
<1>5. q # NIL /\ Len(index[this]) <= AllocPerNode - Len(index[q])
  BY DEF Merges
<1>6. l # 1
  BY <1>2, <1>5
<1>7. /\ m \in Nat \ {0} /\ l = m + 1 /\ m = l - 1 /\ m \in 1 .. depth /\ m < depth /\ m \in 1 .. l
      /\ m \in 1 .. l - 1 /\ m # depth
  BY <1>2, <1>6
<1>8. q \in DOMAIN index /\ lv[q] = l /\ q # this
  <2>1. OnLevel(index, lv, q, l)
    BY <1>1, <1>2, <1>5 DEF Between
  <2>2. q # this
    <3>1. \A k \in 1 .. l : w.hold[k] # w.path[k].sector
      BY <1>1 DEF Between
    <3>2. l \in 1 .. l
      BY <1>2
    <3> QED
      BY <3>1, <3>2
  <2> QED
    BY <2>1, <2>2 DEF OnLevel
<1>9. this = w.path[l].sector /\ q = w.hold[l]
  OBVIOUS
<1> HIDE DEF l, n, d
<1>10. /\ p \in DOMAIN index /\ lv[p] = m /\ p # this /\ p # q
       /\ Leads(index, p, i, this)
       /\ i \in Nat /\ i >= 1 /\ i \in 1 .. Len(index[p]) /\ w.path[m].next = i + 1
       /\ e = i - 1 /\ e \in Nat
  <2>1. p \in DOMAIN index /\ lv[p] = m
    BY <1>1, <1>7 DEF Between, OnLevel
  <2>2. Leads(index, p, i, w.path[m + 1].sector)
    BY <1>1, <1>7 DEF Between
  <2>3. w.path[m + 1].sector = this
    BY <1>7, <1>9
  <2>4. Len(index[p]) \in Nat /\ w.path[m].next \in Nat
    BY <1>2, <1>3, <1>7, <2>1 DEF Counted
  <2>5. i \in 1 .. Len(index[p])
    BY <2>2 DEF Leads
  <2>6. lv[p] # lv[this] /\ lv[p] # lv[q]
    BY <1>2, <1>7, <1>8, <2>1
  <2>7. p # this /\ p # q
    BY <2>6
  <2> HIDE DEF p
  <2>8. Leads(index, p, i, this)
    BY <2>2, <2>3
  <2>9. i \in Nat /\ i >= 1 /\ w.path[m].next = i + 1 /\ e = i - 1 /\ e \in Nat
    BY <2>4, <2>5
  <2> QED
    BY <2>1, <2>5, <2>7, <2>8, <2>9
<1> HIDE DEF m, e
<1>11. Behind(w.path, m, p, i)
  BY DEF Behind
<1> HIDE DEF p, i
<1> DEFINE index1 == RemoveIndex(index, w.path, m)
           over == Plus({top}, this)
<1>12. /\ Forest(leafs, index1, over, depth, lv)
       /\ DOMAIN index1 = DOMAIN index
       /\ AlikeBut(index, index1, p)
       /\ Len(index1[p]) = Len(index[p]) - 1
       /\ SameKids(index, index1, p, e)
  <2>1. OnTheWay(index, w.path, m, p)
    <3>1. ASSUME NEW k \in 1 .. m - 1
          PROVE  /\ w.path[k].sector \in DOMAIN index /\ w.path[k].sector # p
                 /\ w.path[k].next - 1 \in 1 .. Len(index[w.path[k].sector])
      <4>1. k \in 1 .. l /\ k \in 1 .. l - 1 /\ k # m
        BY <1>2, <1>7
      <4>2. OnLevel(index, lv, w.path[k].sector, k)
        BY <1>1, <4>1 DEF Between
      <4>3. Leads(index, w.path[k].sector, w.path[k].next - 1, w.path[k + 1].sector)
        BY <1>1, <4>1 DEF Between
      <4> QED
        BY <1>10, <4>1, <4>2, <4>3 DEF OnLevel, Leads
    <3> QED
      BY <3>1 DEF OnTheWay
  <2>2. index1 = RemoveIndex(index, w.path, m) /\ over = Plus({top}, index[p][i].sector)
    BY <1>10 DEF Leads
  <2> HIDE DEF index1, over
  <2>3. /\ Forest(leafs, index1, over, depth, lv)
        /\ DOMAIN index1 = DOMAIN index
        /\ AlikeBut(index, index1, p)
        /\ Len(index1[p]) = Len(index[p]) - 1
        /\ SameKids(index, index1, p, i - 1)
    BY <1>7, <1>10, <1>11, <2>1, <2>2, RemoveIndexIs
  <2> QED
    BY <1>10, <2>3
<1>13. this # top /\ this \in over /\ {top} = over \ {this}
  <2>1. this # top
    BY <1>2, <1>6 DEF l
  <2> QED
    BY <2>1 DEF Plus
<1>14. index2 = Joining(index1, this, q, index[this])
  BY DEF MergedIndex, Joining, m, l
<1> HIDE DEF index1, over
<1> DEFINE more == index[this]
           rest == {top}
<1>15. more \in Seq(Entry) /\ SameList(more, index1[this])
  <2>1. Alike(index, index1, this)
    BY <1>2, <1>10, <1>12 DEF AlikeBut
  <2> QED
    BY <1>2, <1>3, <2>1 DEF SameList, Alike, SameKids
<1>16. rest = over \ {this} /\ index2 = Joining(index1, this, q, more) /\ rest = {top} /\ more = index[this]
  BY <1>13, <1>14
<1> HIDE DEF more, rest
<1>17. PICK lw : /\ Forest(leafs, index2, rest, depth, lw)
                 /\ SameOn(Blocks(leafs, index1) \ {this}, lv, lw)
  <2>1. this \in DOMAIN index1 /\ q \in DOMAIN index1 /\ lv[this] = lv[q] /\ this # q
    BY <1>2, <1>8, <1>12
  <2> QED
    BY <1>12, <1>13, <1>15, <1>16, <2>1, NodesJoined
<1>18. JoinedTo(index1, index2, this, q, more)
  <2>1. index1 \in [DOMAIN index1 -> Seq(Entry)]
    BY <1>12 DEF Forest, Levelled
  <2>2. this \in DOMAIN index1 /\ q \in DOMAIN index1 /\ this # q
    BY <1>2, <1>8, <1>12
  <2> QED
    BY <1>15, <1>16, <2>1, <2>2, JoiningIs
<1>19. /\ DOMAIN index2 = DOMAIN index \ {this}
       /\ SameOn(DOMAIN index \ {this}, lv, lw)
       /\ Counted(index2) /\ top \in DOMAIN index2 /\ lw[top] = 1
  <2>1. DOMAIN index2 = DOMAIN index \ {this}
    BY <1>12, <1>18 DEF JoinedTo
  <2>2. SameOn(DOMAIN index \ {this}, lv, lw)
    BY <1>12, <1>17 DEF SameOn, Blocks
  <2>3. index2 \in [DOMAIN index2 -> Seq(Entry)]
    BY <1>17 DEF Forest, Levelled
  <2>4. Counted(index2)
    BY <2>3 DEF Counted
  <2>5. top \in DOMAIN index2 /\ lw[top] = 1
    BY <1>13, <2>1, <2>2 DEF SameOn
  <2> QED
    BY <2>1, <2>2, <2>4, <2>5
<1>20. AlikeBeside(index, index2, this, p, q)
  <2> SUFFICES ASSUME NEW t \in DOMAIN index, t # this, t # p, t # q
               PROVE  Alike(index, index2, t)
    BY DEF AlikeBeside
  <2>1. index2[t] = index1[t]
    BY <1>12, <1>18 DEF JoinedTo
  <2>2. Alike(index, index1, t)
    BY <1>12 DEF AlikeBut
  <2> QED
    BY <2>1, <2>2 DEF Alike, SameKids
<1>21. Len(index2[p]) = Len(index[p]) - 1 /\ SameKids(index, index2, p, e)
  <2>1. index2[p] = index1[p]
    BY <1>10, <1>12, <1>18 DEF JoinedTo
  <2> QED
    BY <1>12, <2>1 DEF SameKids
<1>22. Joined(index, index2, this, q)
  <2> DEFINE c == index1[q] \o more
             a == Len(index1[q])
             b == Len(more)
  <2>1. index1[q] \in Seq(Entry) /\ more \in Seq(Entry)
    BY <1>8, <1>12, <1>15 DEF Forest, Levelled
  <2>2. /\ Len(c) = a + b
        /\ \A j \in 1 .. a + b : c[j] = IF j <= a THEN index1[q][j] ELSE more[j - a]
    BY <2>1, ConcatAt
  <2>3. a \in Nat /\ b \in Nat
    BY <2>1
  <2>4. index2[q] = c
    BY <1>18 DEF JoinedTo
  <2>5. Alike(index, index1, q)
    BY <1>8, <1>10, <1>12 DEF AlikeBut
  <2>6. a = Len(index[q]) /\ b = Len(index[this])
    BY <1>16, <2>5 DEF Alike
  <2> HIDE DEF a, b, c
  <2>7. \A j \in 1 .. a : index2[q][j].sector = index[q][j].sector
    <3>1. \A j \in 1 .. a : index1[q][j].sector = index[q][j].sector
      BY <2>5, <2>6 DEF Alike, SameKids
    <3>2. \A j \in 1 .. a : c[j] = index1[q][j]
      BY <2>2, <2>3
    <3> QED
      BY <2>4, <3>1, <3>2
  <2>8. \A j \in 1 .. b : index2[q][a + j].sector = index[this][j].sector
    <3>1. ASSUME NEW j \in 1 .. b
          PROVE  c[a + j] = more[j]
      <4>1. a + j \in 1 .. a + b /\ ~(a + j <= a) /\ (a + j) - a = j
        BY <2>3
      <4> QED
        BY <2>2, <4>1
    <3> QED
      BY <1>16, <2>4, <3>1
  <2>9. Len(index2[q]) = a + b
    BY <2>2, <2>4
  <2> QED
    BY <2>6, <2>7, <2>8, <2>9 DEF Joined, SameKids
<1> DEFINE route == Back(w.path, m)
<1>23. /\ route \in [1 .. depth -> [sector : Sectors, next : Nat]]
       /\ SamePath(w.path, route, m) /\ Behind(route, m, p, e)
  <2>1. route = Back(w.path, m)
    OBVIOUS
  <2> HIDE DEF route
  <2>2. w.path \in Paths(depth)
    BY <1>2 DEF Paths
  <2>3. route \in Paths(depth) /\ SamePath(w.path, route, m) /\ Behind(route, m, p, i - 1)
    BY <1>2, <1>7, <1>10, <1>11, <2>1, <2>2, BackIs
  <2> QED
    BY <1>10, <2>3 DEF Paths
<1>24. x = Upward(WalkOf("pop", w.bits, m, route, w.hold, w.prev, w.this), index2)
  BY <1>1, MergedAboveIs DEF m, l
<1> HIDE DEF route
<1>25. Between(route, m, w.hold, w.prev, e, leafs, index2, top, depth, lw)
  BY <1>1, <1>2, <1>3, <1>4, <1>5, <1>7, <1>9, <1>10, <1>11, <1>19, <1>20, <1>21, <1>22, <1>23,
     WalkMergesUp
<1>26. Behind(route, m, p, e)
  BY <1>23
<1>27. FullBut(index2, p)
  <2> SUFFICES ASSUME NEW t \in DOMAIN index2, t # p
               PROVE  Len(index2[t]) >= 1
    BY DEF FullBut
  <2>1. t \in DOMAIN index /\ t # this /\ Len(index[t]) >= 1
    BY <1>1, <1>19 DEF FullBut
  <2>2. CASE t # q
    BY <1>20, <2>1, <2>2 DEF AlikeBeside, Alike
  <2>3. CASE t = q
    <3>1. Len(index[q]) \in Nat /\ Len(index[this]) \in Nat /\ Len(index[q]) >= 1
      BY <1>2, <1>3, <2>1, <2>3 DEF Counted
    <3>2. Len(index2[q]) = Len(index[q]) + Len(index[this])
      BY <1>22 DEF Joined
    <3> DEFINE a == Len(index[q])
               b == Len(index[this])
    <3>3. a \in Nat /\ b \in Nat /\ a >= 1 /\ Len(index2[q]) = a + b
      BY <3>1, <3>2
    <3> HIDE DEF a, b
    <3>4. Len(index2[q]) >= 1
      BY <3>3
    <3> QED
      BY <2>3, <3>4
  <2> QED
    BY <2>2, <2>3
<1>28. Sized(index2)
  <2> SUFFICES ASSUME NEW t \in DOMAIN index2
               PROVE  Len(index2[t]) <= AllocPerNode
    BY DEF Sized
  <2>0. t \in DOMAIN index /\ t # this /\ Len(index[t]) <= AllocPerNode /\ Len(index[t]) \in Nat
    BY <1>3, <1>19 DEF Sized, Counted
  <2>1. CASE t = q
    <3>1. Len(index2[q]) = Len(index[q]) + Len(index[this])
      BY <1>22 DEF Joined
    <3>2. Len(index[q]) \in Nat /\ Len(index[this]) \in Nat
      BY <1>2, <1>3, <1>8 DEF Counted
    <3> DEFINE a == Len(index[q])
               b == Len(index[this])
    <3>3. a \in Nat /\ b \in Nat /\ AllocPerNode \in Nat /\ b <= AllocPerNode - a
      BY <1>5, <3>2, TreeAssumption
    <3>4. Len(index2[q]) = a + b
      BY <3>1
    <3> HIDE DEF a, b
    <3>5. Len(index2[q]) <= AllocPerNode
      BY <3>3, <3>4
    <3> QED
      BY <2>1, <3>5
  <2>2. CASE t = p
    <3>1. Len(index2[t]) = Len(index[t]) - 1
      BY <1>21, <2>2
    <3> QED
      BY <2>0, <3>1, TreeAssumption
  <2>3. CASE t # q /\ t # p
    BY <1>20, <2>0, <2>3 DEF AlikeBeside, Alike
  <2> QED
    BY <2>1, <2>2, <2>3
<1> DEFINE above == WalkOf("pop", w.bits, m, route, w.hold, w.prev, w.this)
<1>29. /\ IsWalk(above) /\ above.at = "pop" /\ above.level = m /\ above.path = route
       /\ above.hold = w.hold /\ above.prev = w.prev
  BY WalkFields
<1>30. x = Upward(above, index2)
  BY <1>24
<1> HIDE DEF above
<1>31. LastBelow(w.hold, w.prev, depth, m) # NIL
  BY <1>5, <1>7, <1>9 DEF LastBelow
<1>32. /\ IsWalk(x)
       /\ \/ AtNode(x, leafs, index2, top, depth, lw)
          \/ AtNodeEnd(x, leafs, index2, top, depth, lw)
  BY <1>7, <1>17, <1>25, <1>26, <1>27, <1>29, <1>30, <1>31, ToUpperNode
<1>33. Forest(leafs, index2, {top}, depth, lw)
  BY <1>16, <1>17
<1>34. /\ l # 1 /\ IsWalk(x) /\ Sized(index2) /\ top \in DOMAIN index2 /\ lw[top] = 1
  BY <1>6, <1>19, <1>28, <1>32
<1>35. Sound(leafs, index2, top, depth, x)
  BY <1>32, <1>33, <1>34 DEF Sound, Rooted, Walking
<1> QED
  BY <1>34, <1>35 DEF l

\* One level down to the next node.
Lower(w, l, kid) ==
    [w EXCEPT !.path[l].next = @ + 1, !.path[l + 1] = [sector |-> kid, next |-> 1], !.level = l + 1]

\* The walk of PushNode.
Pushed(w, index, depth) ==
    LET l    == w.level
        down == Lower(w, l, index[w.path[l].sector][w.path[l].next].sector)
    IN  IF down.level = depth THEN ToLeaf(down, index) ELSE down

\* The fields of a walk one level down ...
LEMMA LowerOf ==
    ASSUME NEW at, NEW bits, NEW level, NEW path, NEW hold, NEW prev, NEW this, NEW l, NEW kid
    PROVE  Lower(WalkOf(at, bits, level, path, hold, prev, this), l, kid) =
             WalkOf(at, bits, l + 1, Down(path, l, kid), hold, prev, this)
<1> DEFINE w == WalkOf(at, bits, level, path, hold, prev, this)
           step == [sector |-> kid, next |-> 1]
           a == [w EXCEPT !.path[l].next = @ + 1]
           b == [a EXCEPT !.path[l + 1] = step]
           c == [b EXCEPT !.level = l + 1]
           path1 == [path EXCEPT ![l].next = @ + 1]
           path2 == [path1 EXCEPT ![l + 1] = step]
<1>1. a = WalkOf(at, bits, level, path1, hold, prev, this)
  BY DEF WalkOf
<1> HIDE DEF a, path1
<1>2. b = WalkOf(at, bits, level, path2, hold, prev, this)
  BY <1>1 DEF WalkOf
<1> HIDE DEF b, path2
<1>3. c = WalkOf(at, bits, l + 1, path2, hold, prev, this)
  BY <1>2 DEF WalkOf
<1> HIDE DEF c
<1>4. path2 = Down(path, l, kid)
  BY DEF path2, path1, Down
<1>5. Lower(w, l, kid) = c
  BY DEF Lower, c, b, a, w
<1> QED
  BY <1>3, <1>4, <1>5

\* ... from those it had.
LEMMA LowerIs ==
    ASSUME NEW w, IsWalk(w), NEW l, NEW m, m = l + 1, NEW kid,
           NEW route, route = Down(w.path, l, kid)
    PROVE  Lower(w, l, kid) = WalkOf(w.at, w.bits, m, route, w.hold, w.prev, w.this)
<1>1. w = WalkOf(w.at, w.bits, w.level, w.path, w.hold, w.prev, w.this)
  BY DEF IsWalk, WalkOf
<1> QED
  BY <1>1, LowerOf

\* The path one level down is before the first entry.
LEMMA DownIs ==
    ASSUME NEW depth, depth \in Nat, NEW path, path \in Paths(depth),
           NEW l, NEW m, m = l + 1, l \in 1 .. depth, m \in 1 .. depth,
           NEW kid, NEW route, route = Down(path, l, kid)
    PROVE  route[m].sector = kid /\ route[m].next = 1
  BY DEF Down, Paths

\* PushNode comes to a leaf or to a node before its first entry.
LEMMA WalkPushed ==
    ASSUME NEW w, IsWalk(w),
           NEW leafs, NEW index, NEW top, NEW depth, NEW lv, NEW tops,
           Forest(leafs, index, tops, depth, lv),
           AtNode(w, leafs, index, top, depth, lv),
           NEW x, x = Pushed(w, index, depth)
    PROVE  /\ IsWalk(x)
           /\ \/ AtLeaf(x, leafs, index, top, depth, lv)
              \/ AtNodeEnd(x, leafs, index, top, depth, lv)
              \/ AtNode(x, leafs, index, top, depth, lv)
<1> DEFINE l == w.level
           p == w.path[l].sector
           n == w.path[l].next
           d == n - 1
           m == l + 1
           kid == index[p][n].sector
           route == Down(w.path, l, kid)
           down == Lower(w, l, kid)
<1>1. /\ w.at = "push" /\ l < depth /\ n \in 1 .. Len(index[p])
      /\ Between(w.path, l, w.hold, w.prev, d, leafs, index, top, depth, lv)
      /\ FullBut(index, NIL)
  BY DEF AtNode
<1>2. /\ l \in 1 .. depth /\ depth \in Nat /\ m \in 1 .. depth /\ m = l + 1
      /\ w.path \in Paths(depth) /\ p \in DOMAIN index /\ lv[p] = l
      /\ index \in [DOMAIN index -> Seq(Entry)]
  <2>1. l \in 1 .. depth /\ w.path \in Paths(depth) /\ OnLevel(index, lv, p, l)
    BY <1>1 DEF Between, Paths
  <2>2. depth \in Nat /\ index \in [DOMAIN index -> Seq(Entry)]
    BY DEF Forest, Levelled
  <2> QED
    BY <1>1, <2>1, <2>2 DEF OnLevel
<1>3. Len(index[p]) \in Nat
  BY <1>2
<1>4. d \in Nat /\ d + 1 = n /\ d + 1 <= Len(index[p]) /\ Leads(index, p, d + 1, kid)
  <2>1. d \in Nat /\ d + 1 = n /\ d + 1 <= Len(index[p])
    BY <1>1, <1>3
  <2> QED
    BY <1>1, <2>1 DEF Leads
<1>5. Behind(w.path, l, p, d)
  BY DEF Behind
<1>6. kid \in DOMAIN index /\ kid # NIL /\ Len(index[kid]) \in Nat
  <2>1. kid \in Blocks(leafs, index) /\ lv[kid] = l + 1
    BY <1>1, <1>2 DEF Forest, Hanging
  <2>2. lv[kid] # depth + 1
    BY <1>1, <1>2, <2>1
  <2>3. kid \notin leafs
    BY <2>1, <2>2 DEF Forest, Levelled
  <2>4. kid \in DOMAIN index
    BY <2>1, <2>3 DEF Blocks
  <2>5. kid \in Sectors /\ kid # NIL
    BY <2>4, TreeAssumption DEF Forest, Levelled, NIL
  <2>6. index[kid] \in Seq(Entry)
    BY <1>2, <2>4
  <2> DEFINE list == index[kid]
  <2>7. list \in Seq(Entry)
    BY <2>6
  <2> HIDE DEF list
  <2>8. Len(list) \in Nat
    BY <2>7
  <2> QED
    BY <2>4, <2>5, <2>8 DEF list
<1>7. Len(index[kid]) >= 1
  BY <1>1, <1>6 DEF FullBut
<1>8. x = IF down.level = depth THEN ToLeaf(down, index) ELSE down
  BY DEF Pushed
<1>9. down = WalkOf("push", w.bits, m, route, w.hold, w.prev, w.this)
  BY <1>1, LowerIs
<1>10. route[m].sector = kid /\ route[m].next = 1
  <2> DEFINE path == w.path
  <2>1. route = Down(path, l, kid) /\ path \in Paths(depth)
    BY <1>2
  <2> HIDE DEF path, route, kid, l, m
  <2> QED
    BY <1>2, <2>1, DownIs
<1>11. route = Down(w.path, l, kid)
  OBVIOUS
<1> HIDE DEF route, m, d, kid, p, l, n, down
<1>12. Between(route, m, w.hold, w.prev, 0, leafs, index, top, depth, lv)
  BY <1>1, <1>2, <1>4, <1>5, <1>11, WalkDown
<1>13. /\ IsWalk(down) /\ down.at = "push" /\ down.level = m /\ down.path = route
       /\ down.hold = w.hold /\ down.prev = w.prev
  BY <1>9, WalkFields
<1>14. CASE m = depth
  <2>1. ~Finished(down, index)
    <3>1. 1 # Len(index[kid]) + 1
      BY <1>6, <1>7
    <3> QED
      BY <1>10, <1>13, <3>1 DEF Finished
  <2>2. x = Onward(down, index)
    BY <1>8, <1>13, <1>14, <2>1 DEF Onward
  <2>3. 0 \in Nat /\ 0 + 1 = down.path[depth].next
    BY <1>10, <1>13, <1>14
  <2>4. FullBut(index, down.path[depth].sector)
    <3>1. \A t \in DOMAIN index : t # NIL
      BY TreeAssumption DEF Forest, Levelled, NIL
    <3> QED
      BY <1>1, <3>1 DEF FullBut
  <2>5. Between(down.path, depth, down.hold, down.prev, 0, leafs, index, top, depth, lv)
    BY <1>12, <1>13, <1>14
  <2>6. down.level = depth
    BY <1>13, <1>14
  <2> QED
    BY <1>13, <2>1, <2>2, <2>3, <2>4, <2>5, <2>6, ToNextLeaf
<1>15. CASE m # depth
  <2>1. x = down
    BY <1>8, <1>13, <1>15
  <2>2. m < depth
    BY <1>2, <1>15
  <2>3. 1 \in 1 .. Len(index[kid]) /\ 1 - 1 = 0
    BY <1>6, <1>7
  <2>4. AtNode(down, leafs, index, top, depth, lv)
    BY <1>1, <1>10, <1>12, <1>13, <2>2, <2>3 DEF AtNode
  <2> QED
    BY <1>13, <2>1, <2>4
<1> QED
  BY <1>14, <1>15

\* The walk of DropLevel.
HoldTail(w) == [w EXCEPT !.hold = Tail(@)]

\* The root has one entry and goes.
LEMMA RootDropped ==
    ASSUME NEW w, IsWalk(w),
           NEW leafs, NEW index, NEW top, NEW depth, NEW lv,
           Forest(leafs, index, {top}, depth, lv), top \in DOMAIN index, lv[top] = 1,
           Sized(index), AtTop(w, index, top, depth),
           depth > 1, Len(index[top]) = 1,
           NEW less, less = depth - 1,
           NEW root2, root2 = w.hold[2],
           NEW index2, index2 = Without(index, top),
           NEW x, x = HoldTail(w)
    PROVE  Sound(leafs, index2, root2, less, x)
<1>1. /\ w.at = "shrink" /\ w.hold \in [1 .. depth -> Sectors] /\ w.hold[1] = top
      /\ \A k \in 1 .. depth - 1 : w.hold[k] \in DOMAIN index /\ EndsIn(index, w.hold[k], w.hold[k + 1])
      /\ w.hold[depth] \in DOMAIN index
      /\ FullBut(index, NIL)
  BY DEF AtTop
<1>2. /\ depth \in Nat /\ less \in Nat \ {0} /\ 2 \in 1 .. depth /\ 1 \in 1 .. depth - 1
      /\ index \in [DOMAIN index -> Seq(Entry)] /\ DOMAIN index \in SUBSET Sectors
      /\ less + 1 = depth
  BY DEF Forest, Levelled
<1>3. \A k \in 1 .. depth : w.hold[k] \in DOMAIN index
  <2> SUFFICES ASSUME NEW k \in 1 .. depth
               PROVE  w.hold[k] \in DOMAIN index
    OBVIOUS
  <2>1. k = depth \/ k \in 1 .. depth - 1
    BY <1>2
  <2> QED
    BY <1>1, <2>1
<1>4. Leads(index, top, 1, root2)
  <2>1. EndsIn(index, w.hold[1], w.hold[1 + 1])
    BY <1>1, <1>2
  <2>2. w.hold[1 + 1] = root2 /\ w.hold[1] = top
    BY <1>1
  <2>3. EndsIn(index, top, root2)
    BY <2>1, <2>2
  <2> QED
    BY <2>3 DEF EndsIn
<1>5. root2 \in DOMAIN index /\ lv[root2] = 2 /\ root2 # top
  <2>1. root2 \in DOMAIN index
    BY <1>2, <1>3
  <2>2. lv[root2] = lv[top] + 1
    BY <1>4 DEF Leads, Forest, Hanging
  <2> QED
    BY <2>1, <2>2
<1> DEFINE index1 == [index EXCEPT ![top] = RemoveAt(@, 1)]
           over == Plus({top}, root2)
<1>6. Forest(leafs, index1, over, depth, lv)
  <2>1. Forest(leafs, index1, {top} \union {index[top][1].sector}, depth, lv)
    BY <1>4, KidTakenOut DEF Leads
  <2> QED
    BY <1>4, <2>1 DEF Leads, Plus
<1>7. /\ DOMAIN index1 = DOMAIN index /\ index1[top] = <<>>
      /\ \A t \in DOMAIN index : t # top => index1[t] = index[t]
  <2>1. index[top] \in Seq(Entry) /\ 1 \in DOMAIN index[top]
    BY <1>2
  <2>2. RemoveAt(index[top], 1) \in Seq(Entry) /\ Len(RemoveAt(index[top], 1)) = 0
    BY <2>1, RemoveAtProperties
  <2>3. RemoveAt(index[top], 1) = <<>>
    BY <2>2
  <2> QED
    BY <2>3
<1> HIDE DEF index1
<1>8. index2 = Without(index1, top) /\ DOMAIN index2 = DOMAIN index \ {top}
      /\ \A t \in DOMAIN index2 : index2[t] = index[t]
  BY <1>7 DEF Without, Restrict
<1> DEFINE rest == {root2}
<1>9. rest = over \ {top} /\ top \in over
  BY <1>5 DEF Plus
<1> HIDE DEF over, rest
<1>10. PICK lu : /\ Forest(leafs, index2, rest, depth, lu)
                 /\ SameOn(Blocks(leafs, index1) \ {top}, lv, lu)
  <2>1. \E lu : /\ Forest(leafs, Without(index1, top), over \ {top}, depth, lu)
                /\ SameOn(Blocks(leafs, index1) \ {top}, lv, lu)
    BY <1>6, <1>7, <1>9, NodeDropped
  <2> QED
    BY <1>8, <1>9, <2>1
<1>11. lu[root2] = 2
  BY <1>5, <1>7, <1>10 DEF SameOn, Blocks
<1>12. PICK lw : /\ Forest(leafs, index2, rest, less, lw)
                 /\ \A b \in Blocks(leafs, index2) : lw[b] = lu[b] - 1
  <2>1. \A t \in rest : lu[t] > 1
    BY <1>11 DEF rest
  <2>2. \E lw : /\ Forest(leafs, index2, rest, depth - 1, lw)
                /\ \A b \in Blocks(leafs, index2) : lw[b] = lu[b] - 1
    BY <1>10, <2>1, LevelDropped
  <2> QED
    BY <2>2
<1>13. lw[root2] = 1 /\ root2 \in DOMAIN index2
  BY <1>5, <1>8, <1>11, <1>12 DEF Blocks
<1>14. Forest(leafs, index2, {root2}, less, lw)
  BY <1>12 DEF rest
<1> DEFINE held == Tail(w.hold)
<1>15. x = WalkOf("shrink", w.bits, w.level, w.path, held, w.prev, w.this)
  BY <1>1 DEF IsWalk, WalkOf, HoldTail
<1>16. held \in [1 .. less -> Sectors] /\ \A k \in 1 .. less : held[k] = w.hold[k + 1]
  <2> DEFINE hold == w.hold
  <2>1. hold \in [1 .. depth -> Sectors] /\ less \in Nat /\ depth = less + 1
    BY <1>1, <1>2
  <2>2. held = Tail(hold)
    OBVIOUS
  <2> HIDE DEF hold
  <2>3. Tail(hold) \in [1 .. less -> Sectors] /\ \A k \in 1 .. less : Tail(hold)[k] = hold[k + 1]
    BY <2>1, TailIs
  <2> HIDE DEF held
  <2>4. held \in [1 .. less -> Sectors] /\ \A k \in 1 .. less : held[k] = hold[k + 1]
    BY <2>2, <2>3
  <2> QED
    BY <2>4 DEF hold
<1> HIDE DEF held
<1>17. IsWalk(x) /\ x.at = "shrink" /\ x.hold = held
  BY <1>15, WalkFields
<1>18. \A k \in 1 .. less : held[k] \in DOMAIN index2
  <2> SUFFICES ASSUME NEW k \in 1 .. less
               PROVE  held[k] \in DOMAIN index2
    OBVIOUS
  <2>1. k + 1 \in 1 .. depth /\ k \in 1 .. depth - 1 /\ held[k] = w.hold[k + 1]
    BY <1>2, <1>16
  <2>2. held[k] \in DOMAIN index
    BY <1>3, <2>1
  <2>3. Leads(index, w.hold[k], Len(index[w.hold[k]]), held[k])
    BY <1>1, <2>1 DEF EndsIn
  <2>4. held[k] # top
    BY <1>1, <2>1, <2>3 DEF Leads, Forest, Hanging
  <2> QED
    BY <1>8, <2>2, <2>4
<1>19. \A k \in 1 .. less - 1 : EndsIn(index2, held[k], held[k + 1])
  <2> SUFFICES ASSUME NEW k \in 1 .. less - 1
               PROVE  EndsIn(index2, held[k], held[k + 1])
    OBVIOUS
  <2>1. /\ k + 1 \in 1 .. depth - 1 /\ k \in 1 .. less /\ k + 1 \in 1 .. less
        /\ held[k] = w.hold[k + 1] /\ held[k + 1] = w.hold[(k + 1) + 1]
    BY <1>2, <1>16
  <2>2. EndsIn(index, held[k], held[k + 1])
    BY <1>1, <2>1
  <2>3. index2[held[k]] = index[held[k]]
    BY <1>8, <1>18, <2>1
  <2> QED
    BY <2>2, <2>3 DEF EndsIn, Leads
<1>20. held[1] = root2
  BY <1>2, <1>16
<1>21. FullBut(index2, NIL) /\ Sized(index2)
  BY <1>1, <1>8 DEF FullBut, Sized
<1>22. AtTop(x, index2, root2, less)
  <2>1. \A k \in 1 .. less - 1 : held[k] \in DOMAIN index2 /\ EndsIn(index2, held[k], held[k + 1])
    BY <1>2, <1>18, <1>19
  <2>2. held[less] \in DOMAIN index2
    BY <1>2, <1>18
  <2> QED
    BY <1>16, <1>17, <1>20, <1>21, <2>1, <2>2 DEF AtTop
<1> QED
  BY <1>13, <1>14, <1>17, <1>21, <1>22 DEF Sound, Rooted, Walking

-----------------------------------------------------------------------------
(* All leaves. *)

\* The leaves are as their operations expect them, and the chunks marked are
\* those of the exceptions, each of one.
Fitting(lf, marked) ==
    /\ \A s \in DOMAIN lf : Shaped(lf[s]) /\ Distinct(lf[s].area)
    /\ \A s, t \in DOMAIN lf : \A c : c \in ChunkSet(lf[s].area) /\ c \in ChunkSet(lf[t].area) => s = t
    /\ \A c : c \in marked <=> \E s \in DOMAIN lf : c \in ChunkSet(lf[s].area)

\* One leaf is another.
Redone(lf, lf2, s, x) ==
    DOMAIN lf2 = DOMAIN lf /\ lf2[s] = x /\ \A t \in DOMAIN lf : t # s => lf2[t] = lf[t]

\* One leaf has an exception more.
LEMMA FittingGrows ==
    ASSUME NEW lf, NEW marked, Fitting(lf, marked), NEW s, s \in DOMAIN lf,
           NEW new, new \notin marked, NEW x, Shaped(x), OneMore(lf[s].area, x.area, new),
           NEW lf2, Redone(lf, lf2, s, x),
           NEW marked2, marked2 = marked \union {new}
    PROVE  Fitting(lf2, marked2)
<1> DEFINE own(t) == ChunkSet(lf[t].area)
           own2(t) == ChunkSet(lf2[t].area)
<1>1. /\ \A t, u \in DOMAIN lf : \A c : c \in own(t) /\ c \in own(u) => t = u
      /\ \A c : c \in marked <=> \E t \in DOMAIN lf : c \in own(t)
      /\ \A t \in DOMAIN lf : Shaped(lf[t]) /\ Distinct(lf[t].area)
  BY DEF Fitting
<1>2. own2(s) = own(s) \union {new} /\ \A t \in DOMAIN lf : t # s => own2(t) = own(t)
  BY DEF Redone, OneMore
<1>3. DOMAIN lf2 = DOMAIN lf
  BY DEF Redone
<1>4. \A t \in DOMAIN lf : new \notin own(t)
  BY <1>1
<1>5. Distinct(x.area)
  BY <1>1, <1>4 DEF OneMore
<1>6. \A t \in DOMAIN lf2 : Shaped(lf2[t]) /\ Distinct(lf2[t].area)
  BY <1>1, <1>5 DEF Redone
<1> HIDE DEF own, own2
<1>7. \A t, u \in DOMAIN lf2 : \A c : c \in own2(t) /\ c \in own2(u) => t = u
  <2> SUFFICES ASSUME NEW t \in DOMAIN lf, NEW u \in DOMAIN lf, NEW c, c \in own2(t), c \in own2(u)
               PROVE  t = u
    BY <1>3
  <2>1. CASE c = new
    BY <1>2, <1>4, <2>1
  <2>2. CASE c # new
    <3>1. c \in own(t) /\ c \in own(u)
      BY <1>2, <2>2
    <3> QED
      BY <1>1, <3>1
  <2> QED
    BY <2>1, <2>2
<1>8. \A c : c \in marked2 <=> \E t \in DOMAIN lf2 : c \in own2(t)
  BY <1>1, <1>2, <1>3
<1> QED
  BY <1>6, <1>7, <1>8 DEF Fitting, own2

\* A leaf is cut in two.
LEMMA FittingCut ==
    ASSUME NEW lf, NEW marked, Fitting(lf, marked), NEW s, s \in DOMAIN lf,
           NEW n, n \notin DOMAIN lf, NEW x, Shaped(x), NEW y, Shaped(y),
           CutIn(lf[s].area, x.area, y.area),
           NEW lf2, DOMAIN lf2 = DOMAIN lf \union {n}, lf2[s] = x, lf2[n] = y,
           \A t \in DOMAIN lf : t # s => lf2[t] = lf[t]
    PROVE  Fitting(lf2, marked)
<1> DEFINE own(t) == ChunkSet(lf[t].area)
           own2(t) == ChunkSet(lf2[t].area)
<1>1. /\ \A t, u \in DOMAIN lf : \A c : c \in own(t) /\ c \in own(u) => t = u
      /\ \A c : c \in marked <=> \E t \in DOMAIN lf : c \in own(t)
      /\ \A t \in DOMAIN lf : Shaped(lf[t]) /\ Distinct(lf[t].area)
  BY DEF Fitting
<1>2. /\ \A c : c \in own(s) <=> c \in own2(s) \/ c \in own2(n)
      /\ \A c : ~(c \in own2(s) /\ c \in own2(n))
      /\ Distinct(x.area) /\ Distinct(y.area)
  BY <1>1 DEF CutIn
<1>3. \A t \in DOMAIN lf : t # s => own2(t) = own(t)
  OBVIOUS
<1>4. \A t \in DOMAIN lf2 : Shaped(lf2[t]) /\ Distinct(lf2[t].area)
  BY <1>1, <1>2
<1> HIDE DEF own, own2
<1> DEFINE from(t) == IF t = n THEN s ELSE t
<1>5. \A t \in DOMAIN lf2 : from(t) \in DOMAIN lf /\ \A c : c \in own2(t) => c \in own(from(t))
  BY <1>2, <1>3
<1>6. \A t, u \in DOMAIN lf2 : \A c : c \in own2(t) /\ c \in own2(u) => t = u
  <2> SUFFICES ASSUME NEW t \in DOMAIN lf2, NEW u \in DOMAIN lf2, NEW c, c \in own2(t), c \in own2(u)
               PROVE  t = u
    OBVIOUS
  <2>1. from(t) = from(u)
    BY <1>1, <1>5
  <2>2. t = u \/ (t = n /\ u = s) \/ (t = s /\ u = n)
    BY <2>1
  <2> QED
    BY <1>2, <2>2
<1>7. \A c : c \in marked <=> \E t \in DOMAIN lf2 : c \in own2(t)
  <2> SUFFICES ASSUME NEW c
               PROVE  c \in marked <=> \E t \in DOMAIN lf2 : c \in own2(t)
    OBVIOUS
  <2>1. ASSUME c \in marked
        PROVE  \E t \in DOMAIN lf2 : c \in own2(t)
    <3>1. PICK t \in DOMAIN lf : c \in own(t)
      BY <1>1, <2>1
    <3>2. CASE t = s
      BY <1>2, <3>1, <3>2
    <3>3. CASE t # s
      BY <1>3, <3>1, <3>3
    <3> QED
      BY <3>2, <3>3
  <2>2. ASSUME NEW t \in DOMAIN lf2, c \in own2(t)
        PROVE  c \in marked
    BY <1>1, <1>5, <2>2
  <2> QED
    BY <2>1, <2>2
<1> QED
  BY <1>4, <1>6, <1>7 DEF Fitting, own2

\* Some chunks of a leaf go.
LEMMA FittingCleared ==
    ASSUME NEW lf, NEW marked, Fitting(lf, marked), NEW s, s \in DOMAIN lf,
           NEW gone, gone \in SUBSET ChunkSet(lf[s].area), NEW x, Shaped(x), Distinct(x.area),
           ChunkSet(x.area) = ChunkSet(lf[s].area) \ gone,
           NEW lf2, Redone(lf, lf2, s, x),
           NEW marked2, marked2 = marked \ gone
    PROVE  Fitting(lf2, marked2)
<1> DEFINE own(t) == ChunkSet(lf[t].area)
           own2(t) == ChunkSet(lf2[t].area)
<1>1. /\ \A t, u \in DOMAIN lf : \A c : c \in own(t) /\ c \in own(u) => t = u
      /\ \A c : c \in marked <=> \E t \in DOMAIN lf : c \in own(t)
      /\ \A t \in DOMAIN lf : Shaped(lf[t]) /\ Distinct(lf[t].area)
  BY DEF Fitting
<1>2. own2(s) = own(s) \ gone /\ \A t \in DOMAIN lf : t # s => own2(t) = own(t)
  BY DEF Redone
<1>3. DOMAIN lf2 = DOMAIN lf
  BY DEF Redone
<1>4. \A t \in DOMAIN lf2 : Shaped(lf2[t]) /\ Distinct(lf2[t].area)
  BY <1>1 DEF Redone
<1>5. \A c \in gone : c \in own(s)
  OBVIOUS
<1> HIDE DEF own, own2
<1>6. \A t \in DOMAIN lf : \A c : c \in own2(t) <=> c \in own(t) /\ c \notin gone
  BY <1>1, <1>2, <1>5
<1>7. \A c : c \in marked2 <=> \E t \in DOMAIN lf2 : c \in own2(t)
  BY <1>1, <1>3, <1>6
<1>8. \A t, u \in DOMAIN lf2 : \A c : c \in own2(t) /\ c \in own2(u) => t = u
  BY <1>1, <1>3, <1>6
<1> QED
  BY <1>4, <1>7, <1>8 DEF Fitting, own2

\* A leaf is put into another one.
LEMMA FittingMerged ==
    ASSUME NEW lf, NEW marked, Fitting(lf, marked), NEW s, s \in DOMAIN lf,
           NEW p, p \in DOMAIN lf, p # s, NEW x, Shaped(x), BothOf(x.area, lf[p].area, lf[s].area),
           NEW lf2, DOMAIN lf2 = DOMAIN lf \ {s}, lf2[p] = x,
           \A t \in DOMAIN lf : t # s /\ t # p => lf2[t] = lf[t]
    PROVE  Fitting(lf2, marked)
<1> DEFINE own(t) == ChunkSet(lf[t].area)
           own2(t) == ChunkSet(lf2[t].area)
<1>1. /\ \A t, u \in DOMAIN lf : \A c : c \in own(t) /\ c \in own(u) => t = u
      /\ \A c : c \in marked <=> \E t \in DOMAIN lf : c \in own(t)
      /\ \A t \in DOMAIN lf : Shaped(lf[t]) /\ Distinct(lf[t].area)
  BY DEF Fitting
<1>2. own2(p) = own(p) \union own(s) /\ \A t \in DOMAIN lf : t # s /\ t # p => own2(t) = own(t)
  BY DEF BothOf
<1>3. own(p) \intersect own(s) = {}
  BY <1>1
<1>4. Distinct(x.area)
  BY <1>1, <1>3 DEF BothOf
<1>5. \A t \in DOMAIN lf2 : Shaped(lf2[t]) /\ Distinct(lf2[t].area)
  BY <1>1, <1>4
<1> HIDE DEF own, own2
<1> DEFINE to(t) == IF t = s THEN p ELSE t
<1>6. ASSUME NEW c, NEW t \in DOMAIN lf2, c \in own2(t)
      PROVE  \E u \in DOMAIN lf : c \in own(u) /\ to(u) = t
  <2>1. CASE t = p
    BY <1>2, <1>6, <2>1
  <2>2. CASE t # p
    BY <1>2, <1>6, <2>2
  <2> QED
    BY <2>1, <2>2
<1>7. ASSUME NEW c, NEW u \in DOMAIN lf, c \in own(u)
      PROVE  to(u) \in DOMAIN lf2 /\ c \in own2(to(u))
  BY <1>2, <1>7
<1> HIDE DEF to
<1>8. \A t, u \in DOMAIN lf2 : \A c : c \in own2(t) /\ c \in own2(u) => t = u
  <2> SUFFICES ASSUME NEW t \in DOMAIN lf2, NEW u \in DOMAIN lf2, NEW c, c \in own2(t), c \in own2(u)
               PROVE  t = u
    OBVIOUS
  <2>1. PICK t1 \in DOMAIN lf : c \in own(t1) /\ to(t1) = t
    BY <1>6
  <2>2. PICK u1 \in DOMAIN lf : c \in own(u1) /\ to(u1) = u
    BY <1>6
  <2> QED
    BY <1>1, <2>1, <2>2
<1>9. \A c : c \in marked <=> \E t \in DOMAIN lf2 : c \in own2(t)
  BY <1>1, <1>6, <1>7
<1> QED
  BY <1>5, <1>8, <1>9 DEF Fitting, own2

\* The sum of ExceptionsAccounted counts the places of all areas.
LEMMA AreaSum ==
    ASSUME NEW f, IsFiniteSet(DOMAIN f), \A s \in DOMAIN f : Len(f[s].area) \in Nat
    PROVE  FoldSet(LAMBDA s, n : Len(f[s].area) + n, 0, DOMAIN f)
             = Cardinality(Places(DOMAIN f, [s \in DOMAIN f |-> Len(f[s].area)]))
<1> DEFINE len == [s \in DOMAIN f |-> Len(f[s].area)]
           Sums(it) == it = [s \in SUBSET DOMAIN f |->
                               IF s = {} THEN 0
                               ELSE LET x == CHOOSE y \in s : TRUE IN Len(f[x].area) + it[s \ {x}]]
<1>1. FoldSet(LAMBDA s, n : Len(f[s].area) + n, 0, DOMAIN f) = (CHOOSE it : Sums(it))[DOMAIN f]
  BY DEF FoldSet, MapThenFoldSet
<1>2. \A it : Sums(it) <=> SumsUp(it, DOMAIN f, len)
  <2>1. ASSUME NEW it
        PROVE  [s \in SUBSET DOMAIN f |->
                   IF s = {} THEN 0
                   ELSE LET x == CHOOSE y \in s : TRUE IN Len(f[x].area) + it[s \ {x}]]
               = [s \in SUBSET DOMAIN f |->
                   IF s = {} THEN 0
                   ELSE LET x == CHOOSE y \in s : TRUE IN len[x] + it[s \ {x}]]
    <3>1. ASSUME NEW s \in SUBSET DOMAIN f, s # {}
          PROVE  LET x == CHOOSE y \in s : TRUE
                 IN  Len(f[x].area) + it[s \ {x}] = len[x] + it[s \ {x}]
      <4> DEFINE x == CHOOSE y \in s : TRUE
      <4>1. x \in DOMAIN f
        BY <3>1
      <4> HIDE DEF x
      <4>2. Len(f[x].area) + it[s \ {x}] = len[x] + it[s \ {x}]
        BY <4>1
      <4> QED
        BY <4>2 DEF x
    <3> QED
      BY <3>1
  <2> QED
    BY <2>1 DEF SumsUp
<1> HIDE DEF Sums
<1>3. len \in [DOMAIN f -> Nat]
  OBVIOUS
<1> HIDE DEF len
<1>4. \E it : SumsUp(it, DOMAIN f, len)
  BY <1>3, SumExists
<1>5. Sums(CHOOSE it : Sums(it))
  BY <1>2, <1>4
<1> DEFINE it == CHOOSE i : Sums(i)
<1>6. SumsUp(it, DOMAIN f, len)
  BY <1>2, <1>5
<1> HIDE DEF it
<1>7. it[DOMAIN f] = Cardinality(Places(DOMAIN f, len))
  BY <1>3, <1>6, SumIs
<1> QED
  BY <1>1, <1>7 DEF it, len

\* The chunks marked are as many as the exceptions.
LEMMA ChunksAccounted ==
    ASSUME Fitting(leaf, used), IsFiniteSet(DOMAIN leaf)
    PROVE  ExceptionsAccounted
<1> DEFINE len == [s \in DOMAIN leaf |-> Len(leaf[s].area)]
           places == Places(DOMAIN leaf, len)
           f == [p \in places |-> leaf[p[1]].area[p[2]].chunk]
<1>1. \A p : p \in places <=> \E s \in DOMAIN leaf : \E i \in 1 .. Len(leaf[s].area) : p = <<s, i>>
  BY DEF Places
<1>2. /\ \A s \in DOMAIN leaf : Shaped(leaf[s]) /\ Distinct(leaf[s].area)
      /\ \A s, t \in DOMAIN leaf : \A c : c \in ChunkSet(leaf[s].area) /\ c \in ChunkSet(leaf[t].area) => s = t
      /\ \A c : c \in used <=> \E s \in DOMAIN leaf : c \in ChunkSet(leaf[s].area)
  BY DEF Fitting
<1>3. \A s \in DOMAIN leaf : Len(leaf[s].area) \in Nat /\ DOMAIN leaf[s].area = 1 .. Len(leaf[s].area)
  BY <1>2, LenProperties DEF Shaped
<1>4. ASSUME NEW s \in DOMAIN leaf, NEW i \in 1 .. Len(leaf[s].area)
      PROVE  <<s, i>> \in places /\ f[<<s, i>>] = leaf[s].area[i].chunk
             /\ f[<<s, i>>] \in ChunkSet(leaf[s].area) /\ f[<<s, i>>] \in used
  <2>1. <<s, i>> \in places /\ f[<<s, i>>] = leaf[s].area[i].chunk
    BY <1>1
  <2>2. leaf[s].area[i].chunk \in ChunkSet(leaf[s].area)
    BY DEF ChunkSet
  <2> HIDE DEF f, places
  <2> QED
    BY <1>2, <2>1, <2>2
<1>5. f = [p \in places |-> f[p]]
  OBVIOUS
<1> HIDE DEF f, places
<1>6. f \in [places -> used]
  <2>1. \A p \in places : f[p] \in used
    BY <1>1, <1>4
  <2> QED
    BY <1>5, <2>1
<1>7. ASSUME NEW p \in places, NEW q \in places, f[p] = f[q]
      PROVE  p = q
  <2>1. PICK s \in DOMAIN leaf : \E i \in 1 .. Len(leaf[s].area) : p = <<s, i>>
    BY <1>1
  <2>2. PICK i \in 1 .. Len(leaf[s].area) : p = <<s, i>>
    BY <2>1
  <2>3. PICK t \in DOMAIN leaf : \E j \in 1 .. Len(leaf[t].area) : q = <<t, j>>
    BY <1>1
  <2>4. PICK j \in 1 .. Len(leaf[t].area) : q = <<t, j>>
    BY <2>3
  <2>5. s = t
    BY <1>2, <1>4, <1>7, <2>2, <2>4
  <2>6. leaf[s].area[i].chunk = leaf[s].area[j].chunk
    BY <1>4, <1>7, <2>2, <2>4, <2>5
  <2>7. i = j
    BY <1>2, <2>5, <2>6 DEF Distinct
  <2> QED
    BY <2>2, <2>4, <2>5, <2>7
<1>8. ASSUME NEW c \in used
      PROVE  \E p \in places : f[p] = c
  <2>1. PICK s \in DOMAIN leaf : c \in ChunkSet(leaf[s].area)
    BY <1>2
  <2>2. PICK i \in 1 .. Len(leaf[s].area) : c = leaf[s].area[i].chunk
    BY <2>1 DEF ChunkSet
  <2> QED
    BY <1>4, <2>2
<1>9. len \in [DOMAIN leaf -> Nat]
  BY <1>3
<1> HIDE DEF len
<1>10. IsFiniteSet(places)
  BY <1>9, PlacesFinite DEF places
<1>11. ExistsBijection(places, used)
  <2>1. f \in Bijection(places, used)
    BY <1>6, <1>7, <1>8 DEF Bijection, Injection, Surjection, IsInjective
  <2> QED
    BY <2>1 DEF ExistsBijection
<1>12. Cardinality(used) = Cardinality(places)
  BY <1>10, <1>11, FS_Bijection
<1>13. FoldSet(LAMBDA s, n : Len(leaf[s].area) + n, 0, DOMAIN leaf) = Cardinality(places)
  <2>1. \A s \in DOMAIN leaf : Len(leaf[s].area) \in Nat
    BY <1>3
  <2> QED
    BY <2>1, AreaSum DEF places, len
<1>14. used = UNION {{e.chunk : e \in ToSet(leaf[s].area)} : s \in DOMAIN leaf}
  <2>1. ASSUME NEW s \in DOMAIN leaf
        PROVE  {e.chunk : e \in ToSet(leaf[s].area)} = ChunkSet(leaf[s].area)
    <3> DEFINE area == leaf[s].area
    <3>1. ToSet(area) = {area[k] : k \in 1 .. Len(area)}
      BY <1>3 DEF ToSet
    <3> HIDE DEF area
    <3>2. {e.chunk : e \in ToSet(area)} = {area[k].chunk : k \in 1 .. Len(area)}
      BY <3>1
    <3> QED
      BY <3>2 DEF ChunkSet, area
  <2>2. UNION {{e.chunk : e \in ToSet(leaf[s].area)} : s \in DOMAIN leaf}
          = UNION {ChunkSet(leaf[s].area) : s \in DOMAIN leaf}
    BY <2>1
  <2>3. \A c : c \in UNION {ChunkSet(leaf[s].area) : s \in DOMAIN leaf}
                <=> \E s \in DOMAIN leaf : c \in ChunkSet(leaf[s].area)
    OBVIOUS
  <2>4. \A c : c \in used <=> c \in UNION {ChunkSet(leaf[s].area) : s \in DOMAIN leaf}
    BY <1>2, <2>3
  <2>5. used = UNION {ChunkSet(leaf[s].area) : s \in DOMAIN leaf}
    BY <2>4
  <2> QED
    BY <2>2, <2>5
<1> QED
  BY <1>12, <1>13, <1>14 DEF ExceptionsAccounted

-----------------------------------------------------------------------------
(* The inductive invariant. *)

\* The tree is sound, with the walk in it; the leaves fit and the marked chunks
\* are theirs; snapmask is a set of bits. BlocksAccounted alone is not kept by a
\* step: it says nothing while a deletion is under way, and what that merges
\* depends on where it is.
IInv ==
    /\ Sound(DOMAIN leaf, node, root, levels, walk)
    /\ Fitting(leaf, used)
    /\ snapmask \in SUBSET Bit

\* The tree is sound when it is made.
LEMMA StartsSound == Init => IInv
<1> SUFFICES ASSUME Init
             PROVE  IInv
  OBVIOUS
<1> DEFINE s == Min(Sectors)
           r == Min(Sectors \ {s})
           e == [key |-> 0, sector |-> s]
           leafs == {s}
           lv == [b \in {s, r} |-> IF b = r THEN 1 ELSE 2]
<1>1. s \in Sectors /\ r \in Sectors /\ r # s
  <2>1. s \in Sectors /\ Sectors \ {s} \in SUBSET Sectors /\ Cardinality(Sectors \ {s}) >= 1
    <3>1. Cardinality(Sectors) >= 1 + 1 /\ 1 \in Nat /\ Sectors \in SUBSET Sectors
      BY TreeAssumption
    <3> QED
      BY <3>1, FreshBlock
  <2> DEFINE T == Sectors \ {s}
  <2>2. T \in SUBSET Sectors /\ Cardinality(T) >= 0 + 1 /\ 0 \in Nat
    BY <2>1
  <2> HIDE DEF T
  <2>3. Min(T) \in T
    BY <2>2, FreshBlock
  <2> QED
    BY <2>1, <2>3 DEF T
<1>2. /\ leaf = [x \in {s} |-> EmptyLeaf] /\ node = [x \in {r} |-> <<e>>]
      /\ root = r /\ levels = 1 /\ snapmask = {} /\ used = {} /\ walk = Idle
  BY DEF Init
<1> HIDE DEF s, r
<1>3. DOMAIN leaf = {s} /\ DOMAIN node = {r} /\ leaf[s] = EmptyLeaf /\ node[r] = <<e>>
  BY <1>2
<1>4. e \in Entry /\ e.sector = s
  BY <1>1 DEF Entry
<1>5. node[r] \in Seq(Entry) /\ Len(node[r]) = 1 /\ node[r][1].sector = s
  BY <1>3, <1>4
<1>6. Fitting(leaf, used)
  BY <1>2, <1>3, FirstLeaf DEF Fitting
<1>7. Sized(node) /\ FullBut(node, NIL)
  <2>1. \A t \in DOMAIN node : Len(node[t]) = 1
    BY <1>3, <1>5
  <2>2. 1 <= AllocPerNode /\ 1 >= 1
    BY TreeAssumption
  <2> QED
    BY <2>1, <2>2 DEF Sized, FullBut
<1>8. lv[r] = 1 /\ lv[s] = 2 /\ lv \in [{s, r} -> 1 .. 1 + 1]
  BY <1>1
<1>9. node \in [{r} -> Seq(Entry)]
  BY <1>2, <1>3, <1>5
<1> HIDE DEF lv, e
<1>10. Blocks({s}, node) = {s, r}
  BY <1>3 DEF Blocks
<1>11. Levelled({s}, node, {r}, 1, lv)
  <2>1. \A b \in {s, r} : b \in {s} <=> lv[b] = 1 + 1
    BY <1>1, <1>8
  <2>2. {s} \in SUBSET Sectors /\ {r} \in SUBSET Sectors /\ {s} \intersect {r} = {} /\ 1 \in Nat \ {0}
        /\ {r} \in SUBSET {s, r}
    BY <1>1
  <2>3. node \in [DOMAIN node -> Seq(Entry)]
    BY <1>3, <1>9
  <2> QED
    BY <1>3, <1>8, <1>10, <2>1, <2>2, <2>3 DEF Levelled
<1>12. Hanging({s}, node, {r}, lv)
  <2>1. s \in {s, r} \ {r} /\ lv[s] = lv[r] + 1
    BY <1>1, <1>8
  <2>2. \A t \in DOMAIN node : t = r /\ \A i \in 1 .. Len(node[t]) : node[t][i].sector = s
    BY <1>3, <1>5
  <2> QED
    BY <1>10, <2>1, <2>2 DEF Hanging
<1>13. Once(node)
  BY <1>3, <1>5 DEF Once
<1>14. \A b \in Blocks({s}, node) \ {r} : InEntry(node, b)
  <2>1. InEntry(node, s)
    BY <1>3, <1>5 DEF InEntry
  <2> QED
    BY <1>10, <2>1
<1>15. Rooted({s}, node, r, 1, lv)
  BY <1>3, <1>8, <1>11, <1>12, <1>13, <1>14 DEF Rooted, Forest
<1>16. Walking(walk, {s}, node, r, 1, lv)
  BY <1>2, <1>7 DEF Walking
<1>17. Sound(DOMAIN leaf, node, root, levels, walk)
  BY <1>2, <1>3, <1>7, <1>15, <1>16 DEF Sound
<1> QED
  BY <1>2, <1>6, <1>17 DEF IInv

\* What the walk is tells at which of its places it is.
LEMMA WalkIs ==
    ASSUME NEW w, NEW leafs, NEW index, NEW top, NEW depth, NEW lv,
           Walking(w, leafs, index, top, depth, lv)
    PROVE  /\ w = Idle => FullBut(index, NIL)
           /\ w.at = "leaf" => IsWalk(w) /\ AtLeaf(w, leafs, index, top, depth, lv)
           /\ w.at = "pop" => IsWalk(w) /\ AtNodeEnd(w, leafs, index, top, depth, lv)
           /\ w.at = "push" => IsWalk(w) /\ AtNode(w, leafs, index, top, depth, lv)
           /\ w.at = "shrink" => IsWalk(w) /\ AtTop(w, index, top, depth)
<1>1. Idle.at = "idle"
  BY DEF Idle
<1>2. CASE w = Idle /\ FullBut(index, NIL)
  BY <1>1, <1>2
<1>3. CASE IsWalk(w) /\ AtLeaf(w, leafs, index, top, depth, lv)
  <2>1. w.at = "leaf"
    BY <1>3 DEF AtLeaf
  <2> QED
    BY <1>1, <1>3, <2>1
<1>4. CASE IsWalk(w) /\ AtNodeEnd(w, leafs, index, top, depth, lv)
  <2>1. w.at = "pop"
    BY <1>4 DEF AtNodeEnd
  <2> QED
    BY <1>1, <1>4, <2>1
<1>5. CASE IsWalk(w) /\ AtNode(w, leafs, index, top, depth, lv)
  <2>1. w.at = "push"
    BY <1>5 DEF AtNode
  <2> QED
    BY <1>1, <1>5, <2>1
<1>6. CASE IsWalk(w) /\ AtTop(w, index, top, depth)
  <2>1. w.at = "shrink"
    BY <1>6 DEF AtTop
  <2> QED
    BY <1>1, <1>6, <2>1
<1> QED
  BY <1>2, <1>3, <1>4, <1>5, <1>6 DEF Walking

-----------------------------------------------------------------------------
(* The walk steps of a deletion keep the invariant. *)

\* A deletion begins at the first leaf.
LEMMA StartKeeps ==
    ASSUME IInv, NEW bits, StartDelete(bits)
    PROVE  IInv'
<1>1. /\ walk = Idle /\ leaf' = leaf /\ node' = node /\ root' = root /\ levels' = levels
      /\ snapmask' = snapmask /\ used' = used
      /\ walk' = WalkOf("leaf", bits, levels, Probe(0), [l \in 1 .. levels |-> NIL], NIL, LeafOf(0))
  BY DEF StartDelete, WalkOf
<1>2. PICK lv : /\ Rooted(DOMAIN leaf, node, root, levels, lv)
                /\ Walking(walk, DOMAIN leaf, node, root, levels, lv)
  BY DEF IInv, Sound
<1>3. FullBut(node, NIL) /\ Sized(node) /\ Fitting(leaf, used) /\ snapmask \in SUBSET Bit
  BY <1>1, <1>2, WalkIs DEF IInv, Sound
<1>4. Tree(lv)
  BY <1>2 DEF Rooted, Tree
<1>5. /\ levels \in Nat \ {0}
      /\ \A s \in DOMAIN node : Len(node[s]) \in Nat \ {0} /\ node[s] # <<>> /\ s # NIL
  <2>1. levels \in Nat \ {0} /\ \A s \in DOMAIN node : node[s] \in Seq(Entry) /\ Len(node[s]) \in Nat
    BY <1>4, TreeTypes
  <2>2. \A s \in DOMAIN node : s # NIL
    BY <1>2, TreeAssumption DEF Rooted, Forest, Levelled, NIL
  <2>3. \A s \in DOMAIN node : Len(node[s]) >= 1
    BY <1>3, <2>2 DEF FullBut
  <2> QED
    BY <2>1, <2>2, <2>3
<1> DEFINE path == Probe(0)
           hold == [l \in 1 .. levels |-> NIL]
           this == LeafOf(0)
           w == walk'
<1>6. /\ path \in [1 .. levels -> [sector : Sectors, next : Nat]]
      /\ path[1].sector = root
      /\ \A l \in 1 .. levels :
            LET step == path[l]
                below == IF l = levels THEN this ELSE path[l + 1].sector
            IN  /\ step.sector \in Level(lv, l)
                /\ step.next \in 2 .. Len(node[step.sector]) + 1
                /\ node[step.sector][step.next - 1].sector = below
  BY <1>4, <1>5, ProbeIs
<1> HIDE DEF path, this
<1>7. ASSUME NEW k \in 1 .. levels
      PROVE  /\ OnLevel(node, lv, path[k].sector, k)
             /\ path[k].next \in 2 .. Len(node[path[k].sector]) + 1
             /\ path[k].next - 1 \in 1 .. Len(node[path[k].sector])
             /\ path[k].sector # NIL
             /\ node[path[k].sector][path[k].next - 1].sector = IF k = levels THEN this ELSE path[k + 1].sector
  <2>1. /\ path[k].sector \in Level(lv, k)
        /\ path[k].next \in 2 .. Len(node[path[k].sector]) + 1
        /\ node[path[k].sector][path[k].next - 1].sector = IF k = levels THEN this ELSE path[k + 1].sector
    BY <1>6
  <2>2. path[k].sector \in DOMAIN node /\ lv[path[k].sector] = k
    BY <2>1 DEF Level
  <2>3. Len(node[path[k].sector]) \in Nat /\ path[k].sector # NIL
    BY <1>5, <2>2
  <2> QED
    BY <2>1, <2>2, <2>3 DEF OnLevel
<1>8. hold \in [1 .. levels -> Sectors \union {NIL}] /\ \A k \in 1 .. levels : hold[k] = NIL
  OBVIOUS
<1> HIDE DEF hold
<1>9. 1 \in 1 .. levels /\ levels \in 1 .. levels /\ \A k \in 1 .. levels - 1 : k \in 1 .. levels /\ k + 1 \in 1 .. levels /\ k # levels
  BY <1>5
<1> DEFINE d == path[levels].next - 2
           s == path[levels].sector
<1>10. Between(path, levels, hold, NIL, d, DOMAIN leaf, node, root, levels, lv)
  <2>1. d \in 0 .. Len(node[s])
    <3>1. path[levels].next \in 2 .. Len(node[s]) + 1 /\ Len(node[s]) \in Nat
      BY <1>5, <1>7, <1>9 DEF OnLevel
    <3> QED
      BY <3>1
  <2>2. \A k \in 1 .. levels : OnLevel(node, lv, path[k].sector, k) /\ hold[k] # path[k].sector
    BY <1>7, <1>8
  <2>3. \A k \in 1 .. levels - 1 : Leads(node, path[k].sector, path[k].next - 1, path[k + 1].sector)
    BY <1>7, <1>9 DEF Leads
  <2>4. \A k \in 1 .. levels : LastBelow(hold, NIL, levels, k) = NIL
    <3>1. \A k \in 1 .. levels : k # levels => k + 1 \in 1 .. levels
      BY <1>5
    <3> QED
      BY <1>8, <3>1 DEF LastBelow
  <2>5. LastDone(path, hold, node, levels, d, LastBelow(hold, NIL, levels, levels))
    BY <1>9, <2>4 DEF LastDone
  <2>6. \A k \in 1 .. levels - 1 :
           LastDone(path, hold, node, k, path[k].next - 2, LastBelow(hold, NIL, levels, k))
    BY <1>9, <2>4 DEF LastDone
  <2>7. \A k \in 1 .. levels : hold[k] # NIL => OnLevel(node, lv, hold[k], k)
    BY <1>8
  <2>8. \A k \in levels + 1 .. levels : FALSE
    BY <1>5
  <2> HIDE DEF d
  <2> QED
    BY <1>6, <1>8, <1>9, <2>1, <2>2, <2>3, <2>5, <2>6, <2>7, <2>8 DEF Between
<1>11. /\ IsWalk(w) /\ w.at = "leaf" /\ w.level = levels /\ w.path = path
       /\ w.hold = hold /\ w.prev = NIL /\ w.this = this
  <2>1. w = WalkOf("leaf", bits, levels, path, hold, NIL, this)
    BY <1>1 DEF path, hold, this
  <2> HIDE DEF w
  <2> QED
    BY <2>1, WalkFields
<1> HIDE DEF w
<1>12. AtLeaf(w, DOMAIN leaf, node, root, levels, lv)
  <2>1. this = node[s][path[levels].next - 1].sector /\ path[levels].next \in 2 .. Len(node[s]) + 1
    BY <1>7, <1>9
  <2> QED
    BY <1>3, <1>10, <1>11, <2>1 DEF AtLeaf
<1>13. Walking(w, DOMAIN leaf, node, root, levels, lv)
  BY <1>11, <1>12 DEF Walking
<1>14. Sound(DOMAIN leaf, node, root, levels, w)
  BY <1>2, <1>3, <1>13 DEF Sound
<1>15. Sound(DOMAIN leaf', node', root', levels', walk')
  BY <1>1, <1>14 DEF w
<1> QED
  BY <1>1, <1>3, <1>15 DEF IInv

\* A node is done.
LEMMA PopKeeps ==
    ASSUME IInv, PopNode
    PROVE  IInv'
<1> DEFINE w == walk
           l == w.level
           this == w.path[l].sector
           prev == w.hold[l]
<1>1. /\ walk.at = "pop" /\ leaf' = leaf /\ root' = root /\ levels' = levels
      /\ snapmask' = snapmask /\ used' = used
  BY DEF PopNode
<1>2. PICK lv : /\ Rooted(DOMAIN leaf, node, root, levels, lv)
                /\ Walking(walk, DOMAIN leaf, node, root, levels, lv)
  BY DEF IInv, Sound
<1>3. /\ IsWalk(w) /\ AtNodeEnd(w, DOMAIN leaf, node, root, levels, lv) /\ w.at = "pop"
      /\ Sized(node) /\ Fitting(leaf, used) /\ snapmask \in SUBSET Bit
      /\ Forest(DOMAIN leaf, node, {root}, levels, lv) /\ root \in DOMAIN node /\ lv[root] = 1
  BY <1>1, <1>2, WalkIs DEF IInv, Sound, Rooted
<1>4. CASE ~Merges(node, this, prev)
  <2>1. node' = node /\ walk' = KeptAbove(w, node, this)
    BY <1>4 DEF PopNode, KeptAbove, Merges, Upward
  <2> DEFINE x == walk'
             D == DOMAIN leaf
  <2>2. x = KeptAbove(w, node, this)
    BY <2>1
  <2>3. this = w.path[w.level].sector /\ ~Merges(node, this, w.hold[w.level])
    BY <1>4
  <2>7. Forest(D, node, {root}, levels, lv) /\ AtNodeEnd(w, D, node, root, levels, lv)
    BY <1>3
  <2> HIDE DEF x, w, this, D
  <2>4. /\ IsWalk(x)
        /\ \/ AtNode(x, D, node, root, levels, lv)
           \/ AtNodeEnd(x, D, node, root, levels, lv)
           \/ AtTop(x, node, root, levels)
    BY <1>3, <2>2, <2>3, <2>7, NodeKept
  <2>5. Walking(x, D, node, root, levels, lv)
    BY <2>4 DEF Walking
  <2>6. Sound(D, node, root, levels, x)
    BY <1>2, <1>3, <2>5 DEF Sound, D
  <2> QED
    BY <1>1, <1>3, <2>1, <2>6 DEF IInv, x, D
<1>5. CASE Merges(node, this, prev)
  <2>1. /\ node' = MergedIndex(w, node, this, prev)
        /\ l # 1 => walk' = MergedAbove(w, node')
    BY <1>5 DEF PopNode, MergedIndex, MergedAbove, Merges, Upward
  <2> DEFINE D == DOMAIN leaf
             index == node'
             y == MergedAbove(w, index)
  <2>2. /\ this = w.path[w.level].sector /\ prev = w.hold[w.level] /\ Merges(node, this, prev)
        /\ index = MergedIndex(w, node, this, prev) /\ y = MergedAbove(w, index)
        /\ Forest(D, node, {root}, levels, lv) /\ AtNodeEnd(w, D, node, root, levels, lv)
        /\ (w.level # 1 => walk' = y)
    BY <1>3, <1>5, <2>1
  <2> HIDE DEF w, this, prev, D, index, y
  <2>3. w.level # 1 /\ Sound(D, index, root, levels, y)
    BY <1>3, <2>2, NodeMerged
  <2>6. walk' = y
    BY <2>2, <2>3
  <2> QED
    BY <1>1, <1>3, <2>3, <2>6 DEF IInv, D, index
<1> QED
  BY <1>4, <1>5

\* One level back down.
LEMMA PushKeeps ==
    ASSUME IInv, PushNode
    PROVE  IInv'
<1> DEFINE w == walk
           D == DOMAIN leaf
           x == walk'
<1>1. /\ walk.at = "push" /\ leaf' = leaf /\ node' = node /\ root' = root /\ levels' = levels
      /\ snapmask' = snapmask /\ used' = used
      /\ x = Pushed(w, node, levels)
  BY DEF PushNode, Pushed, Lower
<1>2. PICK lv : Rooted(D, node, root, levels, lv) /\ Walking(walk, D, node, root, levels, lv)
  BY DEF IInv, Sound
<1>3. /\ IsWalk(w) /\ AtNode(w, D, node, root, levels, lv)
      /\ Sized(node) /\ Fitting(leaf, used) /\ snapmask \in SUBSET Bit
      /\ Forest(D, node, {root}, levels, lv)
  BY <1>1, <1>2, WalkIs DEF IInv, Sound, Rooted
<1> HIDE DEF w, D, x
<1>4. /\ IsWalk(x)
      /\ \/ AtLeaf(x, D, node, root, levels, lv)
         \/ AtNodeEnd(x, D, node, root, levels, lv)
         \/ AtNode(x, D, node, root, levels, lv)
  BY <1>1, <1>3, WalkPushed
<1>5. Sound(D, node, root, levels, x)
  BY <1>2, <1>3, <1>4 DEF Sound, Walking
<1> QED
  BY <1>1, <1>3, <1>5 DEF IInv, D, x

\* The root goes.
LEMMA DropKeeps ==
    ASSUME IInv, DropLevel
    PROVE  IInv'
<1> DEFINE w == walk
           D == DOMAIN leaf
           x == walk'
           index == node'
           root2 == root'
           less == levels'
<1>2. PICK lv : Rooted(D, node, root, levels, lv) /\ Walking(walk, D, node, root, levels, lv)
  BY DEF IInv, Sound
<1>1. /\ walk.at = "shrink" /\ leaf' = leaf /\ snapmask' = snapmask /\ used' = used
      /\ levels > 1 /\ Len(node[w.hold[1]]) = 1 /\ root2 = w.hold[2]
      /\ index = Without(node, w.hold[1]) /\ less = levels - 1 /\ x = HoldTail(w)
  BY DEF DropLevel, HoldTail
<1>3. /\ IsWalk(w) /\ AtTop(w, node, root, levels)
      /\ Sized(node) /\ Fitting(leaf, used) /\ snapmask \in SUBSET Bit
      /\ Forest(D, node, {root}, levels, lv) /\ root \in DOMAIN node /\ lv[root] = 1
  BY <1>1, <1>2, WalkIs DEF IInv, Sound, Rooted
<1>4. w.hold[1] = root
  BY <1>3 DEF AtTop
<1>5. Len(node[root]) = 1 /\ index = Without(node, root)
  BY <1>1, <1>4
<1> HIDE DEF w, D, x, index, root2, less
<1>8. Sound(D, index, root2, less, x)
  BY <1>1, <1>3, <1>5, RootDropped
<1> QED
  BY <1>1, <1>3, <1>8 DEF IInv, D, x, index, root2, less

\* The deletion ends.
LEMMA FinishKeeps ==
    ASSUME IInv, FinishDelete
    PROVE  IInv'
<1> DEFINE D == DOMAIN leaf
<1>1. /\ walk.at = "shrink" /\ leaf' = leaf /\ node' = node /\ root' = root /\ levels' = levels
      /\ snapmask' = snapmask \ walk.bits /\ used' = used /\ walk' = Idle
  BY DEF FinishDelete
<1>2. PICK lv : Rooted(D, node, root, levels, lv) /\ Walking(walk, D, node, root, levels, lv)
  BY DEF IInv, Sound
<1>3. AtTop(walk, node, root, levels) /\ Sized(node) /\ Fitting(leaf, used) /\ snapmask \in SUBSET Bit
  BY <1>1, <1>2, WalkIs DEF IInv, Sound
<1> HIDE DEF D
<1>4. FullBut(node, NIL)
  BY <1>3 DEF AtTop
<1>5. Sound(D, node, root, levels, Idle)
  BY <1>2, <1>3, <1>4 DEF Sound, Walking
<1> QED
  BY <1>1, <1>3, <1>5 DEF IInv, D

\* A snapshot is made, or nothing the tree sees happens.
LEMMA CreateKeeps ==
    ASSUME IInv, (\E b \in Bit : CreateSnapshot(b)) \/ UNCHANGED vars
    PROVE  IInv'
<1>1. /\ leaf' = leaf /\ node' = node /\ root' = root /\ levels' = levels /\ used' = used
      /\ walk' = walk /\ (snapmask' = snapmask \/ \E b \in Bit : snapmask' = snapmask \union {b})
  BY DEF CreateSnapshot, vars
<1>2. snapmask' \in SUBSET Bit
  BY <1>1 DEF IInv
<1> QED
  BY <1>1, <1>2 DEF IInv

-----------------------------------------------------------------------------
(* The leaves of a deletion. *)

\* The leaves with x in the place of s.
With(lf, s, x) == [lf EXCEPT ![s] = x]

\* A leaf is cleared: what DeleteLeaf does to the leaves when it merges nothing.
LEMMA LeavesCleared ==
    ASSUME NEW lf, NEW marked, Fitting(lf, marked), NEW s, s \in DOMAIN lf, NEW bits,
           NEW x, x = DeleteFromLeaf(lf[s], bits),
           NEW lf2, lf2 = With(lf, s, x),
           NEW marked2, marked2 = marked \ Dropped(lf[s], bits)
    PROVE  Shaped(x) /\ Redone(lf, lf2, s, x) /\ Fitting(lf2, marked2)
<1> DEFINE l == lf[s]
           gone == Dropped(l, bits)
<1>1. Shaped(l) /\ Distinct(l.area)
  BY DEF Fitting
<1>2. DOMAIN lf2 = DOMAIN lf /\ lf2[s] = x /\ \A t \in DOMAIN lf : t # s => lf2[t] = lf[t]
  BY DEF With
<1>3. Redone(lf, lf2, s, x)
  BY <1>2 DEF Redone
<1>4. gone = Leaving(l.area, bits) /\ x = DeleteFromLeaf(l, bits)
  <2> HIDE DEF l
  <2>1. Dropped(l, bits) = Leaving(l.area, bits)
    BY <1>1, DroppedIs
  <2> QED
    BY <2>1 DEF l
<1>5. l.area \in Seq(Exception)
  BY <1>1 DEF Shaped
<1>6. gone \in SUBSET ChunkSet(l.area)
  BY <1>4, <1>5 DEF Leaving, ChunkSet
<1>7. Shaped(x) /\ Distinct(x.area) /\ ChunkSet(x.area) = ChunkSet(l.area) \ gone
  <2> HIDE DEF l
  <2> QED
    BY <1>1, <1>4, LeafCleared
<1>8. marked2 = marked \ gone
  OBVIOUS
<1>9. gone \in SUBSET ChunkSet(lf[s].area) /\ ChunkSet(x.area) = ChunkSet(lf[s].area) \ gone
  BY <1>6, <1>7
<1> HIDE DEF gone, l
<1>10. Fitting(lf2, marked2)
  BY <1>3, <1>7, <1>8, <1>9, FittingCleared
<1> QED
  BY <1>3, <1>7, <1>10

\* Two leaves are one.
LEMMA LeavesMerged ==
    ASSUME NEW lf, NEW marked, Fitting(lf, marked), NEW s, s \in DOMAIN lf,
           NEW p, p \in DOMAIN lf, p # s, NEW x, x = MergeLeaves(lf[p], lf[s]),
           NEW lf2, DOMAIN lf2 = DOMAIN lf \ {s}, lf2[p] = x,
           \A t \in DOMAIN lf : t # s /\ t # p => lf2[t] = lf[t]
    PROVE  Fitting(lf2, marked)
<1>1. Shaped(lf[p]) /\ Shaped(lf[s])
  BY DEF Fitting
<1> DEFINE a == lf[p]
           b == lf[s]
<1>2. Shaped(a) /\ Shaped(b) /\ x = MergeLeaves(a, b)
  BY <1>1
<1>3. Shaped(x) /\ BothOf(x.area, a.area, b.area)
  <2> HIDE DEF a, b
  <2> QED
    BY <1>2, LeavesJoined
<1>4. BothOf(x.area, lf[p].area, lf[s].area)
  BY <1>3
<1> QED
  BY <1>3, <1>4, FittingMerged

\* A leaf is done.
LEMMA DeleteKeeps ==
    ASSUME IInv, DeleteLeaf
    PROVE  IInv'
<1> DEFINE w == walk
           s == w.this
           D == DOMAIN leaf
           this == DeleteFromLeaf(leaf[s], w.bits)
           marked == used'
           cleared == [leaf EXCEPT ![s] = this]
           merge == w.prev # NIL /\ CanMerge(leaf[w.prev], this)
<1>1. /\ walk.at = "leaf" /\ root' = root /\ levels' = levels /\ snapmask' = snapmask
      /\ marked = used \ Dropped(leaf[s], w.bits)
  BY DEF DeleteLeaf
<1>2. PICK lv : Rooted(D, node, root, levels, lv) /\ Walking(walk, D, node, root, levels, lv)
  BY DEF IInv, Sound
<1>3. /\ IsWalk(w) /\ AtLeaf(w, D, node, root, levels, lv)
      /\ Sized(node) /\ Fitting(leaf, used) /\ snapmask \in SUBSET Bit
      /\ Forest(D, node, {root}, levels, lv) /\ root \in DOMAIN node /\ lv[root] = 1
  BY <1>1, <1>2, WalkIs DEF IInv, Sound, Rooted
<1>4. s \in D
  <2> HIDE DEF D, w
  <2> QED
    BY <1>3, LeafHere
<1>5. Redone(leaf, cleared, s, this) /\ Fitting(cleared, marked)
  <2> DEFINE bits == w.bits
  <2>1. this = DeleteFromLeaf(leaf[s], bits) /\ marked = used \ Dropped(leaf[s], bits)
        /\ cleared = With(leaf, s, this) /\ s \in DOMAIN leaf
    BY <1>1, <1>4 DEF With
  <2> HIDE DEF this, marked, cleared, s, bits
  <2> QED
    BY <1>3, <2>1, LeavesCleared
<1>6. CASE ~merge
  <2> DEFINE next == [w EXCEPT !.prev = s]
             x == walk'
  <2>1. node' = node /\ leaf' = cleared /\ x = Onward(next, node)
    BY <1>6 DEF DeleteLeaf, Onward
  <2>2. next = [w EXCEPT !.prev = w.this]
    OBVIOUS
  <2>3. Sound(D, node, root, levels, x)
    <3> HIDE DEF next, x, w, D, s
    <3>1. /\ IsWalk(x)
          /\ AtLeaf(x, D, node, root, levels, lv) \/ AtNodeEnd(x, D, node, root, levels, lv)
      BY <1>3, <2>1, <2>2, LeafKept
    <3> QED
      BY <1>2, <1>3, <3>1 DEF Sound, Walking
  <2>4. DOMAIN leaf' = D
    BY <2>1
  <2> HIDE DEF cleared, marked, D
  <2> QED
    BY <1>1, <1>3, <1>5, <2>1, <2>3, <2>4 DEF IInv, x, marked
<1>7. CASE merge
  <2> DEFINE next == [w EXCEPT !.path[w.level].next = @ - 1]
             x == walk'
             p == w.prev
             index == RemoveIndex(node, w.path, w.level)
             less == D \ {s}
  <2>1. /\ node' = index /\ x = Onward(next, index) /\ p # NIL
        /\ leaf' = [Without(leaf, s) EXCEPT ![p] = MergeLeaves(@, this)]
    BY <1>7 DEF DeleteLeaf, Onward
  <2>2. p \in less /\ Sound(less, index, root, levels, x)
    <3>1. /\ less = D \ {w.this} /\ index = RemoveIndex(node, w.path, w.level)
          /\ next = [w EXCEPT !.path[w.level].next = @ - 1] /\ x = Onward(next, index)
          /\ w.prev # NIL
      BY <2>1
    <3> HIDE DEF next, x, w, D, s, index, less
    <3> QED
      BY <1>3, <3>1, LeafMerged DEF p
  <2>3. p \in DOMAIN leaf /\ p # s
    BY <2>2
  <2>4. DOMAIN leaf' = less /\ leaf'[p] = MergeLeaves(leaf[p], this)
        /\ \A t \in DOMAIN leaf : t # s /\ t # p => leaf'[t] = leaf[t]
    <3> HIDE DEF this, w
    <3> QED
      BY <2>1, <2>3 DEF Without, Restrict
  <2>5. /\ cleared[p] = leaf[p] /\ cleared[s] = this /\ DOMAIN cleared = D
        /\ \A t \in DOMAIN leaf : t # s => cleared[t] = leaf[t]
    <3> HIDE DEF this, cleared
    <3> QED
      BY <1>5, <2>3 DEF Redone
  <2> DEFINE lf == cleared
             lf2 == leaf'
             y == MergeLeaves(cleared[p], cleared[s])
  <2>6. /\ s \in DOMAIN lf /\ p \in DOMAIN lf /\ p # s /\ y = MergeLeaves(lf[p], lf[s])
        /\ DOMAIN lf2 = DOMAIN lf \ {s} /\ lf2[p] = y
        /\ \A t \in DOMAIN lf : t # s /\ t # p => lf2[t] = lf[t]
        /\ Fitting(lf, marked)
    <3> HIDE DEF this, cleared, marked, s, p
    <3> QED
      BY <1>4, <1>5, <2>3, <2>4, <2>5
  <2>7. Fitting(lf2, marked)
    <3> HIDE DEF lf, lf2, y, marked, s, p
    <3> QED
      BY <2>6, LeavesMerged
  <2>8. Sound(DOMAIN leaf', node', root', levels', walk')
    BY <1>1, <2>1, <2>2, <2>4
  <2> QED
    BY <1>1, <1>3, <2>7, <2>8 DEF IInv
<1> QED
  BY <1>6, <1>7

-----------------------------------------------------------------------------
(* The index of an insertion. *)

\* No index node is empty or too long.
Filling(index) == \A s \in DOMAIN index : Len(index[s]) \in 1 .. AllocPerNode

\* A tree whose nodes are so is sound when nothing walks in it.
LEMMA SoundAtRest ==
    ASSUME NEW leafs, NEW index, NEW top, NEW depth, NEW lv,
           Rooted(leafs, index, top, depth, lv), Filling(index)
    PROVE  Sound(leafs, index, top, depth, Idle)
<1>1. Sized(index) /\ FullBut(index, NIL)
  BY TreeAssumption DEF Filling, Sized, FullBut
<1> QED
  BY <1>1 DEF Sound, Walking

\* When nothing walks in a sound tree, it is one whose nodes are so.
LEMMA RestIsSound ==
    ASSUME NEW leafs, NEW index, NEW top, NEW depth,
           Sound(leafs, index, top, depth, Idle)
    PROVE  Filling(index) /\ \E lv : Rooted(leafs, index, top, depth, lv)
<1>1. PICK lv : Rooted(leafs, index, top, depth, lv) /\ Walking(Idle, leafs, index, top, depth, lv)
  BY DEF Sound
<1> DEFINE w == Idle
<1>2. Sized(index) /\ FullBut(index, NIL)
  <2>1. Walking(w, leafs, index, top, depth, lv) /\ w = Idle /\ Sized(index)
    BY <1>1 DEF Sound
  <2> HIDE DEF w
  <2> QED
    BY <2>1, WalkIs
<1>3. \A s \in DOMAIN index : Len(index[s]) \in Nat /\ s # NIL
  <2>1. /\ index \in [DOMAIN index -> Seq(Entry)] /\ DOMAIN index \in SUBSET Sectors
    BY <1>1 DEF Rooted, Forest, Levelled
  <2>2. \A s \in DOMAIN index : index[s] \in Seq(Entry) /\ s # NIL
    BY <2>1, TreeAssumption DEF NIL
  <2> QED
    BY <2>2
<1>4. Filling(index)
  BY <1>2, <1>3, TreeAssumption DEF Filling, Sized, FullBut
<1> QED
  BY <1>1, <1>4

\* What the new leaf beside a full one does to the index: the climb ends with
\* the new child under a node, or with one for a new root.
LEMMA IndexClimbed ==
    ASSUME NEW lv, Tree(lv), Filling(node), Cardinality(Fresh) >= levels + 2,
           NEW c, NEW key, key \in Int, NEW n, n = Min(Fresh),
           NEW t, t = Climbed(Probe(c), key, n, Fresh \ {n}),
           NEW leafs, leafs = DOMAIN leaf \union {n}
    PROVE  n \in Fresh /\ \E lw : Climbing(t, 1, leafs, root, levels, lw)
<1> DEFINE D == DOMAIN leaf
           path == Probe(c)
           rest == Fresh \ {n}
           start == [node |-> node, key |-> key, child |-> n, fresh |-> rest]
           all == D \union DOMAIN node
<1>1. /\ levels \in Nat \ {0} /\ \A s \in DOMAIN node : Len(node[s]) \in Nat /\ node[s] # <<>>
      /\ Forest(D, node, {root}, levels, lv) /\ lv[root] = 1 /\ root \in DOMAIN node
  <2>1. levels \in Nat \ {0} /\ \A s \in DOMAIN node : node[s] \in Seq(Entry) /\ Len(node[s]) \in Nat
    BY TreeTypes
  <2>2. \A s \in DOMAIN node : Len(node[s]) # 0
    BY DEF Filling
  <2> QED
    BY <2>1, <2>2 DEF Tree
<1>2. /\ n \in Fresh /\ n \in Sectors /\ n # NIL /\ rest \in SUBSET Sectors
      /\ Cardinality(rest) >= levels + 1
  <2> DEFINE S == Fresh
             l == levels + 1
  <2>1. S \in SUBSET Sectors /\ l \in Nat /\ Cardinality(S) >= l + 1
    <3>1. Cardinality(S) >= levels + 2 /\ levels + 2 = l + 1
      BY <1>1
    <3> QED
      BY <1>1, <3>1 DEF Fresh
  <2>2. n = Min(S) /\ rest = S \ {Min(S)}
    OBVIOUS
  <2> HIDE DEF S, l, rest
  <2>3. n \in S /\ rest \in SUBSET Sectors /\ Cardinality(rest) >= l
    BY <2>1, <2>2, FreshBlock
  <2> QED
    BY <2>1, <2>3, TreeAssumption DEF S, l, NIL
<1>3. n \notin all /\ all = Blocks(D, node)
  BY <1>2 DEF Fresh, Blocks
<1> DEFINE lw == [b \in all \union {n} |-> IF b = n THEN levels + 1 ELSE lv[b]]
<1>4. Forest(leafs, node, {root} \union {n}, levels, lw) /\ lw[n] = levels + 1
        /\ lw[root] = 1 /\ n # root /\ \A b \in all : lw[b] = lv[b]
  <2>1. lv \in [all -> 1 .. levels + 1] /\ root \in all
    BY <1>1, <1>3 DEF Forest, Levelled
  <2>2. /\ lw \in [all \union {n} -> 1 .. levels + 1] /\ lw[n] = levels + 1
        /\ \A b \in all : lw[b] = lv[b]
    BY <1>1, <1>3, <2>1
  <2> HIDE DEF lw, D, all
  <2>3. Forest(D \union {n}, node, {root} \union {n}, levels, lw)
    BY <1>1, <1>2, <1>3, <2>2, LeafAdded
  <2> QED
    BY <1>1, <1>3, <2>1, <2>2, <2>3 DEF D
<1>5. /\ path \in [1 .. levels -> [sector : Sectors, next : Nat]] /\ Len(path) = levels
      /\ \A k \in 1 .. levels : path[k].sector \in Level(lv, k)
                                /\ path[k].next \in 2 .. Len(node[path[k].sector]) + 1
  <2>1. /\ path \in [1 .. levels -> [sector : Sectors, next : Nat]]
        /\ \A k \in 1 .. levels : path[k].sector \in Level(lv, k)
                                  /\ path[k].next \in 2 .. Len(node[path[k].sector]) + 1
    BY <1>1, ProbeIs
  <2> HIDE DEF path
  <2>2. path \in Seq([sector : Sectors, next : Nat]) /\ Len(path) = levels
    BY <1>1, <2>1, FunctionIsList
  <2> QED
    BY <2>1, <2>2
<1>6. /\ start = [node |-> start.node, key |-> start.key, child |-> start.child, fresh |-> start.fresh]
      /\ start.node = node /\ start.key = key /\ start.child = n /\ start.fresh = rest
  OBVIOUS
<1>7. rest \intersect Blocks(leafs, node) = {}
  BY DEF Fresh, Blocks
<1> HIDE DEF path, start, lw, rest, all
<1>8. Climbing(start, levels + 1, leafs, root, levels, lw)
  <2>1. Waiting(start) = {n}
    BY <1>2, <1>6 DEF Waiting
  <2>2. \A s \in DOMAIN start.node : Len(start.node[s]) \in 1 .. AllocPerNode
    BY <1>6 DEF Filling
  <2> QED
    BY <1>1, <1>2, <1>4, <1>6, <1>7, <2>1, <2>2 DEF Climbing
<1>9. Ahead(start, path, levels + 1, lw)
  <2>1. \A k \in 1 .. (levels + 1) - 1 : k \in 1 .. levels
    BY <1>1
  <2>2. \A k \in 1 .. levels : path[k].sector \in DOMAIN node /\ lw[path[k].sector] = k
    BY <1>4, <1>5 DEF Level, all
  <2> QED
    BY <1>5, <1>6, <2>1, <2>2 DEF Ahead
<1>10. PICK from : Climbs(from, path, start)
  <2>1. Len(path) \in Nat
    BY <1>1, <1>5
  <2> QED
    BY <2>1, ClimbExists
<1> DEFINE up == CHOOSE f : Climbs(f, path, start)
<1>11. Climbs(up, path, start) /\ t = up[1]
  <2>1. Climbs(up, path, start)
    BY <1>10
  <2>2. t = (CHOOSE f : Climbs(f, path, [node |-> node, key |-> key, child |-> n,
                                            fresh |-> rest]))[1]
    BY ClimbedIs DEF path, rest
  <2> QED
    BY <2>1, <2>2 DEF start
<1> HIDE DEF up
<1>12. \E lx : Climbing(up[1], 1, leafs, root, levels, lx)
  BY <1>1, <1>5, <1>8, <1>9, <1>11, ClimbedKeeps
<1> QED
  BY <1>2, <1>11, <1>12

\* The index behind the climb.
LEMMA IndexGrown ==
    ASSUME NEW t, NEW leafs, NEW lw, Climbing(t, 1, leafs, root, levels, lw)
    PROVE  /\ t.child = NIL => Sound(leafs, t.node, root, levels, Idle)
           /\ t.child # NIL => Sound(leafs, NewRoot(t), Min(t.fresh), levels + 1, Idle)
<1>1. ASSUME t.child = NIL
      PROVE  Sound(leafs, t.node, root, levels, Idle)
  <2>1. {root} \union Waiting(t) = {root}
    BY <1>1 DEF Waiting
  <2>2. Rooted(leafs, t.node, root, levels, lw) /\ Filling(t.node)
    BY <2>1 DEF Climbing, Rooted, Filling
  <2> QED
    BY <2>2, SoundAtRest
<1>2. ASSUME t.child # NIL
      PROVE  Sound(leafs, NewRoot(t), Min(t.fresh), levels + 1, Idle)
  <2> DEFINE index == NewRoot(t)
             top == Min(t.fresh)
             depth == levels + 1
  <2>1. PICK lx : Forest(leafs, index, {top}, depth, lx) /\ lx[top] = 1
    BY <1>2, RootGrown
  <2>2. Filling(index)
    BY <1>2, RootGrownFits DEF Filling
  <2>3. top \in DOMAIN index
    BY DEF NewRoot
  <2> HIDE DEF index, top, depth
  <2>4. Rooted(leafs, index, top, depth, lx)
    BY <2>1, <2>3 DEF Rooted
  <2>5. Sound(leafs, index, top, depth, Idle)
    BY <2>2, <2>4, SoundAtRest
  <2> QED
    BY <2>5 DEF index, top, depth
<1> QED
  BY <1>1, <1>2

-----------------------------------------------------------------------------
(* The leaves of an insertion. *)

\* A leaf has an exception more.
LEMMA LeavesGrown ==
    ASSUME NEW lf, NEW marked, Fitting(lf, marked), NEW s, s \in DOMAIN lf,
           NEW new, new \in StoreChunks, new \notin marked, NEW c, c \in Nat,
           NEW b, b \in Bit \union {ORIGIN}, NEW active, active \in SUBSET Bit,
           NEW x, x = AddExceptionToLeaf(lf[s], c, new, b, active),
           NEW lf2, lf2 = With(lf, s, x), NEW marked2, marked2 = marked \union {new}
    PROVE  DOMAIN lf2 = DOMAIN lf /\ Fitting(lf2, marked2)
<1> DEFINE l == lf[s]
<1>1. Shaped(l) /\ x = AddExceptionToLeaf(l, c, new, b, active)
  BY DEF Fitting
<1>2. Shaped(x) /\ OneMore(l.area, x.area, new)
  <2> HIDE DEF l
  <2> QED
    BY <1>1, LeafGrows
<1>3. Redone(lf, lf2, s, x)
  BY DEF With, Redone
<1>4. OneMore(lf[s].area, x.area, new)
  BY <1>2
<1> HIDE DEF l
<1>5. Fitting(lf2, marked2)
  BY <1>2, <1>3, <1>4, FittingGrows
<1> QED
  BY <1>3, <1>5 DEF Redone

\* The leaves with s split and the upper half in n.
SplitAt(lf, s, n) ==
    [l \in DOMAIN lf \union {n} |->
        IF l = s THEN Head1(lf[s]) ELSE IF l = n THEN Tail1(lf[s]) ELSE lf[l]]

\* The leaves fit when one of them is split.
LEMMA LeavesSplit ==
    ASSUME NEW lf, NEW marked, Fitting(lf, marked), NEW s, s \in DOMAIN lf,
           NEW n, n \notin DOMAIN lf, NEW lf2, lf2 = SplitAt(lf, s, n)
    PROVE  DOMAIN lf2 = DOMAIN lf \union {n} /\ Fitting(lf2, marked)
<1> DEFINE l == lf[s]
           x == Head1(l)
           y == Tail1(l)
<1>1. /\ DOMAIN lf2 = DOMAIN lf \union {n} /\ lf2[s] = x /\ lf2[n] = y
      /\ \A t \in DOMAIN lf : t # s => lf2[t] = lf[t]
  <2> HIDE DEF x, y
  <2>1. lf2 = [k \in DOMAIN lf \union {n} |-> IF k = s THEN x ELSE IF k = n THEN y ELSE lf[k]]
    BY DEF SplitAt, x, y
  <2> QED
    BY <2>1
<1>2. Shaped(l)
  BY DEF Fitting
<1>3. Shaped(x) /\ Shaped(y) /\ CutIn(l.area, x.area, y.area)
  <2>1. x = Head1(l) /\ y = Tail1(l)
    OBVIOUS
  <2> HIDE DEF l, x, y
  <2> QED
    BY <1>2, <2>1, LeafHalves
<1>4. CutIn(lf[s].area, x.area, y.area)
  BY <1>3
<1> HIDE DEF l, x, y
<1>5. Fitting(lf2, marked)
  BY <1>1, <1>3, <1>4, FittingCut
<1> QED
  BY <1>1, <1>5

\* A chunk gets an exception.
LEMMA MakeKeeps ==
    ASSUME IInv, NEW c \in Chunks, NEW b \in Bit \union {ORIGIN}, MakeUnique(c, b)
    PROVE  IInv'
<1> DEFINE D == DOMAIN leaf
           s == LeafOf(c)
           new == Min(Pool[c] \ used)
           marked == used'
           key == SplitPoint(leaf[s])
           n == Min(Fresh)
           t == Climbed(Probe(c), key, n, Fresh \ {n})
<1>1. /\ walk = Idle /\ walk' = Idle /\ snapmask' = snapmask /\ marked = used \union {new}
      /\ Pool[c] \ used # {} /\ Cardinality(Fresh) >= levels + 2
      /\ AddToLeaf(s, c, b, new) \/ SplitAndAdd(s, c, b, new)
  BY DEF MakeUnique
<1>2. Filling(node) /\ Fitting(leaf, used) /\ snapmask \in SUBSET Bit /\ Sound(D, node, root, levels, Idle)
        /\ \E lv : Rooted(D, node, root, levels, lv)
  BY <1>1, RestIsSound DEF IInv
<1>3. PICK lv : Tree(lv)
  BY <1>2 DEF Rooted, Tree
<1>4. s \in D /\ levels \in Nat
  <2>1. levels \in Nat /\ \A x \in DOMAIN node : node[x] \in Seq(Entry)
    BY <1>3, TreeTypes
  <2>2. \A x \in DOMAIN node : node[x] # <<>>
    BY <1>2 DEF Filling
  <2> QED
    BY <1>3, <2>1, <2>2, BelowOnLevel
<1>5. c \in Nat /\ new \in StoreChunks /\ new \notin used
  <2> DEFINE S == Pool[c] \ used
  <2>1. c \in Nat /\ S \in SUBSET StoreChunks /\ S \in SUBSET Nat /\ S # {}
    BY <1>1, LeafAssumption, TreeAssumption
  <2>2. new = Min(S) /\ S \intersect used = {}
    OBVIOUS
  <2> HIDE DEF S, new
  <2>3. new \in S
    BY <2>1, <2>2, LeastNat DEF Min
  <2> QED
    BY <2>1, <2>2, <2>3
<1>6. CASE AddToLeaf(s, c, b, new)
  <2> DEFINE x == AddExceptionToLeaf(leaf[s], c, new, b, snapmask)
             lf2 == leaf'
  <2>1. lf2 = With(leaf, s, x) /\ node' = node /\ root' = root /\ levels' = levels
    BY <1>6 DEF AddToLeaf, With
  <2>2. /\ x = AddExceptionToLeaf(leaf[s], c, new, b, snapmask)
        /\ Fitting(leaf, used) /\ s \in DOMAIN leaf /\ snapmask \in SUBSET Bit
        /\ marked = used \union {new}
    BY <1>1, <1>2, <1>4
  <2>3. DOMAIN lf2 = D /\ Fitting(lf2, marked)
    <3> HIDE DEF lf2, x, new, s, marked
    <3> QED
      BY <1>5, <2>1, <2>2, LeavesGrown
  <2>4. Sound(DOMAIN leaf', node', root', levels', walk')
    BY <1>1, <1>2, <2>1, <2>3
  <2> QED
    BY <1>1, <1>2, <2>3, <2>4 DEF IInv
<1>7. CASE SplitAndAdd(s, c, b, new)
  <2> DEFINE lf2 == leaf'
             cut == SplitAt(leaf, s, n)
             leafs == D \union {n}
  <2>1. key \in Int
    <3> DEFINE l == leaf[s]
    <3>1. Shaped(l)
      BY <1>2, <1>4 DEF Fitting
    <3> HIDE DEF l
    <3>2. SplitPoint(l) \in Int
      BY <3>1, SplitPointIs
    <3> QED
      BY <3>2 DEF l
  <2>2. n \in Fresh /\ \E lw : Climbing(t, 1, leafs, root, levels, lw)
    <3>1. /\ key \in Int /\ n = Min(Fresh) /\ t = Climbed(Probe(c), key, n, Fresh \ {n})
          /\ leafs = DOMAIN leaf \union {n}
      BY <2>1
    <3> HIDE DEF key, n, t, leafs
    <3> QED
      BY <1>1, <1>2, <1>3, <3>1, IndexClimbed
  <2>3. Sound(leafs, node', root', levels', Idle)
    <3>1. /\ t.child = NIL => node' = t.node /\ root' = root /\ levels' = levels
          /\ t.child # NIL => node' = NewRoot(t) /\ root' = Min(t.fresh) /\ levels' = levels + 1
      BY <1>7 DEF SplitAndAdd
    <3> HIDE DEF t, leafs
    <3>2. /\ t.child = NIL => Sound(leafs, t.node, root, levels, Idle)
          /\ t.child # NIL => Sound(leafs, NewRoot(t), Min(t.fresh), levels + 1, Idle)
      BY <2>2, IndexGrown
    <3> QED
      BY <3>1, <3>2
  <2>4. n \notin D
    BY <2>2 DEF Fresh
  <2>5. DOMAIN cut = leafs /\ Fitting(cut, used)
    <3>1. cut = SplitAt(leaf, s, n)
      OBVIOUS
    <3> HIDE DEF cut, n, s
    <3> QED
      BY <1>2, <1>4, <2>4, <3>1, LeavesSplit
  <2> DEFINE to == IF c < key THEN s ELSE n
             x == AddExceptionToLeaf(cut[to], c, new, b, snapmask)
  <2>6. to \in leafs
    BY <1>4
  <2>7. lf2 = With(cut, to, x)
    <3> DEFINE grown(l) == AddExceptionToLeaf(l, c, new, b, snapmask)
               low == Head1(leaf[s])
               high == Tail1(leaf[s])
    <3>1. lf2 = [l \in leafs |-> IF l = s THEN IF c < key THEN grown(low) ELSE low
                                 ELSE IF l = n THEN IF c >= key THEN grown(high) ELSE high
                                 ELSE leaf[l]]
      BY <1>7 DEF SplitAndAdd
    <3>2. cut = [l \in leafs |-> IF l = s THEN low ELSE IF l = n THEN high ELSE leaf[l]]
      BY DEF SplitAt
    <3>3. (c >= key) = ~(c < key)
      BY <1>5, <2>1
    <3>4. s # n /\ s \in leafs /\ n \in leafs
      BY <1>4, <2>4
    <3> HIDE DEF low, high, cut, lf2, leafs, key, n, s, D
    <3>5. CASE c < key
      <4>1. to = s /\ x = grown(low)
        BY <3>2, <3>4, <3>5
      <4> HIDE DEF x, to, grown
      <4> QED
        BY <3>1, <3>2, <3>3, <3>4, <3>5, <4>1 DEF With
    <3>6. CASE ~(c < key)
      <4>1. to = n /\ x = grown(high)
        BY <3>2, <3>4, <3>6
      <4> HIDE DEF x, to, grown
      <4> QED
        BY <3>1, <3>2, <3>3, <3>4, <3>6, <4>1 DEF With
    <3> QED
      BY <3>5, <3>6
  <2>8. DOMAIN lf2 = leafs /\ Fitting(lf2, marked)
    <3>1. x = AddExceptionToLeaf(cut[to], c, new, b, snapmask) /\ to \in DOMAIN cut
      BY <2>5, <2>6
    <3> HIDE DEF lf2, x, new, to, cut, marked, leafs
    <3> QED
      BY <1>1, <1>2, <1>5, <2>5, <2>7, <3>1, LeavesGrown
  <2>9. Sound(DOMAIN leaf', node', root', levels', walk')
    BY <1>1, <2>3, <2>8
  <2> QED
    BY <1>1, <1>2, <2>8, <2>9 DEF IInv
<1> QED
  BY <1>1, <1>6, <1>7

-----------------------------------------------------------------------------
(* The theorems. *)

\* Every step keeps the invariant.
LEMMA NextKeeps == IInv /\ [Next]_vars => IInv'
<1> SUFFICES ASSUME IInv, [Next]_vars
             PROVE  IInv'
  OBVIOUS
<1>1. CASE \E b \in Bit : CreateSnapshot(b)
  BY <1>1, CreateKeeps
<1>2. CASE UNCHANGED vars
  BY <1>2, CreateKeeps
<1>3. ASSUME NEW c \in Chunks, NEW b \in Bit \union {ORIGIN}, MakeUnique(c, b)
      PROVE  IInv'
  BY <1>3, MakeKeeps
<1>4. ASSUME NEW bits \in SUBSET Bit, StartDelete(bits)
      PROVE  IInv'
  BY <1>4, StartKeeps
<1>5. CASE DeleteLeaf
  BY <1>5, DeleteKeeps
<1>6. CASE PopNode
  BY <1>6, PopKeeps
<1>7. CASE PushNode
  BY <1>7, PushKeeps
<1>8. CASE DropLevel
  BY <1>8, DropKeeps
<1>9. CASE FinishDelete
  BY <1>9, FinishKeeps
<1> QED
  BY <1>1, <1>2, <1>3, <1>4, <1>5, <1>6, <1>7, <1>8, <1>9 DEF Next, Walk

\* The invariant holds in every state: the index is a tree, a deletion is at
\* a place of it, and the leaves and the bitmap fit.
THEOREM TreeKeepsShape == Spec => []IInv
<1>1. Init => IInv
  BY StartsSound
<1>2. IInv /\ [Next]_vars => IInv'
  BY NextKeeps
<1> QED
  BY <1>1, <1>2, PTL DEF Spec

\* Outside a deletion every block of the metadata is in the tree, and in one
\* place of it: no split of add_exception_to_tree and no merge of
\* delete_tree_range loses a block or links one twice.
THEOREM BlocksAlwaysAccounted == Spec => []BlocksAccounted
<1>1. IInv => BlocksAccounted
  BY TreeAccounted DEF IInv, Sound, Rooted, Tree
<1> QED
  BY <1>1, TreeKeepsShape, PTL

\* The chunks marked in the bitmap are those of the exceptions in the leaves,
\* each of one: nothing is leaked, freed twice or freed while in use, and no
\* split, merge or squeeze of a leaf loses an exception.
THEOREM ExceptionsAlwaysAccounted == Spec => []ExceptionsAccounted
<1>1. ASSUME IInv
      PROVE  ExceptionsAccounted
  <2>1. PICK lv : Tree(lv)
    BY <1>1 DEF IInv, Sound, Rooted, Tree
  <2>2. IsFiniteSet(DOMAIN leaf) /\ Fitting(leaf, used)
    BY <1>1, <2>1, TreeTypes DEF IInv
  <2> QED
    BY <2>2, ChunksAccounted
<1>2. IInv => ExceptionsAccounted
  BY <1>1
<1> QED
  BY <1>2, TreeKeepsShape, PTL
==============================================================================
