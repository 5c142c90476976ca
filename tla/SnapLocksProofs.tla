--------------------------- MODULE SnapLocksProofs ---------------------------
(***************************************************************************)
(* Proofs about the read locks, for any number of readers, write requests, *)
(* chunks and buckets: the chains are sound, holds match reads, waits are  *)
(* counted, and a granted write meets no read of the origin, but by a       *)
(* client of a snapshot created, and used without a flush, in the meantime. *)
(***************************************************************************)
EXTENDS SnapLocks, SequenceTheorems, FiniteSetTheorems, TLAPS

-----------------------------------------------------------------------------
(* Lists. *)

\* Removing position i shifts the later entries down by one: the memmove of
\* delete_snap.
LEMMA RemoveAtProperties ==
    ASSUME NEW S, NEW s \in Seq(S), NEW i \in DOMAIN s
    PROVE  /\ RemoveAt(s, i) \in Seq(S)
           /\ Len(RemoveAt(s, i)) = Len(s) - 1
           /\ \A j \in 1 .. Len(s) - 1 :
                RemoveAt(s, i)[j] = IF j < i THEN s[j] ELSE s[j + 1]
<1> DEFINE front == SubSeq(s, 1, i - 1)
           back  == SubSeq(s, i + 1, Len(s))
<1>1. i \in 1 .. Len(s) /\ Len(s) \in Nat
  OBVIOUS
<1>2. /\ front \in Seq(S)
      /\ Len(front) = i - 1
      /\ \A j \in 1 .. i - 1 : front[j] = s[j]
  BY <1>1, SubSeqProperties
<1>3. /\ back \in Seq(S)
      /\ Len(back) = Len(s) - i
      /\ \A j \in 1 .. Len(s) - i : back[j] = s[i + j]
  BY <1>1, SubSeqProperties
<1>4. RemoveAt(s, i) = front \o back
  BY DEF RemoveAt
<1> HIDE DEF front, back
<1> DEFINE both == front \o back
<1>5. both \in Seq(S) /\ Len(both) = Len(s) - 1
  <2>1. Len(both) = Len(front) + Len(back)
    BY <1>2, <1>3, ConcatProperties
  <2>2. both \in Seq(S)
    BY <1>2, <1>3, ConcatProperties
  <2> HIDE DEF both
  <2> QED
    BY <1>1, <1>2, <1>3, <2>1, <2>2
<1>6. \A j \in 1 .. Len(front) + Len(back) :
        both[j] = IF j <= Len(front) THEN front[j] ELSE back[j - Len(front)]
  BY <1>2, <1>3, ConcatProperties
<1>7. ASSUME NEW j \in 1 .. Len(s) - 1
      PROVE  both[j] = IF j < i THEN s[j] ELSE s[j + 1]
  <2> HIDE DEF both
  <2>1. CASE j < i
    <3>1. j \in 1 .. i - 1 /\ j <= Len(front) /\ j \in 1 .. Len(front) + Len(back)
      BY <1>1, <1>2, <1>3, <2>1
    <3>2. both[j] = front[j]
      BY <1>6, <3>1
    <3> QED
      BY <1>2, <2>1, <3>1, <3>2
  <2>2. CASE ~(j < i)
    <3>1. j - (i - 1) \in 1 .. Len(s) - i
      BY <1>1, <2>2
    <3>2. back[j - (i - 1)] = s[i + (j - (i - 1))]
      BY <1>3, <3>1
    <3>3. i + (j - (i - 1)) = j + 1
      BY <1>1
    <3>4. j \in 1 .. Len(front) + Len(back) /\ ~(j <= Len(front))
      BY <1>1, <1>2, <1>3, <2>2
    <3>5. both[j] = back[j - Len(front)]
      BY <1>6, <3>4
    <3> QED
      BY <1>2, <2>2, <3>2, <3>3, <3>5
  <2> QED
    BY <2>1, <2>2
<1> QED
  BY <1>4, <1>5, <1>7

\* The positions of the shortened list are those of the old one but the removed
\* one, renumbered.
LEMMA RemoveAtPositions ==
    ASSUME NEW S, NEW s \in Seq(S), NEW i \in DOMAIN s
    PROVE  \E old \in [DOMAIN RemoveAt(s, i) -> DOMAIN s \ {i}] :
              /\ \A j \in DOMAIN RemoveAt(s, i) : RemoveAt(s, i)[j] = s[old[j]]
              /\ \A j, k \in DOMAIN RemoveAt(s, i) : j # k => old[j] # old[k]
              /\ \A m \in DOMAIN s \ {i} :
                    \E j \in DOMAIN RemoveAt(s, i) : old[j] = m
<1> DEFINE r == RemoveAt(s, i)
           old == [j \in DOMAIN r |-> IF j < i THEN j ELSE j + 1]
<1>1. /\ r \in Seq(S)
      /\ Len(r) = Len(s) - 1
      /\ \A j \in 1 .. Len(s) - 1 : r[j] = IF j < i THEN s[j] ELSE s[j + 1]
  BY RemoveAtProperties
<1>2. DOMAIN r = 1 .. Len(s) - 1 /\ DOMAIN s = 1 .. Len(s) /\ Len(s) \in Nat
  BY <1>1
<1> HIDE DEF r
<1>3. old \in [DOMAIN r -> DOMAIN s \ {i}]
  BY <1>2
<1>4. \A j \in DOMAIN r : r[j] = s[old[j]]
  BY <1>1, <1>2
<1>5. \A j, k \in DOMAIN r : j # k => old[j] # old[k]
  BY <1>2
<1>6. ASSUME NEW m \in DOMAIN s \ {i}
      PROVE  \E j \in DOMAIN r : old[j] = m
  <2>1. CASE m < i
    <3>1. m \in DOMAIN r /\ old[m] = m
      BY <1>2, <2>1
    <3> QED
      BY <3>1
  <2>2. CASE m > i
    <3>1. m - 1 \in DOMAIN r /\ old[m - 1] = m
      BY <1>2, <2>2
    <3> QED
      BY <3>1
  <2> QED
    BY <1>2, <2>1, <2>2
<1> HIDE DEF old
<1>7. \E f \in [DOMAIN r -> DOMAIN s \ {i}] :
          /\ \A j \in DOMAIN r : r[j] = s[f[j]]
          /\ \A j, k \in DOMAIN r : j # k => f[j] # f[k]
          /\ \A m \in DOMAIN s \ {i} : \E j \in DOMAIN r : f[j] = m
  BY <1>3, <1>4, <1>5, <1>6
<1> QED
  BY <1>7 DEF r

-----------------------------------------------------------------------------
(* The chains. *)

\* A chain of bucket b: no two locks of a chunk, all of them held.
ChainOK(chain, b) ==
    /\ chain \in Seq(Lock)
    /\ \A i \in DOMAIN chain : BucketOf[chain[i].chunk] = b /\ chain[i].holds # Unheld
    /\ \A i, j \in DOMAIN chain : chain[i].chunk = chain[j].chunk => i = j

\* Every bucket has such a chain.
ChainInv ==
    /\ DOMAIN locks = Buckets /\ locks = [b \in Buckets |-> locks[b]]
    /\ \A b \in Buckets : ChainOK(locks[b], b)

Elements(chain) == {chain[i] : i \in DOMAIN chain}

-----------------------------------------------------------------------------
(* Chains. *)

\* A lock of a chunk that has none goes to the head of the chain.
LEMMA ChainCons ==
    ASSUME NEW b, NEW chain, ChainOK(chain, b), NEW k \in Lock,
           BucketOf[k.chunk] = b, k.holds # Unheld,
           \A i \in DOMAIN chain : chain[i].chunk # k.chunk
    PROVE  /\ ChainOK(<<k>> \o chain, b)
           /\ Elements(<<k>> \o chain) = Elements(chain) \union {k}
<1> DEFINE new == <<k>> \o chain
<1>1. chain \in Seq(Lock) /\ Len(chain) \in Nat /\ DOMAIN chain = 1 .. Len(chain)
  BY DEF ChainOK
<1>2. /\ new \in Seq(Lock)
      /\ Len(new) = Len(chain) + 1
      /\ DOMAIN new = 1 .. Len(chain) + 1
      /\ \A i \in 1 .. Len(chain) + 1 : new[i] = IF i = 1 THEN k ELSE chain[i - 1]
  <2> HIDE DEF Lock
  <2>1. <<k>> \in Seq(Lock) /\ Len(<<k>>) = 1 /\ <<k>>[1] = k
    OBVIOUS
  <2>2. /\ new \in Seq(Lock)
        /\ Len(new) = 1 + Len(chain)
        /\ \A i \in 1 .. 1 + Len(chain) : new[i] = IF i <= 1 THEN <<k>>[i] ELSE chain[i - 1]
    BY <1>1, <2>1, ConcatProperties
  <2> HIDE DEF new
  <2> QED
    BY <1>1, <2>1, <2>2
<1> HIDE DEF new
<1>3. ChainOK(new, b)
  <2>1. ASSUME NEW i \in DOMAIN new
        PROVE  BucketOf[new[i].chunk] = b /\ new[i].holds # Unheld
    <3>1. new[i] = k \/ \E j \in DOMAIN chain : new[i] = chain[j]
      BY <1>1, <1>2
    <3> QED
      BY <3>1 DEF ChainOK
  <2>2. ASSUME NEW i \in DOMAIN new, NEW j \in DOMAIN new, new[i].chunk = new[j].chunk
        PROVE  i = j
    <3>1. i \in Int /\ j \in Int
      BY <1>1, <1>2
    <3>2. CASE i = 1 \/ j = 1
      BY <1>1, <1>2, <2>2, <3>2
    <3>3. CASE i # 1 /\ j # 1
      <4>1. /\ i - 1 \in DOMAIN chain /\ j - 1 \in DOMAIN chain
            /\ chain[i - 1].chunk = chain[j - 1].chunk
        BY <1>1, <1>2, <2>2, <3>3
      <4>2. i - 1 = j - 1
        BY <4>1 DEF ChainOK
      <4> QED
        BY <3>1, <4>2
    <3> QED
      BY <3>2, <3>3
  <2> QED
    BY <1>2, <2>1, <2>2 DEF ChainOK
<1>4. Elements(new) = Elements(chain) \union {k}
  <2>1. \A i \in DOMAIN chain : i + 1 \in DOMAIN new /\ new[i + 1] = chain[i]
    BY <1>1, <1>2
  <2>2. 1 \in DOMAIN new /\ new[1] = k
    BY <1>1, <1>2
  <2>3. \A i \in DOMAIN new : new[i] = k \/ \E j \in DOMAIN chain : new[i] = chain[j]
    BY <1>1, <1>2
  <2> QED
    BY <2>1, <2>2, <2>3 DEF Elements
<1> QED
  BY <1>3, <1>4 DEF new

\* A lock is replaced by one of the same chunk.
LEMMA ChainReplace ==
    ASSUME NEW b, NEW chain, ChainOK(chain, b), NEW i \in DOMAIN chain, NEW k \in Lock,
           k.chunk = chain[i].chunk, k.holds # Unheld,
           NEW new \in Seq(Lock), DOMAIN new = DOMAIN chain,
           \A j \in DOMAIN chain : new[j] = IF j = i THEN k ELSE chain[j]
    PROVE  /\ ChainOK(new, b)
           /\ Elements(new) = (Elements(chain) \ {chain[i]}) \union {k}
<1>1. chain \in Seq(Lock) /\ Len(chain) \in Nat /\ DOMAIN chain = 1 .. Len(chain)
  BY DEF ChainOK
<1>3. ChainOK(new, b)
  BY DEF ChainOK
<1>4. \A j \in DOMAIN chain : j # i => chain[j] # chain[i]
  BY DEF ChainOK
<1>5. Elements(new) = (Elements(chain) \ {chain[i]}) \union {k}
  BY <1>4 DEF Elements
<1> QED
  BY <1>3, <1>5

\* A lock leaves the chain.
LEMMA ChainRemove ==
    ASSUME NEW b, NEW chain, ChainOK(chain, b), NEW i \in DOMAIN chain
    PROVE  /\ ChainOK(RemoveAt(chain, i), b)
           /\ Elements(RemoveAt(chain, i)) = Elements(chain) \ {chain[i]}
<1> DEFINE r == RemoveAt(chain, i)
           all == DOMAIN chain \ {i}
<1>0. chain \in Seq(Lock)
  BY DEF ChainOK
<1>1. PICK old \in [DOMAIN r -> all] :
         /\ \A j \in DOMAIN r : r[j] = chain[old[j]]
         /\ \A j, k \in DOMAIN r : j # k => old[j] # old[k]
         /\ \A m \in all : \E j \in DOMAIN r : old[j] = m
  BY <1>0, RemoveAtPositions
<1>2. r \in Seq(Lock)
  BY <1>0, RemoveAtProperties
<1> HIDE DEF r
<1>3. ChainOK(r, b)
  BY <1>1, <1>2 DEF ChainOK
<1>4. \A j \in all : chain[j] # chain[i]
  BY DEF ChainOK
<1>5. Elements(r) = {chain[m] : m \in all}
  BY <1>1 DEF Elements
<1>6. {chain[m] : m \in all} = Elements(chain) \ {chain[i]}
  BY <1>4 DEF Elements
<1> QED
  BY <1>3, <1>5, <1>6 DEF r

\* The chain is cut.
LEMMA ChainCut ==
    ASSUME NEW b, NEW chain, ChainOK(chain, b), NEW i \in DOMAIN chain
    PROVE  /\ ChainOK(SubSeq(chain, 1, i - 1), b)
           /\ Elements(SubSeq(chain, 1, i - 1)) \subseteq Elements(chain) \ {chain[i]}
<1> DEFINE r == SubSeq(chain, 1, i - 1)
<1>1. chain \in Seq(Lock) /\ Len(chain) \in Nat /\ DOMAIN chain = 1 .. Len(chain)
  BY DEF ChainOK
<1>2. /\ r \in Seq(Lock)
      /\ DOMAIN r = 1 .. i - 1
      /\ \A j \in 1 .. i - 1 : r[j] = chain[j]
  <2> HIDE DEF Lock
  <2>1. \A j \in 1 .. i - 1 : chain[j] \in Lock
    BY <1>1
  <2>2. /\ r \in Seq(Lock)
        /\ Len(r) = IF 1 <= i - 1 THEN i - 1 - 1 + 1 ELSE 0
        /\ \A j \in 1 .. i - 1 - 1 + 1 : r[j] = chain[1 + j - 1]
    BY <1>1, <2>1, SubSeqProperties
  <2> HIDE DEF r
  <2> QED
    BY <1>1, <2>2
<1> HIDE DEF r
<1>3. ChainOK(r, b)
  BY <1>1, <1>2 DEF ChainOK
<1>4. \A j \in DOMAIN r : j \in DOMAIN chain /\ chain[j] # chain[i]
  BY <1>1, <1>2 DEF ChainOK
<1>5. Elements(r) \subseteq Elements(chain) \ {chain[i]}
  BY <1>2, <1>4 DEF Elements
<1> QED
  BY <1>3, <1>5 DEF r

-----------------------------------------------------------------------------
(* All locks. *)

\* The locks of a chain in its place are the locks of its bucket.
LEMMA LocksOfChain ==
    ASSUME ChainInv
    PROVE  /\ \A k \in AllLocks : /\ k \in Lock
                                  /\ k.holds # Unheld
                                  /\ BucketOf[k.chunk] \in Buckets
                                  /\ k \in Elements(locks[BucketOf[k.chunk]])
           /\ \A b \in Buckets : \A k \in Elements(locks[b]) :
                k \in AllLocks /\ BucketOf[k.chunk] = b
<1>1. ASSUME NEW b \in Buckets, NEW i \in DOMAIN locks[b]
      PROVE  /\ locks[b][i] \in Lock /\ locks[b][i].holds # Unheld
             /\ BucketOf[locks[b][i].chunk] = b
  <2>1. ChainOK(locks[b], b)
    BY DEF ChainInv
  <2>2. locks[b] \in Seq(Lock)
    BY <2>1 DEF ChainOK
  <2>3. locks[b][i] \in Lock
    <3> HIDE DEF Lock
    <3> QED
      BY <2>2
  <2> QED
    BY <2>1, <2>3 DEF ChainOK
<1> QED
  BY <1>1 DEF AllLocks, Elements

\* No chunk has two locks.
LEMMA OneLockPerChunk ==
    ASSUME ChainInv, NEW k \in AllLocks, NEW l \in AllLocks, k.chunk = l.chunk
    PROVE  k = l
<1> DEFINE b == BucketOf[k.chunk]
<1>1. b \in Buckets /\ k \in Elements(locks[b]) /\ l \in Elements(locks[b])
  BY LocksOfChain
<1>2. ChainOK(locks[b], b)
  BY <1>1 DEF ChainInv
<1> HIDE DEF b
<1> QED
  BY <1>1, <1>2 DEF ChainOK, Elements

\* A chunk is locked when some lock is of it.
LEMMA LockedIs ==
    ASSUME ChainInv, NEW c \in Chunks
    PROVE  Locked(c) <=> \E k \in AllLocks : k.chunk = c
<1>1. BucketOf[c] \in Buckets
  BY DEF Buckets
<1>2. Locked(c) <=> \E k \in Elements(locks[BucketOf[c]]) : k.chunk = c
  BY DEF Locked, Elements
<1> QED
  BY <1>1, <1>2, LocksOfChain

\* No chain changes.
LEMMA LocksKept ==
    ASSUME ChainInv, locks' = locks
    PROVE  ChainInv' /\ AllLocks' = AllLocks
<1>1. DOMAIN locks' = Buckets /\ locks' = [b \in Buckets |-> locks'[b]]
  BY DEF ChainInv
<1>2. \A b \in Buckets : ChainOK(locks'[b], b)
  BY DEF ChainInv
<1>3. ChainInv'
  BY <1>1, <1>2 DEF ChainInv, ChainOK
<1>4. AllLocks' = UNION {Elements(locks'[b]) : b \in Buckets}
  BY DEF AllLocks, Elements
<1>5. AllLocks = UNION {Elements(locks[b]) : b \in Buckets}
  BY DEF AllLocks, Elements
<1> QED
  BY <1>3, <1>4, <1>5

\* One chain changes.
LEMMA OneChain ==
    ASSUME ChainInv, NEW b0 \in Buckets, NEW new, ChainOK(new, b0),
           locks' = [locks EXCEPT ![b0] = new]
    PROVE  /\ ChainInv'
           /\ AllLocks' = (AllLocks \ Elements(locks[b0])) \union Elements(new)
<1>1. \A b \in Buckets : locks'[b] = IF b = b0 THEN new ELSE locks[b]
  BY DEF ChainInv
<1>2. ChainInv'
  <2>1. DOMAIN locks' = Buckets /\ locks' = [b \in Buckets |-> locks'[b]]
    BY DEF ChainInv
  <2>2. \A b \in Buckets : ChainOK(locks'[b], b)
    BY <1>1 DEF ChainInv
  <2> QED
    BY <2>1, <2>2 DEF ChainInv, ChainOK
<1>3. AllLocks' = UNION {Elements(locks'[b]) : b \in Buckets}
  BY DEF AllLocks, Elements
<1>4. AllLocks = UNION {Elements(locks[b]) : b \in Buckets}
  BY DEF AllLocks, Elements
<1>5. \A b \in Buckets : \A k \in Elements(locks[b]) : k \in Elements(locks[b0]) <=> b = b0
  BY LocksOfChain
<1>6. \A k : k \in AllLocks' <=> \E b \in Buckets : k \in Elements(locks'[b])
  BY <1>3
<1>7. \A k : k \in AllLocks <=> \E b \in Buckets : k \in Elements(locks[b])
  BY <1>4
<1> QED
  BY <1>1, <1>2, <1>5, <1>6, <1>7

-----------------------------------------------------------------------------
(* What each operation makes of the set of locks. *)

\* A lock with another number of holds for one reader.
LEMMA HoldChanged ==
    ASSUME NEW k \in Lock, NEW r \in Readers, NEW n \in Nat,
           NEW new, new = [k EXCEPT !.holds[r] = n]
    PROVE  /\ new \in Lock
           /\ new.chunk = k.chunk
           /\ new.waits = k.waits
           /\ \A q \in Readers : new.holds[q] = IF q = r THEN n ELSE k.holds[q]
<1>1. new = [k EXCEPT !.holds = [k.holds EXCEPT ![r] = n]]
  OBVIOUS
<1>2. k.holds \in [Readers -> Nat]
  BY DEF Lock
<1>3. [k.holds EXCEPT ![r] = n] \in [Readers -> Nat]
  BY <1>2
<1>4. new.holds = [k.holds EXCEPT ![r] = n] /\ new.chunk = k.chunk /\ new.waits = k.waits
  BY <1>1 DEF Lock
<1>5. new \in Lock
  BY <1>1, <1>3 DEF Lock
<1> QED
  BY <1>2, <1>4, <1>5

\* A lock that someone holds.
LEMMA HeldIs ==
    ASSUME NEW k \in Lock
    PROVE  k.holds # Unheld <=> \E r \in Readers : k.holds[r] # 0
<1>1. k.holds \in [Readers -> Nat]
  BY DEF Lock
<1> QED
  BY <1>1 DEF Unheld

\* A lock with one more and with one less hold of a reader.
More(k, r) == [k EXCEPT !.holds[r] = @ + 1]
Fewer(k, r) == [k EXCEPT !.holds[r] = @ - 1]

\* One hold more.
LEMMA MoreIs ==
    ASSUME NEW k \in Lock, NEW r \in Readers
    PROVE  /\ More(k, r) \in Lock
           /\ More(k, r).chunk = k.chunk
           /\ More(k, r).waits = k.waits
           /\ \A q \in Readers :
                More(k, r).holds[q] = IF q = r THEN k.holds[r] + 1 ELSE k.holds[q]
<1>1. k.holds[r] + 1 \in Nat
  BY DEF Lock
<1> QED
  BY <1>1, HoldChanged DEF More

\* The lock a reader gets on a chunk nobody holds.
FirstHold(c, r) == [chunk |-> c, holds |-> [Unheld EXCEPT ![r] = 1], waits |-> {}]

\* The first hold on a chunk is a lock.
LEMMA FirstHoldLock ==
    ASSUME NEW c \in Chunks, NEW r \in Readers
    PROVE  /\ FirstHold(c, r) \in Lock
           /\ FirstHold(c, r).chunk = c
           /\ FirstHold(c, r).waits = {}
           /\ \A q \in Readers : FirstHold(c, r).holds[q] = IF q = r THEN 1 ELSE 0
           /\ FirstHold(c, r).holds # Unheld
<1>1. [Unheld EXCEPT ![r] = 1] \in [Readers -> Nat]
  BY DEF Unheld
<1>2. FirstHold(c, r) \in Lock
  BY <1>1 DEF FirstHold, Lock
<1>3. \A q \in Readers : FirstHold(c, r).holds[q] = IF q = r THEN 1 ELSE 0
  BY DEF FirstHold, Unheld
<1>4. FirstHold(c, r).holds # Unheld
  BY <1>2, <1>3, HeldIs
<1> QED
  BY <1>2, <1>3, <1>4 DEF FirstHold

\* readlock_chunk adds a lock or a hold on the lock of the chunk.
LEMMA ReadlockEffect ==
    ASSUME ChainInv, NEW c \in Chunks, NEW r \in Readers,
           locks' = [locks EXCEPT ![BucketOf[c]] = Readlock(c, r)]
    PROVE  /\ ChainInv'
           /\ \/ /\ \A k \in AllLocks : k.chunk # c
                 /\ AllLocks' = AllLocks \union {FirstHold(c, r)}
              \/ \E k \in AllLocks :
                    /\ k.chunk = c
                    /\ AllLocks' = (AllLocks \ {k}) \union {More(k, r)}
<1> DEFINE b == BucketOf[c]
           chain == locks[b]
<1>1. b \in Buckets /\ ChainOK(chain, b)
  BY DEF ChainInv, Buckets
<1>2. \A k : k \in Elements(chain) => k \in AllLocks
  BY <1>1, LocksOfChain
<1>3. CASE Locked(c)
  <2> DEFINE i == CHOOSE i \in DOMAIN chain : chain[i].chunk = c
             k == chain[i]
             new == More(k, r)
  <2>1. i \in DOMAIN chain /\ k.chunk = c
    BY <1>3 DEF Locked
  <2>2. k \in Elements(chain)
    BY <2>1 DEF Elements
  <2>3. k \in AllLocks /\ k \in Lock
    BY <1>2, <2>2, LocksOfChain
  <2>4. Readlock(c, r) = [chain EXCEPT ![i] = new]
    BY <1>3 DEF Readlock, Held, More
  <2> HIDE DEF i
  <2>5. k.holds[r] + 1 \in Nat /\ k.holds[r] + 1 # 0
    BY <2>3 DEF Lock
  <2>6. /\ new \in Lock /\ new.chunk = k.chunk /\ new.holds[r] = k.holds[r] + 1
    BY <2>3, MoreIs
  <2> HIDE DEF k
  <2>7. new.holds # Unheld
    BY <2>5, <2>6, HeldIs
  <2> HIDE DEF chain, new
  <2>8. /\ ChainOK([chain EXCEPT ![i] = new], b)
        /\ Elements([chain EXCEPT ![i] = new]) = (Elements(chain) \ {chain[i]}) \union {new}
    <3> DEFINE seq == [chain EXCEPT ![i] = new]
    <3>1. new.chunk = chain[i].chunk /\ new \in Lock
      BY <2>6 DEF k
    <3>2. chain \in Seq(Lock)
      BY <1>1 DEF ChainOK
    <3>3. /\ seq \in Seq(Lock) /\ DOMAIN seq = DOMAIN chain
          /\ \A j \in DOMAIN chain : seq[j] = IF j = i THEN new ELSE chain[j]
      BY <2>1, <3>1, <3>2, ExceptSeq
    <3> HIDE DEF seq
    <3>4. ChainOK(seq, b) /\ Elements(seq) = (Elements(chain) \ {chain[i]}) \union {new}
      BY <1>1, <2>1, <2>7, <3>1, <3>3, ChainReplace
    <3> QED
      BY <3>4 DEF seq
  <2>9. ChainInv' /\ AllLocks' = (AllLocks \ Elements(chain))
                                    \union ((Elements(chain) \ {k}) \union {new})
    <3>1. locks' = [locks EXCEPT ![b] = [chain EXCEPT ![i] = new]]
      BY <2>4
    <3> QED
      BY <1>1, <2>8, <3>1, OneChain DEF chain, k
  <2>10. AllLocks' = (AllLocks \ {k}) \union {new}
    BY <1>2, <2>2, <2>9
  <2> QED
    BY <2>1, <2>3, <2>9, <2>10 DEF new
<1>4. CASE ~Locked(c)
  <2> DEFINE new == FirstHold(c, r)
  <2>1. Readlock(c, r) = <<new>> \o chain
    BY <1>4 DEF Readlock, FirstHold
  <2>2. \A i \in DOMAIN chain : chain[i].chunk # c
    BY <1>4 DEF Locked
  <2>3. new \in Lock /\ new.chunk = c /\ new.holds # Unheld
    BY FirstHoldLock
  <2> HIDE DEF new, chain
  <2>4. ChainOK(<<new>> \o chain, b) /\ Elements(<<new>> \o chain) = Elements(chain) \union {new}
    BY <1>1, <2>2, <2>3, ChainCons
  <2>5. ChainInv' /\ AllLocks' = (AllLocks \ Elements(chain)) \union (Elements(chain) \union {new})
    <3>1. locks' = [locks EXCEPT ![b] = <<new>> \o chain]
      BY <2>1
    <3> QED
      BY <1>1, <2>4, <3>1, OneChain DEF chain
  <2>6. \A k \in AllLocks : k.chunk # c
    BY <1>4, LockedIs
  <2> QED
    BY <1>2, <2>5, <2>6 DEF new
<1> QED
  BY <1>3, <1>4

\* release_lock with one hold more left: the hold is taken off.
LEMMA ReleaseKeeps ==
    ASSUME NEW k \in Lock, NEW r \in Readers, k.holds[r] # 0, ~LastHold(k, r)
    PROVE  /\ Fewer(k, r) \in Lock
           /\ Fewer(k, r).chunk = k.chunk
           /\ Fewer(k, r).waits = k.waits
           /\ \A q \in Readers :
                Fewer(k, r).holds[q] = IF q = r THEN k.holds[r] - 1 ELSE k.holds[q]
           /\ Fewer(k, r).holds # Unheld
<1> DEFINE new == Fewer(k, r)
<1>1. k.holds \in [Readers -> Nat]
  BY DEF Lock
<1>2. k.holds[r] - 1 \in Nat
  BY <1>1
<1>3. /\ new \in Lock /\ new.chunk = k.chunk /\ new.waits = k.waits
      /\ \A q \in Readers : new.holds[q] = IF q = r THEN k.holds[r] - 1 ELSE k.holds[q]
  BY <1>2, HoldChanged DEF Fewer
<1> HIDE DEF new
<1>4. PICK q \in Readers : k.holds[q] # IF q = r THEN 1 ELSE 0
  <2>1. k.holds # [q \in Readers |-> IF q = r THEN 1 ELSE 0]
    BY DEF LastHold, Unheld
  <2> QED
    BY <1>1, <2>1
<1>5. new.holds[q] # 0
  <2>1. k.holds[q] \in Nat /\ k.holds[r] \in Nat
    BY <1>1
  <2> QED
    BY <1>3, <1>4, <2>1
<1> QED
  BY <1>3, <1>5, HeldIs DEF new

\* A last hold.
LEMMA LastHoldIs ==
    ASSUME NEW k \in Lock, NEW r \in Readers
    PROVE  LastHold(k, r) => \A q \in Readers : k.holds[q] = IF q = r THEN 1 ELSE 0
BY DEF LastHold, Unheld

\* release_chunk: the chain is left alone, cut, shortened or has one hold less,
\* and only a lock that lost its last hold is gone.
LEMMA ReleaseEffect ==
    ASSUME ChainInv, NEW c \in Chunks, NEW r \in Readers, FinishSnapshotRead(r, c)
    PROVE  /\ ChainInv'
           /\ \E gone \in SUBSET AllLocks :
                /\ Wake(gone)
                /\ \/ /\ \A k \in AllLocks : k.chunk # c
                      /\ AllLocks' = AllLocks
                      /\ gone = {}
                   \/ \E k \in AllLocks :
                        /\ k.chunk = c
                        /\ \/ /\ k.holds[r] = 0
                              /\ AllLocks' \subseteq AllLocks \ {k}
                              /\ gone = {}
                           \/ /\ LastHold(k, r)
                              /\ AllLocks' = AllLocks \ {k}
                              /\ gone = {k}
                           \/ /\ k.holds[r] # 0 /\ ~LastHold(k, r)
                              /\ AllLocks' = (AllLocks \ {k}) \union {Fewer(k, r)}
                              /\ gone = {}
<1> DEFINE b == BucketOf[c]
           chain == locks[b]
           at == {i \in DOMAIN chain : chain[i].chunk = c}
           gone == {chain[i] : i \in {k \in at : LastHold(chain[k], r)}}
<1>0. /\ locks' = IF at = {} THEN locks
                  ELSE [locks EXCEPT ![b] = Released(@, CHOOSE i \in at : TRUE, r)]
      /\ Wake(gone)
  BY DEF FinishSnapshotRead
<1>1. b \in Buckets /\ ChainOK(chain, b)
  BY DEF ChainInv, Buckets
<1>2. \A k : k \in Elements(chain) => k \in AllLocks
  BY <1>1, LocksOfChain
<1>3. CASE at = {}
  <2>1. ~Locked(c)
    BY <1>3 DEF Locked
  <2>2. locks' = locks /\ gone = {}
    BY <1>0, <1>3
  <2>3. ChainInv' /\ AllLocks' = AllLocks
    BY <2>2, LocksKept
  <2> QED
    BY <1>0, <2>1, <2>2, <2>3, LockedIs
<1>4. CASE at # {}
  <2> DEFINE i == CHOOSE i \in at : TRUE
             k == chain[i]
  <2>1. i \in at
    BY <1>4
  <2>2. at = {i}
    <3>1. \A j \in at : j = i
      BY <1>1, <2>1 DEF ChainOK
    <3> QED
      BY <2>1, <3>1
  <2>3. locks' = [locks EXCEPT ![b] = Released(chain, i, r)]
    BY <1>0, <1>4
  <2> HIDE DEF i
  <2>4. i \in DOMAIN chain /\ k.chunk = c /\ k \in Elements(chain)
    BY <2>1 DEF Elements
  <2>5. k \in AllLocks /\ k \in Lock
    BY <1>2, <2>4, LocksOfChain
  <2>6. gone = IF LastHold(k, r) THEN {k} ELSE {}
    BY <2>2
  <2>10. gone \in SUBSET AllLocks
    BY <2>5, <2>6
  <2> HIDE DEF chain, gone
  <2>7. CASE k.holds[r] = 0
    <3> DEFINE new == SubSeq(chain, 1, i - 1)
    <3>1. Released(chain, i, r) = new
      BY <2>7 DEF Released
    <3>2. ChainOK(new, b) /\ Elements(new) \subseteq Elements(chain) \ {k}
      BY <1>1, <2>4, ChainCut
    <3> HIDE DEF new
    <3>3. ChainInv' /\ AllLocks' = (AllLocks \ Elements(chain)) \union Elements(new)
      <4>1. locks' = [locks EXCEPT ![b] = new]
        BY <2>3, <3>1
      <4> QED
        BY <1>1, <3>2, <4>1, OneChain DEF chain
    <3>4. AllLocks' \subseteq AllLocks \ {k}
      BY <1>2, <2>4, <3>2, <3>3
    <3>5. gone = {}
      BY <2>5, <2>6, <2>7, LastHoldIs
    <3> QED
      BY <1>0, <2>4, <2>5, <2>10, <2>7, <3>3, <3>4, <3>5
  <2>8. CASE LastHold(k, r)
    <3> DEFINE new == RemoveAt(chain, i)
    <3>0. k.holds[r] # 0
      BY <2>5, <2>8, LastHoldIs
    <3>1. Released(chain, i, r) = new
      BY <2>8, <3>0 DEF Released
    <3>2. ChainOK(new, b) /\ Elements(new) = Elements(chain) \ {k}
      BY <1>1, <2>4, ChainRemove
    <3> HIDE DEF new
    <3>3. ChainInv' /\ AllLocks' = (AllLocks \ Elements(chain)) \union Elements(new)
      <4>1. locks' = [locks EXCEPT ![b] = new]
        BY <2>3, <3>1
      <4> QED
        BY <1>1, <3>2, <4>1, OneChain DEF chain
    <3>4. AllLocks' = AllLocks \ {k}
      BY <1>2, <2>4, <3>2, <3>3
    <3> QED
      BY <1>0, <2>4, <2>5, <2>6, <2>10, <2>8, <3>3, <3>4
  <2>9. CASE k.holds[r] # 0 /\ ~LastHold(k, r)
    <3> DEFINE less == Fewer(k, r)
               new == [chain EXCEPT ![i] = less]
    <3>1. Released(chain, i, r) = new
      BY <2>9 DEF Released, Fewer
    <3>2. less \in Lock /\ less.chunk = k.chunk /\ less.holds # Unheld
      BY <2>5, <2>9, ReleaseKeeps
    <3> HIDE DEF less
    <3>3. /\ new \in Seq(Lock) /\ DOMAIN new = DOMAIN chain
          /\ \A j \in DOMAIN chain : new[j] = IF j = i THEN less ELSE chain[j]
      <4>1. chain \in Seq(Lock)
        BY <1>1 DEF ChainOK
      <4> QED
        BY <2>4, <3>2, <4>1, ExceptSeq
    <3> HIDE DEF new
    <3>4. ChainOK(new, b) /\ Elements(new) = (Elements(chain) \ {k}) \union {less}
      BY <1>1, <2>4, <3>2, <3>3, ChainReplace
    <3>5. ChainInv' /\ AllLocks' = (AllLocks \ Elements(chain)) \union Elements(new)
      <4>1. locks' = [locks EXCEPT ![b] = new]
        BY <2>3, <3>1
      <4> QED
        BY <1>1, <3>4, <4>1, OneChain DEF chain
    <3>6. AllLocks' = (AllLocks \ {k}) \union {less}
      BY <1>2, <2>4, <3>4, <3>5
    <3>7. gone = {}
      BY <2>6, <2>9
    <3> QED
      BY <1>0, <2>4, <2>5, <2>10, <2>9, <3>5, <3>6, <3>7 DEF less
  <2> QED
    BY <2>7, <2>8, <2>9
<1> QED
  BY <1>3, <1>4

\* A function on 1 .. n is a sequence.
LEMMA FunctionIsSeq ==
    ASSUME NEW S, NEW n \in Nat, NEW f \in [1 .. n -> S]
    PROVE  f \in Seq(S)
BY SeqDef

\* A lock after waitfor_chunk put the wait of a request on the locks of some chunks.
Awaited(k, held, w) == IF k.chunk \in held THEN [k EXCEPT !.waits = @ \union {w}] ELSE k

\* A wait on a lock.
LEMMA AwaitedIs ==
    ASSUME NEW k \in Lock, NEW held, NEW w \in Writes
    PROVE  /\ Awaited(k, held, w) \in Lock
           /\ Awaited(k, held, w).chunk = k.chunk
           /\ Awaited(k, held, w).holds = k.holds
           /\ \A v : v \in Awaited(k, held, w).waits
                    <=> v \in k.waits \/ (v = w /\ k.chunk \in held)
BY DEF Lock, Awaited

\* Every lock of the chunks gets the wait.
LEMMA WaitEffect ==
    ASSUME ChainInv, NEW held, NEW w \in Writes,
           locks' = [b \in Buckets |-> [i \in DOMAIN locks[b] |-> Awaited(locks[b][i], held, w)]]
    PROVE  /\ ChainInv'
           /\ AllLocks' = {Awaited(k, held, w) : k \in AllLocks}
<1>1. ASSUME NEW b \in Buckets
      PROVE  ChainOK(locks'[b], b) /\ Elements(locks'[b]) = {Awaited(k, held, w) : k \in Elements(locks[b])}
  <2> DEFINE old == locks[b]
             new == locks'[b]
  <2>1. new = [i \in DOMAIN old |-> Awaited(old[i], held, w)]
    OBVIOUS
  <2>2. ChainOK(old, b)
    BY DEF ChainInv
  <2>3. old \in Seq(Lock) /\ DOMAIN old = 1 .. Len(old) /\ Len(old) \in Nat
    BY <2>2 DEF ChainOK
  <2> HIDE DEF old, new
  <2>4. \A i \in DOMAIN old : old[i] \in Lock
    <3> HIDE DEF Lock
    <3> QED
      BY <2>3
  <2>5. new \in [1 .. Len(old) -> Lock]
    BY <2>1, <2>3, <2>4, AwaitedIs
  <2>6. new \in Seq(Lock)
    BY <2>3, <2>5, FunctionIsSeq
  <2>7. \A i \in DOMAIN new : /\ i \in DOMAIN old
                              /\ new[i] = Awaited(old[i], held, w)
                              /\ new[i].chunk = old[i].chunk
                              /\ new[i].holds = old[i].holds
    <3>1. \A i \in DOMAIN new : i \in DOMAIN old /\ new[i] = Awaited(old[i], held, w)
      BY <2>1
    <3>2. \A k \in Lock : /\ Awaited(k, held, w).chunk = k.chunk
                          /\ Awaited(k, held, w).holds = k.holds
      BY AwaitedIs
    <3>3. \A i \in DOMAIN old : /\ Awaited(old[i], held, w).chunk = old[i].chunk
                                /\ Awaited(old[i], held, w).holds = old[i].holds
      BY <2>4, <3>2
    <3> QED
      BY <3>1, <3>3
  <2>8. ChainOK(new, b)
    BY <2>2, <2>6, <2>7 DEF ChainOK
  <2>9. Elements(new) = {Awaited(k, held, w) : k \in Elements(old)}
    BY <2>1 DEF Elements
  <2> QED
    BY <2>8, <2>9 DEF old, new
<1>2. ChainInv'
  <2>1. DOMAIN locks' = Buckets /\ locks' = [b \in Buckets |-> locks'[b]]
    OBVIOUS
  <2> QED
    BY <1>1, <2>1 DEF ChainInv, ChainOK
<1>3. AllLocks' = UNION {Elements(locks'[b]) : b \in Buckets}
  BY DEF AllLocks, Elements
<1>4. AllLocks = UNION {Elements(locks[b]) : b \in Buckets}
  BY DEF AllLocks, Elements
<1>5. AllLocks' = UNION {{Awaited(k, held, w) : k \in Elements(locks[b])} : b \in Buckets}
  BY <1>1, <1>3
<1>6. @ = {Awaited(k, held, w) : k \in AllLocks}
  BY <1>4
<1> QED
  BY <1>2, <1>5, <1>6

\* A lock without the holds of one reader.
LEMMA LeftIs ==
    ASSUME NEW k \in Lock, NEW r \in Readers
    PROVE  /\ Left(k, r) \in Lock
           /\ Left(k, r).chunk = k.chunk
           /\ Left(k, r).waits = k.waits
           /\ \A q \in Readers : Left(k, r).holds[q] = IF q = r THEN 0 ELSE k.holds[q]
BY HoldChanged DEF Left

\* free_client_locks: the locks that someone else holds stay.
LEMMA FreeEffect ==
    ASSUME ChainInv, NEW r \in Readers, FreeClientLocks(r)
    PROVE  /\ ChainInv'
           /\ AllLocks' = {Left(k, r) : k \in {l \in AllLocks : Stays(l, r)}}
<1> DEFINE staying(b) == {i \in DOMAIN locks[b] : Stays(locks[b][i], r)}
<1>1. PICK order \in [Buckets -> UNION {InOrder(staying(b)) : b \in Buckets}] :
         /\ \A b \in Buckets : order[b] \in InOrder(staying(b))
         /\ locks' = [b \in Buckets |-> [i \in DOMAIN order[b] |-> Left(locks[b][order[b][i]], r)]]
  BY DEF FreeClientLocks
<1>2. ASSUME NEW b \in Buckets
      PROVE  /\ ChainOK(locks'[b], b)
             /\ Elements(locks'[b]) = {Left(k, r) : k \in {l \in Elements(locks[b]) : Stays(l, r)}}
  <2> DEFINE old == locks[b]
             new == locks'[b]
             p == order[b]
             S == staying(b)
  <2>1. new = [i \in DOMAIN p |-> Left(old[p[i]], r)]
    BY <1>1
  <2>2. ChainOK(old, b)
    BY DEF ChainInv
  <2>3. old \in Seq(Lock) /\ DOMAIN old = 1 .. Len(old) /\ Len(old) \in Nat
    BY <2>2 DEF ChainOK
  <2>4. S \subseteq DOMAIN old /\ \A i \in DOMAIN old : i \in S <=> Stays(old[i], r)
    OBVIOUS
  <2>5. p \in InOrder(S)
    BY <1>1
  <2> HIDE DEF old, new, p, S
  <2>6. Cardinality(S) \in Nat
    <3>1. IsFiniteSet(1 .. Len(old))
      BY <2>3, FS_Interval
    <3> QED
      BY <2>3, <2>4, <3>1, FS_Subset, FS_CardinalityType
  <2>7. /\ p \in [1 .. Cardinality(S) -> S]
        /\ \A i, j \in DOMAIN p : i < j => p[i] < p[j]
        /\ \A k \in S : \E i \in DOMAIN p : p[i] = k
    BY <2>5 DEF InOrder
  <2>8. \A i \in DOMAIN old : old[i] \in Lock
    <3> HIDE DEF Lock
    <3> QED
      BY <2>3
  <2>9. \A i \in DOMAIN p : /\ p[i] \in DOMAIN old
                            /\ Stays(old[p[i]], r)
                            /\ old[p[i]] \in Lock
    BY <2>4, <2>7, <2>8
  <2>10. new \in [1 .. Cardinality(S) -> Lock]
    BY <2>1, <2>7, <2>9, LeftIs
  <2>11. new \in Seq(Lock)
    BY <2>6, <2>10, FunctionIsSeq
  <2>12. DOMAIN new = DOMAIN p
    BY <2>1
  <2>13. \A i \in DOMAIN p : /\ new[i] = Left(old[p[i]], r)
                             /\ new[i].chunk = old[p[i]].chunk
                             /\ new[i].holds # Unheld
    BY <2>1, <2>9, LeftIs DEF Stays
  <2>14. \A i, j \in DOMAIN p : p[i] = p[j] => i = j
    <3>1. \A i \in DOMAIN p : i \in Int /\ p[i] \in Int
      BY <2>3, <2>7, <2>9
    <3> QED
      BY <2>7, <3>1
  <2>15. ChainOK(new, b)
    <3>1. \A i \in DOMAIN new : BucketOf[new[i].chunk] = b /\ new[i].holds # Unheld
      BY <2>2, <2>9, <2>12, <2>13 DEF ChainOK
    <3>2. \A i, j \in DOMAIN new : new[i].chunk = new[j].chunk => i = j
      BY <2>2, <2>9, <2>12, <2>13, <2>14 DEF ChainOK
    <3> QED
      BY <2>11, <3>1, <3>2 DEF ChainOK
  <2>16. Elements(new) = {Left(k, r) : k \in {l \in Elements(old) : Stays(l, r)}}
    <3>1. \A i \in DOMAIN new : \E k \in {l \in Elements(old) : Stays(l, r)} : new[i] = Left(k, r)
      BY <2>9, <2>12, <2>13 DEF Elements
    <3>2. ASSUME NEW k \in Elements(old), Stays(k, r)
          PROVE  \E i \in DOMAIN new : new[i] = Left(k, r)
      <4>1. PICK m \in DOMAIN old : k = old[m]
        BY DEF Elements
      <4>2. PICK i \in DOMAIN p : p[i] = m
        BY <2>4, <2>7, <3>2, <4>1
      <4> QED
        BY <2>12, <2>13, <4>1, <4>2
    <3> QED
      BY <3>1, <3>2 DEF Elements
  <2> QED
    BY <2>15, <2>16 DEF old, new
<1>3. ChainInv'
  <2>1. DOMAIN locks' = Buckets /\ locks' = [b \in Buckets |-> locks'[b]]
    BY <1>1
  <2> QED
    BY <1>2, <2>1 DEF ChainInv, ChainOK
<1>4. AllLocks' = UNION {Elements(locks'[b]) : b \in Buckets}
  BY DEF AllLocks, Elements
<1>5. AllLocks = UNION {Elements(locks[b]) : b \in Buckets}
  BY DEF AllLocks, Elements
<1>6. AllLocks' = UNION {{Left(k, r) : k \in {l \in Elements(locks[b]) : Stays(l, r)}} : b \in Buckets}
  BY <1>2, <1>4
<1>7. @ = {Left(k, r) : k \in {l \in AllLocks : Stays(l, r)}}
  BY <1>5
<1> QED
  BY <1>3, <1>6, <1>7

\* A new server has no locks.
LEMMA NoLocksEffect ==
    ASSUME locks' = [b \in Buckets |-> <<>>]
    PROVE  ChainInv' /\ AllLocks' = {}
<1>1. DOMAIN locks' = Buckets /\ locks' = [b \in Buckets |-> locks'[b]]
  OBVIOUS
<1>2. \A b \in Buckets : locks'[b] = <<>>
  OBVIOUS
<1>3. \A b \in Buckets : ChainOK(<<>>, b)
  BY DEF ChainOK
<1>4. ChainInv'
  BY <1>1, <1>2, <1>3 DEF ChainInv, ChainOK
<1>5. AllLocks' = {}
  BY <1>2 DEF AllLocks
<1> QED
  BY <1>4, <1>5

-----------------------------------------------------------------------------
(* Sets of locks. *)

\* Locks of different chunks, all of them held.
LockSet(L) ==
    /\ L \subseteq Lock
    /\ \A k \in L : k.holds # Unheld
    /\ \A k, l \in L : k.chunk = l.chunk => k = l

ChunksOf(S) == {k.chunk : k \in S}

\* The locks of sound chains are such a set.
LEMMA ChainsMakeLocks ==
    ASSUME NEW f, \A b \in Buckets : ChainOK(f[b], b)
    PROVE  LockSet(UNION {Elements(f[b]) : b \in Buckets})
<1>1. ASSUME NEW b \in Buckets, NEW k \in Elements(f[b])
      PROVE  k \in Lock /\ k.holds # Unheld /\ BucketOf[k.chunk] = b
  <2> DEFINE chain == f[b]
  <2>1. ChainOK(chain, b) /\ k \in Elements(chain)
    OBVIOUS
  <2> HIDE DEF chain
  <2>2. chain \in Seq(Lock)
    BY <2>1 DEF ChainOK
  <2>3. PICK i \in DOMAIN chain : k = chain[i]
    BY <2>1 DEF Elements
  <2>4. chain[i] \in Lock
    <3> HIDE DEF Lock
    <3> QED
      BY <2>2
  <2> QED
    BY <2>1, <2>3, <2>4 DEF ChainOK
<1>2. ASSUME NEW b \in Buckets, NEW k \in Elements(f[b]), NEW l \in Elements(f[b]),
             k.chunk = l.chunk
      PROVE  k = l
  BY <1>2 DEF ChainOK, Elements
<1> QED
  BY <1>1, <1>2 DEF LockSet

\* All locks, now and after a step.
LEMMA AllLocksSet ==
    /\ ChainInv => LockSet(AllLocks)
    /\ ChainInv' => LockSet(AllLocks')
<1>1. AllLocks = UNION {Elements(locks[b]) : b \in Buckets}
  BY DEF AllLocks, Elements
<1>2. AllLocks' = UNION {Elements(locks'[b]) : b \in Buckets}
  BY DEF AllLocks, Elements
<1>3. ChainInv => \A b \in Buckets : ChainOK(locks[b], b)
  BY DEF ChainInv
<1>4. ChainInv' => \A b \in Buckets : ChainOK(locks'[b], b)
  BY DEF ChainInv, ChainOK
<1> QED
  BY <1>1, <1>2, <1>3, <1>4, ChainsMakeLocks

\* Locks are counted by their chunks.
LEMMA CountByChunk ==
    ASSUME NEW L, LockSet(L), NEW S \in SUBSET L
    PROVE  /\ IsFiniteSet(S) /\ IsFiniteSet(ChunksOf(S))
           /\ ChunksOf(S) \subseteq Chunks
           /\ Cardinality(S) = Cardinality(ChunksOf(S))
           /\ Cardinality(S) \in Nat
<1> DEFINE T == ChunksOf(S)
           f == [k \in S |-> k.chunk]
<1>1. T \subseteq Chunks
  BY DEF LockSet, ChunksOf, Lock
<1>2. IsFiniteSet(T)
  BY <1>1, ChunksAssumption, FS_Subset
<1>3. f \in Injection(S, T)
  <2>1. f \in [S -> T]
    BY DEF ChunksOf
  <2>2. \A k, l \in S : f[k] = f[l] => k = l
    BY DEF LockSet
  <2> QED
    BY <2>1, <2>2 DEF Injection, IsInjective
<1>4. f \in Surjection(S, T)
  BY DEF Surjection, ChunksOf
<1> HIDE DEF f, T
<1>5. IsFiniteSet(S) /\ Cardinality(S) = Cardinality(T)
  BY <1>2, <1>3, <1>4, FS_Injection
<1> QED
  BY <1>1, <1>2, <1>5, FS_CardinalityType DEF T

-----------------------------------------------------------------------------
(* The inductive invariant. *)

RestTyped ==
    /\ holdcount \in [Writes -> Nat]
    /\ write \in [Writes -> {"idle", "queued", "waiting", "granted"}]
    /\ asked \in [Writes -> Requests \union {{}}]
    /\ connected \subseteq Readers
    /\ reading \in [Readers -> [Chunks -> Nat]]
    /\ finished \in [Readers -> [Chunks -> Nat]]
    /\ excepted \in [Readers -> SUBSET Chunks]
    /\ unflushed \in [Readers -> SUBSET Writes]
    /\ restarts \in 0 .. MaxRestarts

\* A lock is held for reads, and until a restart for all of them.
HoldsInv ==
    /\ \A k \in AllLocks, r \in Readers :
        /\ k.holds[r] <= reading[r][k.chunk] + finished[r][k.chunk]
        /\ restarts = 0 => k.holds[r] = reading[r][k.chunk] + finished[r][k.chunk]
    /\ restarts = 0 =>
        \A r \in Readers, c \in Chunks :
            reading[r][c] + finished[r][c] # 0 => \E k \in AllLocks : k.chunk = c

WaitsOn(w) == {k \in AllLocks : w \in k.waits}

\* The waits of a request, by their chunks.
PendingInv ==
    \A w \in Writes :
        /\ Cardinality(ChunksOf(WaitsOn(w))) <= holdcount[w]
        /\ ChunksOf(WaitsOn(w)) # {} => write[w] = "waiting"
        /\ ChunksOf(WaitsOn(w)) \subseteq asked[w]
        /\ restarts = 0 => /\ holdcount[w] = Cardinality(ChunksOf(WaitsOn(w)))
                           /\ write[w] = "waiting" => ChunksOf(WaitsOn(w)) # {}

Asking == {w \in Writes : write[w] \in {"waiting", "granted"}}

\* A request that was handled has given every snapshot its exceptions, but for
\* the snapshots created since: no other reader locks its chunks any more.
ExceptedInv ==
    \A w \in Asking, r \in Readers : w \in unflushed[r] \/ asked[w] \subseteq excepted[r]

\* It waits on every lock of its chunks that a reader of such a snapshot holds.
WaitingInv ==
    restarts = 0 =>
        \A w \in Asking, k \in AllLocks, r \in Readers :
            k.chunk \in asked[w] /\ k.holds[r] # 0 => w \in k.waits \/ w \in unflushed[r]

\* Reads are those of connected readers, for whom the origin was flushed if it
\* is flushed at all.
FlushInv ==
    /\ \A r \in Readers, c \in Chunks : reading[r][c] # 0 => r \in connected
    /\ \A r \in connected \intersect Flushed : unflushed[r] = {}

IInv ==
    /\ RestTyped
    /\ ChainInv
    /\ HoldsInv
    /\ PendingInv
    /\ ExceptedInv
    /\ WaitingInv
    /\ FlushInv

-----------------------------------------------------------------------------
(* Waits. *)

\* What is left of a finite set after some of it is gone.
LEMMA CountLeft ==
    ASSUME NEW W, IsFiniteSet(W), NEW D, D \subseteq W, NEW V, V \subseteq W \ D
    PROVE  /\ Cardinality(W) \in Nat /\ Cardinality(D) \in Nat /\ Cardinality(V) \in Nat
           /\ Cardinality(V) <= Cardinality(W) - Cardinality(D)
           /\ V = W \ D => Cardinality(V) = Cardinality(W) - Cardinality(D)
           /\ V = {} <=> Cardinality(V) = 0
           /\ Cardinality(W) = Cardinality(D) => W = D
<1>1. IsFiniteSet(D) /\ (Cardinality(W) = Cardinality(D) => W = D)
  BY FS_Subset
<1>2. IsFiniteSet(W \ D) /\ Cardinality(W \ D) = Cardinality(W) - Cardinality(D)
  <2>1. W \cap D = D
    OBVIOUS
  <2> QED
    BY <2>1, FS_Difference
<1>3. IsFiniteSet(V) /\ Cardinality(V) <= Cardinality(W \ D)
  BY <1>2, FS_Subset
<1>4. V = {} <=> Cardinality(V) = 0
  BY <1>3, FS_EmptySet
<1> QED
  BY <1>1, <1>2, <1>3, <1>4, FS_CardinalityType

\* Locks are freed and their waiters woken: the counts stay those of the waits.
LEMMA WakeKeeps ==
    ASSUME RestTyped, ChainInv, PendingInv,
           NEW gone \in SUBSET AllLocks, Wake(gone), restarts' = restarts,
           \A w \in Writes : ChunksOf(WaitsOn(w))' \subseteq
                ChunksOf(WaitsOn(w)) \ ChunksOf({k \in gone : w \in k.waits}),
           restarts = 0 =>
                \A w \in Writes : ChunksOf(WaitsOn(w))' =
                    ChunksOf(WaitsOn(w)) \ ChunksOf({k \in gone : w \in k.waits})
    PROVE  /\ PendingInv'
           /\ holdcount' \in [Writes -> Nat]
           /\ write' \in [Writes -> {"idle", "queued", "waiting", "granted"}]
           /\ asked' = asked
           /\ Asking' \subseteq Asking
<1>1. ASSUME NEW w \in Writes
      PROVE  /\ Cardinality(ChunksOf(WaitsOn(w))') <= holdcount'[w]
             /\ ChunksOf(WaitsOn(w))' # {} => write'[w] = "waiting"
             /\ ChunksOf(WaitsOn(w))' \subseteq asked[w]
             /\ restarts = 0 => /\ holdcount'[w] = Cardinality(ChunksOf(WaitsOn(w))')
                                /\ write'[w] = "waiting" => ChunksOf(WaitsOn(w))' # {}
             /\ holdcount'[w] \in Nat
             /\ write'[w] = write[w] \/ (write'[w] = "granted" /\ write[w] = "waiting")
  <2> DEFINE G == {k \in gone : w \in k.waits}
             D == ChunksOf(G)
             W == ChunksOf(WaitsOn(w))
             V == ChunksOf(WaitsOn(w))'
  <2>1. /\ IsFiniteSet(W) /\ D \subseteq W /\ Cardinality(G) = Cardinality(D)
        /\ G # {} <=> D # {}
    <3>1. WaitsOn(w) \in SUBSET AllLocks /\ G \in SUBSET AllLocks /\ G \subseteq WaitsOn(w)
      BY DEF WaitsOn
    <3>2. D \subseteq W /\ (G # {} <=> D # {})
      BY <3>1 DEF ChunksOf
    <3> QED
      BY <3>1, <3>2, AllLocksSet, CountByChunk
  <2>2. /\ Cardinality(W) <= holdcount[w]
        /\ W # {} => write[w] = "waiting"
        /\ W \subseteq asked[w]
        /\ restarts = 0 => /\ holdcount[w] = Cardinality(W)
                           /\ write[w] = "waiting" => W # {}
    BY DEF PendingInv
  <2>3. V \subseteq W \ D /\ (restarts = 0 => V = W \ D)
    OBVIOUS
  <2>4. /\ holdcount'[w] = holdcount[w] - Cardinality(G)
        /\ write'[w] = IF w \in Answered(gone) THEN "granted" ELSE write[w]
    BY DEF Wake
  <2>5. w \in Answered(gone) <=> G # {} /\ holdcount[w] = Cardinality(G)
    BY DEF Answered
  <2>6. holdcount[w] \in Nat
    BY DEF RestTyped
  <2> HIDE DEF G, D, W, V
  <2>7. /\ Cardinality(W) \in Nat /\ Cardinality(D) \in Nat /\ Cardinality(V) \in Nat
        /\ Cardinality(V) <= Cardinality(W) - Cardinality(D)
        /\ V = W \ D => Cardinality(V) = Cardinality(W) - Cardinality(D)
        /\ V = {} <=> Cardinality(V) = 0
        /\ Cardinality(W) = Cardinality(D) => W = D
    BY <2>1, <2>3, CountLeft
  <2>8. Cardinality(V) <= holdcount'[w] /\ holdcount'[w] \in Nat
    BY <2>1, <2>2, <2>4, <2>6, <2>7
  <2>9. V # {} => write'[w] = "waiting"
    BY <2>1, <2>2, <2>3, <2>4, <2>5, <2>6, <2>7
  <2>10. V \subseteq asked[w]
    BY <2>2, <2>3
  <2>11. w \in Answered(gone) => write[w] = "waiting"
    BY <2>1, <2>2, <2>5
  <2>12. ASSUME restarts = 0
         PROVE  /\ holdcount'[w] = Cardinality(V)
                /\ write'[w] = "waiting" => V # {}
    <3>1. holdcount[w] = Cardinality(W) /\ V = W \ D
      BY <2>2, <2>3, <2>12
    <3>2. holdcount'[w] = Cardinality(V)
      BY <2>1, <2>4, <2>7, <3>1
    <3>3. ASSUME write'[w] = "waiting", V = {}
          PROVE  FALSE
      <4>1. w \notin Answered(gone) /\ write[w] = "waiting"
        BY <2>4, <3>3
      <4>2. W # {} /\ W = D
        BY <2>1, <2>2, <2>12, <3>1, <3>3, <4>1
      <4> QED
        BY <2>1, <2>5, <3>1, <4>1, <4>2
    <3> QED
      BY <3>2, <3>3
  <2> QED
    BY <2>4, <2>8, <2>9, <2>10, <2>11, <2>12 DEF V
<1>2. asked' = asked
  BY DEF Wake
<1>3. PendingInv'
  BY <1>1, <1>2 DEF PendingInv
<1>4. holdcount' \in [Writes -> Nat]
  BY <1>1 DEF Wake
<1>5. write' \in [Writes -> {"idle", "queued", "waiting", "granted"}]
  <2>1. \A w \in Writes : write'[w] \in {"idle", "queued", "waiting", "granted"}
    BY <1>1 DEF RestTyped
  <2>2. write' = [w \in Writes |-> write'[w]]
    BY DEF Wake
  <2> QED
    BY <2>1, <2>2
<1>6. Asking' \subseteq Asking
  BY <1>1 DEF Asking
<1> QED
  BY <1>2, <1>3, <1>4, <1>5, <1>6

-----------------------------------------------------------------------------
(* One lemma per action. *)

\* Every lock is of a chunk and counts holds.
LEMMA LockFields ==
    ASSUME NEW k \in Lock
    PROVE  /\ k.chunk \in Chunks
           /\ \A r \in Readers : k.holds[r] \in Nat
           /\ k.waits \subseteq Writes
BY DEF Lock

\* A lock is taken for a read: nobody waits on a new one.
LEMMA QuerySnapshotReadStep ==
    ASSUME IInv, NEW r \in Readers, NEW c \in Chunks, QuerySnapshotRead(r, c)
    PROVE  IInv'
<1> USE DEF IInv
<1>1. /\ RestTyped /\ ChainInv /\ HoldsInv /\ PendingInv
      /\ ExceptedInv /\ WaitingInv /\ FlushInv
      /\ r \in connected
      /\ c \notin excepted[r]
      /\ locks' = [locks EXCEPT ![BucketOf[c]] = Readlock(c, r)]
      /\ reading' = [reading EXCEPT ![r][c] = @ + 1]
      /\ UNCHANGED <<holdcount, write, asked, connected, finished, excepted, unflushed, restarts>>
  BY DEF QuerySnapshotRead
<1>2. RestTyped'
  <2>1. reading' \in [Readers -> [Chunks -> Nat]]
    BY <1>1 DEF RestTyped
  <2> QED
    BY <1>1, <2>1 DEF RestTyped
<1>3. /\ ChainInv'
      /\ \/ /\ \A k \in AllLocks : k.chunk # c
            /\ AllLocks' = AllLocks \union {FirstHold(c, r)}
         \/ \E k \in AllLocks : /\ k.chunk = c
                                /\ AllLocks' = (AllLocks \ {k}) \union {More(k, r)}
  BY <1>1, ReadlockEffect
<1>4. LockSet(AllLocks)
  BY <1>1, AllLocksSet
<1>5. \A k \in AllLocks : k \in Lock
  BY <1>4 DEF LockSet
<1>6. \A q \in Readers, d \in Chunks :
        /\ reading'[q][d] = IF q = r /\ d = c THEN reading[q][d] + 1 ELSE reading[q][d]
        /\ reading[q][d] \in Nat /\ finished[q][d] \in Nat
  BY <1>1 DEF RestTyped
<1>7. Asking' = Asking
  BY <1>1 DEF Asking
<1>8. \A w \in Asking : c \in asked[w] => w \in unflushed[r]
  BY <1>1 DEF ExceptedInv
<1>9. HoldsInv' /\ PendingInv' /\ WaitingInv'
  <2>1. CASE \A k \in AllLocks : k.chunk # c /\ AllLocks' = AllLocks \union {FirstHold(c, r)}
    <3> DEFINE new == FirstHold(c, r)
    <3>1. /\ new \in Lock /\ new.chunk = c /\ new.waits = {}
          /\ \A q \in Readers : new.holds[q] = IF q = r THEN 1 ELSE 0
      BY FirstHoldLock
    <3>2. AllLocks' = AllLocks \union {new}
      BY <1>3, <2>1
    <3> HIDE DEF new
    <3>3. HoldsInv'
      <4>1. ASSUME NEW k \in AllLocks', NEW q \in Readers
            PROVE  /\ k.holds[q] <= reading'[q][k.chunk] + finished'[q][k.chunk]
                   /\ restarts' = 0 => k.holds[q] = reading'[q][k.chunk] + finished'[q][k.chunk]
        <5>1. CASE k \in AllLocks
          <6>1. k.chunk # c /\ k.chunk \in Chunks
            BY <1>5, <2>1, <5>1, LockFields
          <6> QED
            BY <1>1, <1>6, <5>1, <6>1 DEF HoldsInv
        <5>2. CASE k = new
          <6>1. restarts = 0 => reading[q][c] + finished[q][c] = 0
            BY <1>1, <2>1 DEF HoldsInv
          <6> QED
            BY <1>1, <1>6, <3>1, <5>2, <6>1
        <5> QED
          BY <3>2, <5>1, <5>2
      <4>2. ASSUME restarts' = 0, NEW q \in Readers, NEW d \in Chunks,
                   reading'[q][d] + finished'[q][d] # 0
            PROVE  \E k \in AllLocks' : k.chunk = d
        <5>1. CASE d = c
          BY <3>1, <3>2, <5>1
        <5>2. CASE d # c
          <6>1. reading[q][d] + finished[q][d] # 0
            BY <1>1, <1>6, <4>2, <5>2
          <6> QED
            BY <1>1, <3>2, <4>2, <6>1 DEF HoldsInv
        <5> QED
          BY <5>1, <5>2
      <4> QED
        BY <4>1, <4>2 DEF HoldsInv
    <3>4. \A w \in Writes : WaitsOn(w)' = WaitsOn(w)
      BY <3>1, <3>2 DEF WaitsOn
    <3>5. PendingInv'
      BY <1>1, <3>4 DEF PendingInv, ChunksOf
    <3>6. ASSUME restarts' = 0, NEW w \in Asking', NEW k \in AllLocks', NEW q \in Readers,
                 k.chunk \in asked'[w], k.holds[q] # 0
          PROVE  w \in k.waits \/ w \in unflushed'[q]
      <4>1. CASE k \in AllLocks
        BY <1>7, <1>1, <3>6, <4>1 DEF WaitingInv
      <4>2. CASE k = new
        BY <1>7, <1>1, <1>8, <3>1, <3>6, <4>2
      <4> QED
        BY <3>2, <4>1, <4>2
    <3>7. WaitingInv'
      BY <3>6 DEF WaitingInv
    <3> QED
      BY <3>3, <3>5, <3>7
  <2>2. ASSUME NEW l \in AllLocks, l.chunk = c,
               AllLocks' = (AllLocks \ {l}) \union {More(l, r)}
        PROVE  HoldsInv' /\ PendingInv' /\ WaitingInv'
    <3> DEFINE new == More(l, r)
    <3>1. /\ new \in Lock /\ new.chunk = l.chunk /\ new.waits = l.waits
          /\ \A q \in Readers : new.holds[q] = IF q = r THEN l.holds[r] + 1 ELSE l.holds[q]
      BY <1>5, MoreIs
    <3>2. AllLocks' = (AllLocks \ {l}) \union {new}
      BY <2>2
    <3>3. \A k \in AllLocks : k # l => k.chunk # c
      BY <1>4, <2>2 DEF LockSet
    <3> HIDE DEF new
    <3>4. HoldsInv'
      <4>1. ASSUME NEW k \in AllLocks', NEW q \in Readers
            PROVE  /\ k.holds[q] <= reading'[q][k.chunk] + finished'[q][k.chunk]
                   /\ restarts' = 0 => k.holds[q] = reading'[q][k.chunk] + finished'[q][k.chunk]
        <5>1. CASE k \in AllLocks /\ k # l
          <6>1. k.chunk # c /\ k.chunk \in Chunks
            BY <1>5, <3>3, <5>1, LockFields
          <6> QED
            BY <1>1, <1>6, <5>1, <6>1 DEF HoldsInv
        <5>2. CASE k = new
          <6>1. /\ l.holds[q] <= reading[q][c] + finished[q][c]
                /\ restarts = 0 => l.holds[q] = reading[q][c] + finished[q][c]
            BY <1>1, <2>2 DEF HoldsInv
          <6>2. l.holds[q] \in Nat /\ l.holds[r] \in Nat
            BY <1>5, LockFields
          <6>3. k.chunk = c /\ k.holds[q] = IF q = r THEN l.holds[q] + 1 ELSE l.holds[q]
            BY <2>2, <3>1, <5>2
          <6> QED
            BY <1>1, <1>6, <6>1, <6>2, <6>3
        <5> QED
          BY <3>2, <5>1, <5>2
      <4>2. ASSUME restarts' = 0, NEW q \in Readers, NEW d \in Chunks,
                   reading'[q][d] + finished'[q][d] # 0
            PROVE  \E k \in AllLocks' : k.chunk = d
        <5>1. CASE d = c
          BY <2>2, <3>1, <3>2, <5>1
        <5>2. CASE d # c
          <6>1. reading[q][d] + finished[q][d] # 0
            BY <1>1, <1>6, <4>2, <5>2
          <6>2. PICK k \in AllLocks : k.chunk = d
            BY <1>1, <4>2, <6>1 DEF HoldsInv
          <6> QED
            BY <2>2, <3>2, <5>2, <6>2
        <5> QED
          BY <5>1, <5>2
      <4> QED
        BY <4>1, <4>2 DEF HoldsInv
    <3>5. \A w \in Writes : ChunksOf(WaitsOn(w))' = ChunksOf(WaitsOn(w))
      BY <3>1, <3>2 DEF WaitsOn, ChunksOf
    <3>6. PendingInv'
      BY <1>1, <3>5 DEF PendingInv
    <3>7. ASSUME restarts' = 0, NEW w \in Asking', NEW k \in AllLocks', NEW q \in Readers,
                 k.chunk \in asked'[w], k.holds[q] # 0
          PROVE  w \in k.waits \/ w \in unflushed'[q]
      <4>1. CASE k \in AllLocks
        BY <1>7, <1>1, <3>7, <4>1 DEF WaitingInv
      <4>2. CASE k = new /\ q = r
        BY <1>7, <1>1, <1>8, <2>2, <3>1, <3>7, <4>2
      <4>3. CASE k = new /\ q # r
        BY <1>7, <1>1, <3>1, <3>7, <4>3 DEF WaitingInv
      <4> QED
        BY <3>2, <4>1, <4>2, <4>3
    <3>8. WaitingInv'
      BY <3>7 DEF WaitingInv
    <3> QED
      BY <3>4, <3>6, <3>8
  <2> QED
    BY <1>3, <2>1, <2>2
<1>10. ExceptedInv' /\ FlushInv'
  <2>1. ExceptedInv'
    BY <1>7, <1>1 DEF ExceptedInv
  <2>2. FlushInv'
    BY <1>1, <1>6 DEF FlushInv
  <2> QED
    BY <2>1, <2>2
<1> QED
  BY <1>2, <1>3, <1>9, <1>10

\* A read ends: its lock is held for the release instead.
LEMMA EndReadStep ==
    ASSUME IInv, NEW r \in Readers, NEW c \in Chunks, EndRead(r, c)
    PROVE  IInv'
<1>1. /\ RestTyped /\ ChainInv /\ HoldsInv /\ PendingInv
      /\ ExceptedInv /\ WaitingInv /\ FlushInv
      /\ reading[r][c] > 0
      /\ reading' = [reading EXCEPT ![r][c] = @ - 1]
      /\ finished' = [finished EXCEPT ![r][c] = @ + 1]
      /\ UNCHANGED <<lockVars, connected, excepted, unflushed, restarts>>
  BY DEF IInv, EndRead
<1>2. ChainInv' /\ AllLocks' = AllLocks
  BY <1>1, LocksKept DEF lockVars
<1>3. RestTyped'
  <2>1. reading[r][c] - 1 \in Nat /\ finished[r][c] + 1 \in Nat
    BY <1>1 DEF RestTyped
  <2>2. reading' \in [Readers -> [Chunks -> Nat]] /\ finished' \in [Readers -> [Chunks -> Nat]]
    BY <1>1, <2>1 DEF RestTyped
  <2> QED
    BY <1>1, <2>2 DEF RestTyped, lockVars
<1>4. \A q \in Readers, d \in Chunks : reading'[q][d] + finished'[q][d] = reading[q][d] + finished[q][d]
  <2>1. \A q \in Readers, d \in Chunks :
          /\ reading'[q][d] = IF q = r /\ d = c THEN reading[q][d] - 1 ELSE reading[q][d]
          /\ finished'[q][d] = IF q = r /\ d = c THEN finished[q][d] + 1 ELSE finished[q][d]
          /\ reading[q][d] \in Nat /\ finished[q][d] \in Nat
    BY <1>1 DEF RestTyped
  <2> QED
    BY <2>1
<1>5. \A k \in AllLocks : k.chunk \in Chunks
  BY <1>1, AllLocksSet, LockFields DEF LockSet
<1>6. HoldsInv'
  BY <1>1, <1>2, <1>4, <1>5 DEF HoldsInv
<1>7. \A w \in Writes : WaitsOn(w)' = WaitsOn(w)
  BY <1>2 DEF WaitsOn
<1>8. PendingInv'
  BY <1>1, <1>7 DEF PendingInv, ChunksOf, lockVars
<1>9. Asking' = Asking
  BY <1>1 DEF Asking, lockVars
<1>10. ExceptedInv' /\ WaitingInv'
  BY <1>1, <1>2, <1>9 DEF ExceptedInv, WaitingInv, lockVars
<1>11. FlushInv'
  <2>1. \A q \in Readers, d \in Chunks : reading'[q][d] # 0 => reading[q][d] # 0
    BY <1>1 DEF RestTyped
  <2> QED
    BY <1>1, <2>1 DEF FlushInv
<1> QED
  BY <1>2, <1>3, <1>6, <1>8, <1>10, <1>11 DEF IInv

\* A hold is released: the read it was for is over, and with the last hold the
\* waits on the lock go. Until a restart no release cuts a chain.
LEMMA FinishSnapshotReadStep ==
    ASSUME IInv, NEW r \in Readers, NEW c \in Chunks, FinishSnapshotRead(r, c)
    PROVE  IInv'
<1>1. /\ RestTyped /\ ChainInv /\ HoldsInv /\ PendingInv
      /\ ExceptedInv /\ WaitingInv /\ FlushInv
      /\ finished[r][c] > 0
      /\ finished' = [finished EXCEPT ![r][c] = @ - 1]
      /\ UNCHANGED <<connected, reading, excepted, unflushed, restarts>>
  BY DEF IInv, FinishSnapshotRead
<1>0. ChainInv'
  BY <1>1, ReleaseEffect
<1>2. PICK gone \in SUBSET AllLocks :
         /\ Wake(gone)
         /\ \/ /\ \A k \in AllLocks : k.chunk # c
               /\ AllLocks' = AllLocks
               /\ gone = {}
            \/ \E k \in AllLocks :
                 /\ k.chunk = c
                 /\ \/ /\ k.holds[r] = 0
                       /\ AllLocks' \subseteq AllLocks \ {k}
                       /\ gone = {}
                    \/ /\ LastHold(k, r)
                       /\ AllLocks' = AllLocks \ {k}
                       /\ gone = {k}
                    \/ /\ k.holds[r] # 0 /\ ~LastHold(k, r)
                       /\ AllLocks' = (AllLocks \ {k}) \union {Fewer(k, r)}
                       /\ gone = {}
  BY <1>1, ReleaseEffect
<1>3. LockSet(AllLocks)
  BY <1>1, AllLocksSet
<1>4. \A k \in AllLocks : /\ k \in Lock /\ k.chunk \in Chunks
                          /\ \A q \in Readers : k.holds[q] \in Nat
  BY <1>3, LockFields DEF LockSet
<1>5. \A q \in Readers, d \in Chunks :
        /\ finished'[q][d] = IF q = r /\ d = c THEN finished[q][d] - 1 ELSE finished[q][d]
        /\ reading[q][d] \in Nat /\ finished[q][d] \in Nat
        /\ reading'[q][d] = reading[q][d]
  BY <1>1 DEF RestTyped
<1>6. finished' \in [Readers -> [Chunks -> Nat]]
  <2>1. finished[r][c] - 1 \in Nat
    BY <1>1, <1>5
  <2> QED
    BY <1>1, <2>1 DEF RestTyped
<1> DEFINE Effect == /\ HoldsInv'
                     /\ \A w \in Writes : ChunksOf(WaitsOn(w))' \subseteq
                            ChunksOf(WaitsOn(w)) \ ChunksOf({k \in gone : w \in k.waits})
                     /\ restarts = 0 =>
                            \A w \in Writes : ChunksOf(WaitsOn(w))' =
                                ChunksOf(WaitsOn(w)) \ ChunksOf({k \in gone : w \in k.waits})
                     /\ \A k \in AllLocks' :
                            \E l \in AllLocks :
                                /\ k.chunk = l.chunk /\ k.waits = l.waits
                                /\ \A q \in Readers : k.holds[q] # 0 => l.holds[q] # 0
<1>7. ASSUME \A k \in AllLocks : k.chunk # c, AllLocks' = AllLocks, gone = {}
      PROVE  Effect
  <2>1. \A w \in Writes : ChunksOf(WaitsOn(w))' = ChunksOf(WaitsOn(w))
    BY <1>7 DEF WaitsOn, ChunksOf
  <2>2. \A w \in Writes : ChunksOf({k \in gone : w \in k.waits}) = {}
    BY <1>7 DEF ChunksOf
  <2>3. HoldsInv'
    <3>1. ASSUME NEW k \in AllLocks', NEW q \in Readers
          PROVE  /\ k.holds[q] <= reading'[q][k.chunk] + finished'[q][k.chunk]
                 /\ restarts' = 0 => k.holds[q] = reading'[q][k.chunk] + finished'[q][k.chunk]
      <4>1. k \in AllLocks /\ k.chunk # c /\ k.chunk \in Chunks
        BY <1>4, <1>7
      <4> QED
        BY <1>1, <1>5, <4>1 DEF HoldsInv
    <3>2. ASSUME restarts' = 0, NEW q \in Readers, NEW d \in Chunks,
                 reading'[q][d] + finished'[q][d] # 0
          PROVE  \E k \in AllLocks' : k.chunk = d
      <4>1. reading[q][d] + finished[q][d] # 0
        BY <1>1, <1>5, <3>2
      <4> QED
        BY <1>1, <1>7, <3>2, <4>1 DEF HoldsInv
    <3> QED
      BY <3>1, <3>2 DEF HoldsInv
  <2> QED
    BY <1>7, <2>1, <2>2, <2>3 DEF Effect
<1>8. ASSUME NEW k0 \in AllLocks, k0.chunk = c
      PROVE  /\ k0.holds[r] = 0 /\ AllLocks' \subseteq AllLocks \ {k0} /\ gone = {} => Effect
             /\ LastHold(k0, r) /\ AllLocks' = AllLocks \ {k0} /\ gone = {k0} => Effect
             /\ /\ k0.holds[r] # 0 /\ ~LastHold(k0, r)
                /\ AllLocks' = (AllLocks \ {k0}) \union {Fewer(k0, r)} /\ gone = {}
                => Effect
  <2>1. \A k \in AllLocks : k # k0 => k.chunk # c
    BY <1>3, <1>8 DEF LockSet
  <2>2. \A q \in Readers : /\ k0.holds[q] <= reading[q][c] + finished[q][c]
                           /\ restarts = 0 => k0.holds[q] = reading[q][c] + finished[q][c]
    BY <1>1, <1>8 DEF HoldsInv
  <2>3. ASSUME NEW k \in AllLocks, k # k0, NEW q \in Readers
        PROVE  /\ k.holds[q] <= reading'[q][k.chunk] + finished'[q][k.chunk]
               /\ restarts' = 0 => k.holds[q] = reading'[q][k.chunk] + finished'[q][k.chunk]
    <3>1. k.chunk # c /\ k.chunk \in Chunks
      BY <1>4, <2>1, <2>3
    <3> QED
      BY <1>1, <1>5, <3>1 DEF HoldsInv
  <2>4. ASSUME restarts' = 0, NEW q \in Readers, NEW d \in Chunks, d # c,
               reading'[q][d] + finished'[q][d] # 0
        PROVE  \E k \in AllLocks : k # k0 /\ k.chunk = d
    <3>1. reading[q][d] + finished[q][d] # 0
      BY <1>1, <1>5, <2>4
    <3> QED
      BY <1>1, <1>8, <2>4, <3>1 DEF HoldsInv
  <2>5. ASSUME k0.holds[r] = 0, AllLocks' \subseteq AllLocks \ {k0}, gone = {}
        PROVE  Effect
    <3>1. restarts # 0
      BY <1>1, <1>5, <2>2, <2>5
    <3>2. HoldsInv'
      BY <1>1, <2>3, <2>5, <3>1 DEF HoldsInv
    <3>3. \A w \in Writes : ChunksOf({k \in gone : w \in k.waits}) = {}
      BY <2>5 DEF ChunksOf
    <3>4. \A w \in Writes : ChunksOf(WaitsOn(w))' \subseteq ChunksOf(WaitsOn(w))
      BY <2>5 DEF WaitsOn, ChunksOf
    <3> QED
      BY <2>5, <3>1, <3>2, <3>3, <3>4 DEF Effect
  <2>6. ASSUME LastHold(k0, r), AllLocks' = AllLocks \ {k0}, gone = {k0}
        PROVE  Effect
    <3>1. \A q \in Readers : k0.holds[q] = IF q = r THEN 1 ELSE 0
      BY <1>4, <2>6, LastHoldIs
    <3>2. ASSUME restarts' = 0, NEW q \in Readers, NEW d \in Chunks,
                 reading'[q][d] + finished'[q][d] # 0
          PROVE  \E k \in AllLocks' : k.chunk = d
      <4>1. d # c
        BY <1>1, <1>5, <2>2, <3>1, <3>2
      <4> QED
        BY <2>4, <2>6, <3>2, <4>1
    <3>3. HoldsInv'
      BY <2>3, <2>6, <3>2 DEF HoldsInv
    <3>4. \A w \in Writes : ChunksOf({k \in gone : w \in k.waits}) = IF w \in k0.waits THEN {c} ELSE {}
      BY <1>8, <2>6 DEF ChunksOf
    <3>5. \A w \in Writes : ChunksOf(WaitsOn(w))' =
            ChunksOf(WaitsOn(w)) \ (IF w \in k0.waits THEN {c} ELSE {})
      BY <1>8, <2>1, <2>6 DEF WaitsOn, ChunksOf
    <3>6. gone \in SUBSET AllLocks
      BY <2>6
    <3> QED
      BY <2>6, <3>3, <3>4, <3>5, <3>6 DEF Effect
  <2>7. ASSUME k0.holds[r] # 0, ~LastHold(k0, r), gone = {},
               AllLocks' = (AllLocks \ {k0}) \union {Fewer(k0, r)}
        PROVE  Effect
    <3> DEFINE new == Fewer(k0, r)
    <3>1. /\ new.chunk = c /\ new.waits = k0.waits
          /\ \A q \in Readers : new.holds[q] = IF q = r THEN k0.holds[r] - 1 ELSE k0.holds[q]
      BY <1>4, <1>8, <2>7, ReleaseKeeps
    <3>2. AllLocks' = (AllLocks \ {k0}) \union {new}
      BY <2>7
    <3> HIDE DEF new
    <3>3. ASSUME NEW q \in Readers
          PROVE  /\ new.holds[q] <= reading'[q][c] + finished'[q][c]
                 /\ restarts' = 0 => new.holds[q] = reading'[q][c] + finished'[q][c]
      <4>1. k0.holds[q] \in Nat /\ k0.holds[r] \in Nat
        BY <1>4
      <4> QED
        BY <1>1, <1>5, <2>2, <3>1, <4>1
    <3>4. ASSUME NEW k \in AllLocks', NEW q \in Readers
          PROVE  /\ k.holds[q] <= reading'[q][k.chunk] + finished'[q][k.chunk]
                 /\ restarts' = 0 => k.holds[q] = reading'[q][k.chunk] + finished'[q][k.chunk]
      <4>1. CASE k = new
        BY <3>1, <3>3, <4>1
      <4>2. CASE k # new
        BY <2>3, <3>2, <4>2
      <4> QED
        BY <4>1, <4>2
    <3>5. ASSUME restarts' = 0, NEW q \in Readers, NEW d \in Chunks,
                 reading'[q][d] + finished'[q][d] # 0
          PROVE  \E k \in AllLocks' : k.chunk = d
      <4>1. CASE d = c
        BY <3>1, <3>2, <4>1
      <4>2. CASE d # c
        BY <2>4, <3>2, <3>5, <4>2
      <4> QED
        BY <4>1, <4>2
    <3>6. HoldsInv'
      BY <3>4, <3>5 DEF HoldsInv
    <3>7. \A w \in Writes : ChunksOf(WaitsOn(w))' = ChunksOf(WaitsOn(w))
      BY <1>8, <3>1, <3>2 DEF WaitsOn, ChunksOf
    <3>8. \A w \in Writes : ChunksOf({k \in gone : w \in k.waits}) = {}
      BY <2>7 DEF ChunksOf
    <3>9. \A k \in AllLocks' : \E l \in AllLocks :
            /\ k.chunk = l.chunk /\ k.waits = l.waits
            /\ \A q \in Readers : k.holds[q] # 0 => l.holds[q] # 0
      <4>1. \A q \in Readers : new.holds[q] # 0 => k0.holds[q] # 0
        BY <2>7, <3>1
      <4> QED
        BY <1>8, <3>1, <3>2, <4>1
    <3> QED
      BY <2>7, <3>6, <3>7, <3>8, <3>9 DEF Effect
  <2> QED
    BY <2>5, <2>6, <2>7
<1> HIDE DEF Effect
<1>9. Effect
  BY <1>2, <1>7, <1>8
<1>10. /\ PendingInv'
       /\ holdcount' \in [Writes -> Nat]
       /\ write' \in [Writes -> {"idle", "queued", "waiting", "granted"}]
       /\ asked' = asked
       /\ Asking' \subseteq Asking
  <2>1. restarts' = restarts
    BY <1>1
  <2> QED
    BY <1>1, <1>2, <1>9, <2>1, WakeKeeps DEF Effect
<1>11. RestTyped'
  BY <1>1, <1>6, <1>10 DEF RestTyped
<1>12. ExceptedInv' /\ FlushInv'
  BY <1>1, <1>10 DEF ExceptedInv, FlushInv
<1>13. WaitingInv'
  BY <1>1, <1>9, <1>10 DEF WaitingInv, Effect
<1> QED
  BY <1>0, <1>9, <1>10, <1>11, <1>12, <1>13 DEF IInv, Effect

\* A reader goes with its holds and its reads; the waits on the locks that
\* nobody else holds go too.
LEMMA DisconnectReaderStep ==
    ASSUME IInv, NEW r \in Readers, DisconnectReader(r)
    PROVE  IInv'
<1> DEFINE gone == {k \in AllLocks : ~Stays(k, r)}
<1>1. /\ RestTyped /\ ChainInv /\ HoldsInv /\ PendingInv
      /\ ExceptedInv /\ WaitingInv /\ FlushInv
      /\ connected' = connected \ {r}
      /\ FreeClientLocks(r)
      /\ reading' = [reading EXCEPT ![r] = [c \in Chunks |-> 0]]
      /\ finished' = [finished EXCEPT ![r] = [c \in Chunks |-> 0]]
      /\ UNCHANGED <<excepted, unflushed, restarts>>
  BY DEF IInv, DisconnectReader
<1>2. Wake(gone)
  BY <1>1 DEF FreeClientLocks
<1>3. /\ ChainInv'
      /\ AllLocks' = {Left(k, r) : k \in {l \in AllLocks : Stays(l, r)}}
  BY <1>1, FreeEffect
<1>4. LockSet(AllLocks)
  BY <1>1, AllLocksSet
<1>5. \A k \in AllLocks : /\ k \in Lock /\ k.chunk \in Chunks
                          /\ \A q \in Readers : k.holds[q] \in Nat
  BY <1>4, LockFields DEF LockSet
<1>6. \A q \in Readers, d \in Chunks :
        /\ reading'[q][d] = IF q = r THEN 0 ELSE reading[q][d]
        /\ finished'[q][d] = IF q = r THEN 0 ELSE finished[q][d]
        /\ reading[q][d] \in Nat /\ finished[q][d] \in Nat
  BY <1>1 DEF RestTyped
<1>7. \A k \in AllLocks : /\ Left(k, r) \in Lock
                          /\ Left(k, r).chunk = k.chunk /\ Left(k, r).waits = k.waits
                          /\ \A q \in Readers : Left(k, r).holds[q] = IF q = r THEN 0 ELSE k.holds[q]
  BY <1>5, LeftIs
<1>8. HoldsInv'
  <2>1. ASSUME NEW k \in AllLocks', NEW q \in Readers
        PROVE  /\ k.holds[q] <= reading'[q][k.chunk] + finished'[q][k.chunk]
               /\ restarts' = 0 => k.holds[q] = reading'[q][k.chunk] + finished'[q][k.chunk]
    <3>1. PICK l \in AllLocks : k = Left(l, r)
      BY <1>3
    <3>2. k.chunk = l.chunk /\ l.chunk \in Chunks /\ k.holds[q] = IF q = r THEN 0 ELSE l.holds[q]
      BY <1>5, <1>7, <3>1
    <3>3. /\ l.holds[q] <= reading[q][l.chunk] + finished[q][l.chunk]
          /\ restarts = 0 => l.holds[q] = reading[q][l.chunk] + finished[q][l.chunk]
      BY <1>1 DEF HoldsInv
    <3> QED
      BY <1>1, <1>6, <3>2, <3>3
  <2>2. ASSUME restarts' = 0, NEW q \in Readers, NEW d \in Chunks,
               reading'[q][d] + finished'[q][d] # 0
        PROVE  \E k \in AllLocks' : k.chunk = d
    <3>1. q # r /\ reading[q][d] + finished[q][d] # 0
      BY <1>6, <2>2
    <3>2. PICK l \in AllLocks : l.chunk = d
      BY <1>1, <2>2, <3>1 DEF HoldsInv
    <3>3. l.holds[q] # 0
      BY <1>1, <2>2, <3>1, <3>2 DEF HoldsInv
    <3>4. Left(l, r) \in Lock /\ Left(l, r).holds[q] # 0 /\ Left(l, r).chunk = d
      BY <1>7, <3>1, <3>2, <3>3
    <3>5. Stays(l, r)
      BY <3>4, HeldIs DEF Stays
    <3> QED
      BY <1>3, <3>4, <3>5
  <2> QED
    BY <2>1, <2>2 DEF HoldsInv
<1>9. ASSUME NEW w \in Writes
      PROVE  ChunksOf(WaitsOn(w))' = ChunksOf(WaitsOn(w)) \ ChunksOf({k \in gone : w \in k.waits})
  <2>1. ASSUME NEW c \in ChunksOf(WaitsOn(w))'
        PROVE  c \in ChunksOf(WaitsOn(w)) \ ChunksOf({k \in gone : w \in k.waits})
    <3>1. PICK k \in AllLocks' : w \in k.waits /\ k.chunk = c
      BY DEF WaitsOn, ChunksOf
    <3>2. PICK l \in AllLocks : Stays(l, r) /\ k = Left(l, r)
      BY <1>3
    <3>3. l.chunk = c /\ w \in l.waits
      BY <1>7, <3>1, <3>2
    <3>4. \A m \in gone : m.chunk # c
      BY <1>4, <3>2, <3>3 DEF LockSet
    <3> QED
      BY <3>3, <3>4 DEF WaitsOn, ChunksOf
  <2>2. ASSUME NEW c \in ChunksOf(WaitsOn(w)), c \notin ChunksOf({k \in gone : w \in k.waits})
        PROVE  c \in ChunksOf(WaitsOn(w))'
    <3>1. PICK l \in AllLocks : w \in l.waits /\ l.chunk = c
      BY DEF WaitsOn, ChunksOf
    <3>2. Stays(l, r)
      BY <2>2, <3>1 DEF ChunksOf
    <3>3. Left(l, r) \in AllLocks'
      BY <1>3, <3>2
    <3>4. w \in Left(l, r).waits /\ Left(l, r).chunk = c
      BY <1>7, <3>1
    <3> QED
      BY <3>3, <3>4 DEF WaitsOn, ChunksOf
  <2> QED
    BY <2>1, <2>2
<1>10. /\ PendingInv'
       /\ holdcount' \in [Writes -> Nat]
       /\ write' \in [Writes -> {"idle", "queued", "waiting", "granted"}]
       /\ asked' = asked
       /\ Asking' \subseteq Asking
  <2>1. restarts' = restarts /\ gone \in SUBSET AllLocks
    BY <1>1
  <2> HIDE DEF gone
  <2> QED
    BY <1>1, <1>2, <1>9, <2>1, WakeKeeps
<1>11. RestTyped'
  BY <1>1, <1>10 DEF RestTyped
<1>12. ExceptedInv' /\ WaitingInv' /\ FlushInv'
  <2>1. \A k \in AllLocks' : \E l \in AllLocks :
          /\ k.chunk = l.chunk /\ k.waits = l.waits
          /\ \A q \in Readers : k.holds[q] # 0 => l.holds[q] # 0
    BY <1>3, <1>7
  <2>2. WaitingInv'
    BY <1>1, <1>10, <2>1 DEF WaitingInv
  <2>3. ExceptedInv'
    BY <1>1, <1>10 DEF ExceptedInv
  <2>4. FlushInv'
    BY <1>1, <1>6 DEF FlushInv
  <2> QED
    BY <2>2, <2>3, <2>4
<1> QED
  BY <1>3, <1>8, <1>10, <1>11, <1>12 DEF IInv

\* A write request puts its waits and all snapshots get their exceptions.
LEMMA QueryOriginWriteStep ==
    ASSUME IInv, NEW w \in Writes, QueryOriginWrite(w)
    PROVE  IInv'
<1> DEFINE held == {c \in asked[w] : Locked(c)}
<1>1. /\ RestTyped /\ ChainInv /\ HoldsInv /\ PendingInv
      /\ ExceptedInv /\ WaitingInv /\ FlushInv
      /\ write[w] = "queued"
      /\ excepted' = [r \in Readers |-> excepted[r] \union asked[w]]
      /\ holdcount' = [holdcount EXCEPT ![w] = Cardinality(held)]
      /\ write' = [write EXCEPT ![w] = IF held = {} THEN "granted" ELSE "waiting"]
      /\ UNCHANGED <<asked, connected, reading, finished, unflushed, restarts>>
  BY DEF IInv, QueryOriginWrite
<1>2. ChainInv' /\ AllLocks' = {Awaited(k, held, w) : k \in AllLocks}
  <2>1. locks' = [b \in Buckets |-> [i \in DOMAIN locks[b] |-> Awaited(locks[b][i], held, w)]]
    BY DEF QueryOriginWrite, Awaited
  <2> HIDE DEF held
  <2> QED
    BY <1>1, <2>1, WaitEffect
<1>3. LockSet(AllLocks)
  BY <1>1, AllLocksSet
<1>4. \A k \in AllLocks :
        /\ k \in Lock /\ k.chunk \in Chunks
        /\ Awaited(k, held, w).chunk = k.chunk
        /\ Awaited(k, held, w).holds = k.holds
        /\ \A v : v \in Awaited(k, held, w).waits
                    <=> v \in k.waits \/ (v = w /\ k.chunk \in held)
  <2> HIDE DEF held
  <2>1. \A k \in AllLocks : k \in Lock
    BY <1>3 DEF LockSet
  <2> QED
    BY <2>1, LockFields, AwaitedIs
<1>5. asked[w] \subseteq Chunks
  BY <1>1, LocksAssumption DEF RestTyped
<1>6. \A c \in held : \E k \in AllLocks : k.chunk = c
  BY <1>1, <1>5, LockedIs
<1>7. IsFiniteSet(held) /\ Cardinality(held) \in Nat
  BY <1>5, ChunksAssumption, FS_Subset, FS_CardinalityType
<1>8. ChunksOf(WaitsOn(w)) = {}
  BY <1>1 DEF PendingInv
<1>9. ChunksOf(WaitsOn(w))' = held
  <2>1. ASSUME NEW c \in ChunksOf(WaitsOn(w))'
        PROVE  c \in held
    <3>1. PICK k \in AllLocks' : w \in k.waits /\ k.chunk = c
      BY DEF WaitsOn, ChunksOf
    <3>2. PICK l \in AllLocks : k = Awaited(l, held, w)
      BY <1>2
    <3>3. l.chunk = c /\ (w \in l.waits \/ c \in held)
      BY <1>4, <3>1, <3>2
    <3>4. w \notin l.waits
      BY <1>8 DEF WaitsOn, ChunksOf
    <3> QED
      BY <3>3, <3>4
  <2>2. ASSUME NEW c \in held
        PROVE  c \in ChunksOf(WaitsOn(w))'
    <3>1. PICK k \in AllLocks : k.chunk = c
      BY <1>6
    <3>2. Awaited(k, held, w) \in AllLocks'
      BY <1>2
    <3>3. w \in Awaited(k, held, w).waits /\ Awaited(k, held, w).chunk = c
      BY <1>4, <3>1
    <3> QED
      BY <3>2, <3>3 DEF WaitsOn, ChunksOf
  <2> QED
    BY <2>1, <2>2
<1>10. ASSUME NEW v \in Writes, v # w
       PROVE  ChunksOf(WaitsOn(v))' = ChunksOf(WaitsOn(v))
  <2>1. ASSUME NEW c \in ChunksOf(WaitsOn(v))'
        PROVE  c \in ChunksOf(WaitsOn(v))
    <3>1. PICK k \in AllLocks' : v \in k.waits /\ k.chunk = c
      BY DEF WaitsOn, ChunksOf
    <3>2. PICK l \in AllLocks : k = Awaited(l, held, w)
      BY <1>2
    <3>3. l.chunk = c /\ v \in l.waits
      BY <1>4, <1>10, <3>1, <3>2
    <3> QED
      BY <3>3 DEF WaitsOn, ChunksOf
  <2>2. ASSUME NEW c \in ChunksOf(WaitsOn(v))
        PROVE  c \in ChunksOf(WaitsOn(v))'
    <3>1. PICK k \in AllLocks : v \in k.waits /\ k.chunk = c
      BY DEF WaitsOn, ChunksOf
    <3>2. Awaited(k, held, w) \in AllLocks'
      BY <1>2
    <3>3. v \in Awaited(k, held, w).waits /\ Awaited(k, held, w).chunk = c
      BY <1>4, <3>1
    <3> QED
      BY <3>2, <3>3 DEF WaitsOn, ChunksOf
  <2> QED
    BY <2>1, <2>2
<1> HIDE DEF held
<1>11. RestTyped'
  <2>1. holdcount' \in [Writes -> Nat]
    BY <1>1, <1>7 DEF RestTyped
  <2>2. write' \in [Writes -> {"idle", "queued", "waiting", "granted"}]
    BY <1>1 DEF RestTyped
  <2>3. excepted' \in [Readers -> SUBSET Chunks]
    BY <1>1, <1>5 DEF RestTyped
  <2> QED
    BY <1>1, <2>1, <2>2, <2>3 DEF RestTyped
<1>12. HoldsInv'
  <2>1. \A k \in AllLocks' : \E l \in AllLocks : k.chunk = l.chunk /\ k.holds = l.holds
    BY <1>2, <1>4
  <2>2. \A l \in AllLocks : \E k \in AllLocks' : k.chunk = l.chunk
    BY <1>2, <1>4
  <2>3. ASSUME NEW k \in AllLocks', NEW q \in Readers
        PROVE  /\ k.holds[q] <= reading'[q][k.chunk] + finished'[q][k.chunk]
               /\ restarts' = 0 => k.holds[q] = reading'[q][k.chunk] + finished'[q][k.chunk]
    BY <1>1, <2>1 DEF HoldsInv
  <2>4. ASSUME restarts' = 0, NEW q \in Readers, NEW d \in Chunks,
               reading'[q][d] + finished'[q][d] # 0
        PROVE  \E k \in AllLocks' : k.chunk = d
    BY <1>1, <2>2, <2>4 DEF HoldsInv
  <2> QED
    BY <2>3, <2>4 DEF HoldsInv
<1>13. /\ \A v \in Writes : v # w => holdcount'[v] = holdcount[v] /\ write'[v] = write[v]
       /\ holdcount'[w] = Cardinality(held)
       /\ write'[w] = IF held = {} THEN "granted" ELSE "waiting"
  BY <1>1 DEF RestTyped
<1>14. PendingInv'
  <2>1. held \subseteq asked[w]
    BY DEF held
  <2>2. ASSUME NEW v \in Writes
        PROVE  /\ Cardinality(ChunksOf(WaitsOn(v))') <= holdcount'[v]
               /\ ChunksOf(WaitsOn(v))' # {} => write'[v] = "waiting"
               /\ ChunksOf(WaitsOn(v))' \subseteq asked'[v]
               /\ restarts' = 0 => /\ holdcount'[v] = Cardinality(ChunksOf(WaitsOn(v))')
                                   /\ write'[v] = "waiting" => ChunksOf(WaitsOn(v))' # {}
    <3>1. CASE v = w
      BY <1>1, <1>7, <1>9, <1>13, <2>1, <3>1
    <3>2. CASE v # w
      BY <1>1, <1>10, <1>13, <3>2 DEF PendingInv
    <3> QED
      BY <3>1, <3>2
  <2> QED
    BY <2>2 DEF PendingInv
<1>15. ExceptedInv' /\ WaitingInv' /\ FlushInv'
  <2>1. ExceptedInv'
    <3>1. ASSUME NEW v \in Asking', NEW q \in Readers
          PROVE  v \in unflushed'[q] \/ asked'[v] \subseteq excepted'[q]
      <4>1. v \in Writes /\ (v # w => v \in Asking)
        BY <1>13 DEF Asking
      <4> QED
        BY <1>1, <4>1 DEF ExceptedInv
    <3> QED
      BY <3>1 DEF ExceptedInv
  <2>2. WaitingInv'
    <3>1. ASSUME restarts' = 0, NEW v \in Asking', NEW k \in AllLocks', NEW q \in Readers,
                 k.chunk \in asked'[v], k.holds[q] # 0
          PROVE  v \in k.waits \/ v \in unflushed'[q]
      <4>1. PICK l \in AllLocks : k = Awaited(l, held, w)
        BY <1>2
      <4>2. /\ k.chunk = l.chunk /\ l.chunk \in Chunks /\ k.holds = l.holds
            /\ v \in k.waits <=> v \in l.waits \/ (v = w /\ l.chunk \in held)
        BY <1>4, <4>1
      <4>3. CASE v = w
        <5>1. l.chunk \in asked[w]
          BY <1>1, <3>1, <4>2, <4>3
        <5>2. Locked(l.chunk)
          BY <1>1, <4>2, LockedIs
        <5> QED
          BY <4>2, <4>3, <5>1, <5>2 DEF held
      <4>4. CASE v # w
        <5>1. v \in Asking
          BY <1>13, <4>4 DEF Asking
        <5> QED
          BY <1>1, <3>1, <4>2, <5>1 DEF WaitingInv
      <4> QED
        BY <4>3, <4>4
    <3> QED
      BY <3>1 DEF WaitingInv
  <2>3. FlushInv'
    BY <1>1 DEF FlushInv
  <2> QED
    BY <2>1, <2>2, <2>3
<1> QED
  BY <1>2, <1>11, <1>12, <1>14, <1>15 DEF IInv

\* Nothing happens to the locks and reads: the rest of the invariant stays.
LEMMA LocksAndReadsKept ==
    ASSUME IInv, UNCHANGED <<locks, reading, finished, restarts>>
    PROVE  ChainInv' /\ AllLocks' = AllLocks /\ HoldsInv' /\ \A w : WaitsOn(w)' = WaitsOn(w)
<1>1. ChainInv' /\ AllLocks' = AllLocks
  BY LocksKept DEF IInv
<1>2. HoldsInv'
  BY <1>1 DEF IInv, HoldsInv
<1>3. \A w : WaitsOn(w)' = WaitsOn(w)
  BY <1>1 DEF WaitsOn
<1> QED
  BY <1>1, <1>2, <1>3

\* A reader connects.
LEMMA ConnectReaderStep ==
    ASSUME IInv, NEW r \in Readers, ConnectReader(r)
    PROVE  IInv'
<1>1. /\ UNCHANGED <<lockVars, reading, finished, excepted, unflushed, restarts>>
      /\ connected' = connected \union {r}
      /\ r \in Flushed => unflushed[r] = {}
  BY DEF ConnectReader, FlushDone
<1>2. ChainInv' /\ AllLocks' = AllLocks /\ HoldsInv' /\ \A w : WaitsOn(w)' = WaitsOn(w)
  BY <1>1, LocksAndReadsKept DEF lockVars
<1>3. RestTyped'
  BY <1>1 DEF IInv, RestTyped, lockVars
<1>4. PendingInv'
  BY <1>1, <1>2 DEF IInv, PendingInv, ChunksOf, lockVars
<1>5. ExceptedInv' /\ WaitingInv'
  BY <1>1, <1>2 DEF IInv, ExceptedInv, WaitingInv, Asking, lockVars
<1>6. FlushInv'
  BY <1>1 DEF IInv, FlushInv
<1> QED
  BY <1>2, <1>3, <1>4, <1>5, <1>6 DEF IInv

\* A new snapshot has no exceptions: the requests handled and not yet
\* landed are noted for it. Its reader is yet to connect.
LEMMA CreateSnapshotStep ==
    ASSUME IInv, NEW r \in Readers, CreateSnapshot(r)
    PROVE  IInv'
<1>1. /\ UNCHANGED <<lockVars, connected, reading, finished, restarts>>
      /\ r \notin connected
      /\ excepted' = [excepted EXCEPT ![r] = {}]
      /\ unflushed' = [unflushed EXCEPT ![r] = Asking]
  BY DEF CreateSnapshot, Asking
<1>2. ChainInv' /\ AllLocks' = AllLocks /\ HoldsInv' /\ \A w : WaitsOn(w)' = WaitsOn(w)
  BY <1>1, LocksAndReadsKept DEF lockVars
<1>3. RestTyped'
  BY <1>1 DEF IInv, RestTyped, Asking, lockVars
<1>4. PendingInv'
  BY <1>1, <1>2 DEF IInv, PendingInv, ChunksOf, lockVars
<1>5. Asking' = Asking /\ asked' = asked
  BY <1>1 DEF Asking, lockVars
<1>6. \A w \in Asking, q \in Readers :
        /\ q # r => unflushed'[q] = unflushed[q] /\ excepted'[q] = excepted[q]
        /\ w \in unflushed'[r]
  BY <1>1 DEF IInv, RestTyped
<1>7. ExceptedInv'
  BY <1>5, <1>6 DEF IInv, ExceptedInv
<1>8. WaitingInv'
  BY <1>1, <1>2, <1>5, <1>6 DEF IInv, WaitingInv
<1>9. FlushInv'
  BY <1>1 DEF IInv, FlushInv, RestTyped
<1> QED
  BY <1>2, <1>3, <1>4, <1>7, <1>8, <1>9 DEF IInv

\* A write is issued: it has no waits yet.
LEMMA IssueWriteStep ==
    ASSUME IInv, NEW w \in Writes, NEW S \in Requests, IssueWrite(w, S)
    PROVE  IInv'
<1>1. /\ write[w] = "idle"
      /\ write' = [write EXCEPT ![w] = "queued"]
      /\ asked' = [asked EXCEPT ![w] = S]
      /\ UNCHANGED <<locks, holdcount, readVars, restarts>>
  BY DEF IssueWrite
<1>2. ChainInv' /\ AllLocks' = AllLocks /\ HoldsInv' /\ \A v : WaitsOn(v)' = WaitsOn(v)
  BY <1>1, LocksAndReadsKept DEF readVars
<1>3. RestTyped'
  BY <1>1 DEF IInv, RestTyped, readVars
<1>4. \A v \in Writes : /\ write'[v] = IF v = w THEN "queued" ELSE write[v]
                        /\ v # w => asked'[v] = asked[v]
  BY <1>1 DEF IInv, RestTyped
<1>5. ChunksOf(WaitsOn(w)) = {}
  BY <1>1 DEF IInv, PendingInv
<1>6. \A v \in Writes : ChunksOf(WaitsOn(v))' = ChunksOf(WaitsOn(v))
  BY <1>2 DEF ChunksOf
<1>7. PendingInv'
  BY <1>1, <1>4, <1>5, <1>6 DEF IInv, PendingInv
<1>8. \A v \in Asking' : v \in Asking /\ asked'[v] = asked[v]
  BY <1>4 DEF Asking
<1>9. ExceptedInv' /\ WaitingInv'
  BY <1>1, <1>2, <1>8 DEF IInv, ExceptedInv, WaitingInv, readVars
<1>10. FlushInv'
  BY <1>1 DEF IInv, FlushInv, readVars
<1> QED
  BY <1>2, <1>3, <1>7, <1>9, <1>10 DEF IInv

\* A write lands.
LEMMA WriteLandsStep ==
    ASSUME IInv, NEW w \in Writes, WriteLands(w)
    PROVE  IInv'
<1>1. /\ write[w] = "granted"
      /\ write' = [write EXCEPT ![w] = "idle"]
      /\ asked' = [asked EXCEPT ![w] = {}]
      /\ unflushed' = [r \in Readers |-> unflushed[r] \ {w}]
      /\ UNCHANGED <<locks, holdcount, connected, reading, finished, excepted, restarts>>
  BY DEF WriteLands
<1>2. ChainInv' /\ AllLocks' = AllLocks /\ HoldsInv' /\ \A v : WaitsOn(v)' = WaitsOn(v)
  BY <1>1, LocksAndReadsKept
<1>3. RestTyped'
  BY <1>1 DEF IInv, RestTyped
<1>4. \A v \in Writes : /\ write'[v] = IF v = w THEN "idle" ELSE write[v]
                        /\ v # w => asked'[v] = asked[v]
  BY <1>1 DEF IInv, RestTyped
<1>5. ChunksOf(WaitsOn(w)) = {}
  BY <1>1 DEF IInv, PendingInv
<1>6. \A v \in Writes : ChunksOf(WaitsOn(v))' = ChunksOf(WaitsOn(v))
  BY <1>2 DEF ChunksOf
<1>7. PendingInv'
  BY <1>1, <1>4, <1>5, <1>6 DEF IInv, PendingInv
<1>8. \A v \in Asking' : v \in Asking /\ asked'[v] = asked[v]
  BY <1>4 DEF Asking
<1>9. \A v \in Asking', q \in Readers : v \in unflushed[q] => v \in unflushed'[q]
  BY <1>1, <1>4 DEF Asking
<1>10. ExceptedInv'
  BY <1>1, <1>8, <1>9 DEF IInv, ExceptedInv
<1>11. WaitingInv'
  BY <1>1, <1>2, <1>8, <1>9 DEF IInv, WaitingInv
<1>12. FlushInv'
  BY <1>1 DEF IInv, FlushInv, RestTyped
<1> QED
  BY <1>2, <1>3, <1>7, <1>10, <1>11, <1>12 DEF IInv

\* A new server knows no locks; what was granted and kept its reply had its
\* exceptions before.
LEMMA RestartServerStep ==
    ASSUME IInv, RestartServer
    PROVE  IInv'
<1>1. /\ restarts < MaxRestarts
      /\ restarts' = restarts + 1
      /\ locks' = [b \in Buckets |-> <<>>]
      /\ holdcount' = [w \in Writes |-> 0]
      /\ finished' = [r \in Readers |-> [c \in Chunks |-> 0]]
      /\ UNCHANGED <<asked, connected, reading, excepted, unflushed>>
  BY DEF RestartServer
<1>2. PICK lost \in SUBSET {w \in Writes : write[w] = "granted"} :
         write' = [w \in Writes |->
                     IF w \in lost \/ write[w] = "waiting" THEN "queued" ELSE write[w]]
  BY DEF RestartServer
<1>3. ChainInv' /\ AllLocks' = {}
  BY <1>1, NoLocksEffect
<1>4. restarts' \in 0 .. MaxRestarts /\ restarts' # 0
  BY <1>1, LocksAssumption DEF IInv, RestTyped
<1>5. RestTyped'
  <2>1. write' \in [Writes -> {"idle", "queued", "waiting", "granted"}]
    BY <1>2 DEF IInv, RestTyped
  <2>2. finished' \in [Readers -> [Chunks -> Nat]] /\ holdcount' \in [Writes -> Nat]
    BY <1>1
  <2> QED
    BY <1>1, <1>4, <2>1, <2>2 DEF IInv, RestTyped
<1>6. HoldsInv'
  BY <1>3, <1>4 DEF HoldsInv
<1>7. \A w \in Writes : ChunksOf(WaitsOn(w))' = {}
  BY <1>3 DEF WaitsOn, ChunksOf
<1>8. PendingInv'
  <2>1. \A w \in Writes : Cardinality(ChunksOf(WaitsOn(w))') = 0 /\ holdcount'[w] = 0
    BY <1>1, <1>7, FS_EmptySet
  <2> QED
    BY <1>4, <1>7, <2>1 DEF PendingInv
<1>9. Asking' \subseteq Asking
  BY <1>2 DEF Asking
<1>10. ExceptedInv' /\ WaitingInv'
  BY <1>1, <1>4, <1>9 DEF IInv, ExceptedInv, WaitingInv
<1>11. FlushInv'
  BY <1>1 DEF IInv, FlushInv
<1> QED
  BY <1>3, <1>5, <1>6, <1>8, <1>10, <1>11 DEF IInv

\* The inductive invariant holds at first.
LEMMA InitIInv == Init => IInv
<1> SUFFICES ASSUME Init PROVE IInv
  OBVIOUS
<1>1. RestTyped
  BY LocksAssumption DEF Init, RestTyped
<1>2. ChainInv
  <2>1. \A b \in Buckets : locks[b] = <<>> /\ ChainOK(<<>>, b)
    BY DEF Init, ChainOK
  <2> QED
    BY <2>1 DEF Init, ChainInv
<1>3. AllLocks = {}
  BY DEF Init, AllLocks
<1>4. HoldsInv
  BY <1>3 DEF Init, HoldsInv
<1>5. \A w \in Writes : ChunksOf(WaitsOn(w)) = {}
  BY <1>3 DEF WaitsOn, ChunksOf
<1>6. PendingInv
  <2>1. \A w \in Writes : /\ Cardinality(ChunksOf(WaitsOn(w))) = 0 /\ holdcount[w] = 0
                          /\ write[w] = "idle"
    BY <1>5, FS_EmptySet DEF Init
  <2> QED
    BY <1>5, <2>1 DEF PendingInv
<1>7. ExceptedInv /\ WaitingInv
  <2>1. Asking = {}
    BY DEF Init, Asking
  <2> QED
    BY <2>1 DEF ExceptedInv, WaitingInv
<1>8. FlushInv
  BY DEF Init, FlushInv
<1> QED
  BY <1>1, <1>2, <1>4, <1>6, <1>7, <1>8 DEF IInv

\* Every step keeps the inductive invariant.
LEMMA NextIInv == IInv /\ [Next]_vars => IInv'
<1> SUFFICES ASSUME IInv, [Next]_vars PROVE IInv'
  OBVIOUS
<1>1. ASSUME NEW r \in Readers, NEW c \in Chunks, QuerySnapshotRead(r, c) PROVE IInv'
  BY <1>1, QuerySnapshotReadStep
<1>2. ASSUME NEW r \in Readers, NEW c \in Chunks, EndRead(r, c) PROVE IInv'
  BY <1>2, EndReadStep
<1>3. ASSUME NEW r \in Readers, NEW c \in Chunks, FinishSnapshotRead(r, c) PROVE IInv'
  BY <1>3, FinishSnapshotReadStep
<1>4. ASSUME NEW r \in Readers, ConnectReader(r) PROVE IInv'
  BY <1>4, ConnectReaderStep
<1>5. ASSUME NEW r \in Readers, DisconnectReader(r) PROVE IInv'
  BY <1>5, DisconnectReaderStep
<1>6. ASSUME NEW r \in Readers, CreateSnapshot(r) PROVE IInv'
  BY <1>6, CreateSnapshotStep
<1>7. ASSUME NEW w \in Writes, NEW S \in Requests, IssueWrite(w, S) PROVE IInv'
  BY <1>7, IssueWriteStep
<1>8. ASSUME NEW w \in Writes, QueryOriginWrite(w) PROVE IInv'
  BY <1>8, QueryOriginWriteStep
<1>9. ASSUME NEW w \in Writes, WriteLands(w) PROVE IInv'
  BY <1>9, WriteLandsStep
<1>10. CASE RestartServer
  BY <1>10, RestartServerStep
<1>11. CASE UNCHANGED vars
  <2>1. ChainInv' /\ AllLocks' = AllLocks /\ HoldsInv' /\ \A w : WaitsOn(w)' = WaitsOn(w)
    BY <1>11, LocksAndReadsKept DEF vars
  <2>2. RestTyped'
    BY <1>11 DEF IInv, RestTyped, vars
  <2>3. PendingInv'
    BY <1>11, <2>1 DEF IInv, PendingInv, ChunksOf, vars
  <2>4. ExceptedInv' /\ WaitingInv'
    BY <1>11, <2>1 DEF IInv, ExceptedInv, WaitingInv, Asking, vars
  <2>5. FlushInv'
    BY <1>11 DEF IInv, FlushInv, vars
  <2> QED
    BY <2>1, <2>2, <2>3, <2>4, <2>5 DEF IInv
<1> QED
  BY <1>1, <1>2, <1>3, <1>4, <1>5, <1>6, <1>7, <1>8, <1>9, <1>10, <1>11 DEF Next

-----------------------------------------------------------------------------
(* Theorems. *)

\* The inductive invariant holds in every reachable state.
THEOREM LocksIInv == Spec => []IInv
<1>1. Init => IInv
  BY InitIInv
<1>2. IInv /\ [Next]_vars => IInv'
  BY NextIInv
<1> QED
  BY <1>1, <1>2, PTL DEF Spec

\* Every variable keeps its type.
THEOREM LocksTyped == Spec => []LocksTypeOK
<1>1. IInv => LocksTypeOK
  <2> SUFFICES ASSUME IInv PROVE LocksTypeOK
    OBVIOUS
  <2>1. \A b \in Buckets : locks[b] \in Seq(Lock)
    BY DEF IInv, ChainInv, ChainOK
  <2>2. locks \in [Buckets -> Seq(Lock)]
    BY <2>1 DEF IInv, ChainInv
  <2> QED
    BY <2>2 DEF IInv, RestTyped, LocksTypeOK
<1> QED
  BY <1>1, LocksIInv, PTL

\* A chunk has one lock at most, in its bucket, and every lock has a holder:
\* release_chunk and client_locks leave none behind.
THEOREM ChainsStaySound == Spec => []ChainsSound
<1>1. IInv => ChainsSound
  BY DEF IInv, ChainInv, ChainOK, ChainsSound
<1> QED
  BY <1>1, LocksIInv, PTL

\* No hold outlives its read, and until a restart every read has its hold.
THEOREM EveryReadHolds == Spec => []HoldsMatchReads
<1>1. IInv => HoldsMatchReads
  <2> SUFFICES ASSUME IInv, NEW r \in Readers, NEW c \in Chunks
               PROVE  LET under == {k \in AllLocks : k.chunk = c}
                          holds == IF under = {} THEN 0 ELSE (CHOOSE k \in under : TRUE).holds[r]
                      IN  /\ holds <= reading[r][c] + finished[r][c]
                          /\ restarts = 0 => holds = reading[r][c] + finished[r][c]
    BY DEF HoldsMatchReads
  <2> DEFINE under == {k \in AllLocks : k.chunk = c}
  <2>1. HoldsInv /\ reading[r][c] \in Nat /\ finished[r][c] \in Nat
    BY DEF IInv, RestTyped
  <2>2. CASE under = {}
    <3>1. restarts = 0 => reading[r][c] + finished[r][c] = 0
      BY <2>1, <2>2 DEF HoldsInv
    <3> QED
      BY <2>1, <2>2, <3>1
  <2>3. CASE under # {}
    <3> DEFINE k == CHOOSE k \in under : TRUE
    <3>1. k \in AllLocks /\ k.chunk = c
      BY <2>3
    <3> HIDE DEF k
    <3>2. /\ k.holds[r] <= reading[r][c] + finished[r][c]
          /\ restarts = 0 => k.holds[r] = reading[r][c] + finished[r][c]
      BY <2>1, <3>1 DEF HoldsInv
    <3> QED
      BY <2>3, <3>2 DEF k
  <2> QED
    BY <2>2, <2>3
<1> QED
  BY <1>1, LocksIInv, PTL

\* The waits of a request are on locks of its chunks, it is pending while it has
\* any, and its hold count covers them, exactly so until a restart: it is
\* answered once, with the last of them.
THEOREM WaitsCounted == Spec => []PendingCounted
<1>1. IInv => PendingCounted
  <2> SUFFICES ASSUME IInv, NEW w \in Writes
               PROVE  /\ Cardinality(WaitsOn(w)) <= holdcount[w]
                      /\ WaitsOn(w) # {} => write[w] = "waiting"
                      /\ \A k \in WaitsOn(w) : k.chunk \in asked[w]
                      /\ restarts = 0 => /\ holdcount[w] = Cardinality(WaitsOn(w))
                                         /\ write[w] = "waiting" => WaitsOn(w) # {}
    BY DEF PendingCounted, WaitsOn
  <2>1. Cardinality(WaitsOn(w)) = Cardinality(ChunksOf(WaitsOn(w)))
    <3>1. WaitsOn(w) \in SUBSET AllLocks
      BY DEF WaitsOn
    <3> QED
      BY <3>1, AllLocksSet, CountByChunk DEF IInv
  <2>2. /\ WaitsOn(w) # {} <=> ChunksOf(WaitsOn(w)) # {}
        /\ \A k \in WaitsOn(w) : k.chunk \in ChunksOf(WaitsOn(w))
    BY DEF ChunksOf
  <2> QED
    BY <2>1, <2>2 DEF IInv, PendingInv
<1> QED
  BY <1>1, LocksIInv, PTL

\* No read of a chunk goes on while a write of it is let through, unless the
\* write was handled before the reader's snapshot was created.
LEMMA ReadsRace ==
    ASSUME IInv, restarts = 0, NEW w \in Writes, NEW r \in Readers,
           write[w] = "granted", NEW c \in asked[w], reading[r][c] # 0
    PROVE  w \in unflushed[r]
<1>1. c \in Chunks
  BY LocksAssumption DEF IInv, RestTyped
<1>2. reading[r][c] + finished[r][c] # 0
  BY <1>1 DEF IInv, RestTyped
<1>3. PICK k \in AllLocks : k.chunk = c
  BY <1>1, <1>2 DEF IInv, HoldsInv
<1>4. k.holds[r] # 0
  BY <1>2, <1>3 DEF IInv, HoldsInv
<1>5. w \in k.waits => ChunksOf(WaitsOn(w)) # {}
  BY <1>3 DEF WaitsOn, ChunksOf
<1>6. w \notin k.waits
  BY <1>5 DEF IInv, PendingInv
<1> QED
  BY <1>3, <1>4, <1>6 DEF IInv, WaitingInv, Asking

\* The locks and exceptions keep every write that came after a reader's snapshot
\* away from the chunks the reader reads, until the server restarts: only writes
\* handled and not landed when a snapshot was created can meet its reads, and
\* only if the origin is not flushed before the snapshot is used.
THEOREM OnlyUnflushedRace == Spec => []ReadsExcludeWrites
<1>1. IInv => ReadsExcludeWrites
  <2> SUFFICES ASSUME IInv, restarts = 0, NEW w \in Writes, NEW r \in Readers,
                      write[w] = "granted", NEW c \in asked[w], reading[r][c] # 0
               PROVE  w \in unflushed[r] /\ r \notin Flushed
    BY DEF ReadsExcludeWrites
  <2>1. c \in Chunks
    BY LocksAssumption DEF IInv, RestTyped
  <2>2. w \in unflushed[r]
    BY ReadsRace
  <2>3. r \in connected
    BY <2>1 DEF IInv, FlushInv
  <2> QED
    BY <2>2, <2>3 DEF IInv, FlushInv
<1> QED
  BY <1>1, LocksIInv, PTL
==============================================================================
