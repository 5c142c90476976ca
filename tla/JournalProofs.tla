---------------------------- MODULE JournalProofs ----------------------------
(***************************************************************************)
(* Proofs about the metadata journal, for any ring, any number of blocks   *)
(* and transactions of any size that leaves room for a commit block: the   *)
(* scan of replay_journal finds one newest commit, the last one written;   *)
(* and up to the first replay the journal and the home locations hold its  *)
(* content until the next transaction comes round to its data blocks.      *)
(***************************************************************************)
EXTENDS Journal, FiniteSetTheorems, SequenceTheorems, TLAPS

\* The slot before p.
Before(p) == IF p = 0 THEN JournalSize - 1 ELSE p - 1

IsNewest(p) == p \in Commits /\ journal[p].sequence = sequence - 1

\* A younger commit has a higher sequence number.
AgesOrdered ==
    \A p, q \in Commits : Age(p) < Age(q) <=> journal[q].sequence < journal[p].sequence

\* The numbers of the commits in the ring have no gap below the newest.
NumbersDense ==
    /\ \A p \in Commits : journal[p].sequence < sequence
    /\ \A p \in Commits : journal[p].sequence < sequence - 1 =>
            \E q \in Commits : journal[q].sequence = journal[p].sequence + 1
    /\ \E o \in Commits : \A q \in Commits : journal[o].sequence <= journal[q].sequence

\* The newest commit is as old as the part of a transaction that is logged.
NewestAge ==
    \E p \in Slot :
        /\ IsNewest(p)
        /\ phase = "journal" => Age(p) = logged
        /\ phase \in {"idle", "home"} => Age(p) = 0

PhaseInv ==
    /\ phase = "journal" => Len(dirty) > 0 /\ logged <= Len(dirty)
    /\ phase = "home" => Len(dirty) > 0
    /\ phase \in {"idle", "down"} => dirty = <<>>
    /\ phase = "down" => crashes > 0
    /\ Len(dirty) <= MaxTransaction

\* What precedes a commit block that names addresses is a data block.
DataBefore ==
    /\ \A p \in Commits : Len(journal[p].sector) <= MaxTransaction
    /\ \A p \in Slot : IsNewest(p) /\ Len(journal[p].sector) > 0 => journal[Before(p)].kind = "data"
    /\ phase = "journal" /\ logged > 0 => journal[Before(next)].kind = "data"

RingInv == AgesOrdered /\ NumbersDense /\ NewestAge /\ PhaseInv /\ DataBefore

IInv == JournalTypeOK /\ RingInv
-----------------------------------------------------------------------------
(* The ring. *)

LEMMA AgeRange ==
    ASSUME JournalAssumption, next \in Slot, NEW p \in Slot, NEW q \in Slot
    PROVE  /\ Age(p) \in 0 .. JournalSize - 1
           /\ Age(p) = Age(q) <=> p = q
           /\ Age(next) = JournalSize - 1
           /\ Before(p) \in Slot
    BY DEF JournalAssumption, Slot, Age, Before

\* What is in a slot.
LEMMA SlotTypes ==
    ASSUME JournalTypeOK, NEW p \in Slot
    PROVE  /\ p \in Commits <=> journal[p].kind = "commit"
           /\ p \in Commits <=> journal[p].kind # "data"
           /\ p \in Commits => /\ journal[p].sequence \in Nat
                               /\ journal[p].sector \in Seq(Blocks)
           /\ p \notin Commits => journal[p].content \in Content
    <1>1. journal[p] \in DataBlock \union CommitBlock
        BY DEF JournalTypeOK
    <1> QED BY <1>1 DEF DataBlock, CommitBlock, Commits

\* The least element of a set.
LEMMA MinIs ==
    ASSUME NEW S \in SUBSET Slot, NEW m \in S, \A x \in S : m <= x, JournalAssumption
    PROVE  Min(S) = m
    <1> DEFINE n == CHOOSE x \in S : \A y \in S : x <= y
    <1>1. n \in S /\ \A y \in S : n <= y
        OBVIOUS
    <1>2. Min(S) = n
        BY DEF Min
    <1> HIDE DEF n
    <1>3. n <= m /\ m <= n /\ n \in Int /\ m \in Int
        BY <1>1 DEF Slot, JournalAssumption
    <1> QED BY <1>2, <1>3

\* The commit after one that is not the newest has the next sequence number.
LEMMA Successor ==
    ASSUME JournalAssumption, IInv,
           NEW p \in Commits, NEW q \in Commits,
           journal[q].sequence = journal[p].sequence + 1
    PROVE  NextCommit(p) = q
    <1>1. p \in Slot /\ q \in Slot /\ Commits \subseteq Slot /\ next \in Slot
        BY DEF Commits, IInv, JournalTypeOK
    <1>2. \A r \in Commits : journal[r].sequence \in Nat
        BY SlotTypes, <1>1 DEF IInv
    <1>3. \A r \in Commits : Age(r) <= Age(q) \/ Age(p) <= Age(r)
        <2> SUFFICES ASSUME NEW r \in Commits, ~(Age(r) <= Age(q)), ~(Age(p) <= Age(r))
                     PROVE  FALSE
            OBVIOUS
        <2>1. Age(q) < Age(r) /\ Age(r) < Age(p)
            BY <1>1, AgeRange
        <2>2. journal[r].sequence < journal[q].sequence /\ journal[p].sequence < journal[r].sequence
            BY <2>1 DEF IInv, RingInv, AgesOrdered
        <2> QED BY <2>2, <1>2
    <1>4. Age(q) < Age(p)
        BY <1>2 DEF IInv, RingInv, AgesOrdered
    <1> DEFINE later == {r \in Commits : r > p}
    <1>5. CASE q > p
        <2>1. q \in later /\ later # {} /\ later \subseteq Slot
            BY <1>5, <1>1
        <2>2. \A r \in later : q <= r
            BY <1>1, <1>3, <1>4, <1>5 DEF Age, Slot, JournalAssumption
        <2>3. Min(later) = q
            BY <2>1, <2>2, MinIs
        <2> QED BY <2>1, <2>3 DEF NextCommit
    <1>6. CASE ~(q > p)
        <2>1. later = {}
            <3> SUFFICES ASSUME NEW r \in Commits, r > p
                         PROVE  FALSE
                OBVIOUS
            <3>1. r \in Slot /\ (Age(r) <= Age(q) \/ Age(p) <= Age(r))
                BY <1>1, <1>3
            <3> QED BY <1>1, <1>4, <1>6, <3>1 DEF Age, Slot, JournalAssumption
        <2>2. \A r \in Commits : q <= r
            BY <1>1, <1>3, <1>4, <1>6 DEF Age, Slot, JournalAssumption
        <2>3. Min(Commits) = q
            BY <1>1, <2>2, MinIs
        <2> QED BY <2>1, <2>3 DEF NextCommit
    <1> QED BY <1>5, <1>6

\* The commit after the newest is the oldest.
LEMMA AfterNewest ==
    ASSUME JournalAssumption, IInv, NEW p, IsNewest(p),
           NEW o \in Commits, \A q \in Commits : journal[o].sequence <= journal[q].sequence
    PROVE  NextCommit(p) = o
    <1>1. p \in Commits /\ p \in Slot /\ o \in Slot /\ Commits \subseteq Slot /\ next \in Slot
        BY DEF IsNewest, Commits, IInv, JournalTypeOK
    <1>2. \A r \in Commits : journal[r].sequence \in Nat
        BY SlotTypes, <1>1 DEF IInv
    <1>3. \A r \in Commits : Age(p) <= Age(r) /\ Age(r) <= Age(o)
        <2> TAKE r \in Commits
        <2>1. journal[r].sequence <= journal[p].sequence
            BY <1>1, <1>2 DEF IInv, RingInv, NumbersDense, IsNewest, JournalTypeOK
        <2>2. ~(journal[p].sequence < journal[r].sequence) /\ ~(journal[r].sequence < journal[o].sequence)
            BY <2>1, <1>1, <1>2
        <2>3. ~(Age(r) < Age(p)) /\ ~(Age(o) < Age(r))
            BY <1>1, <2>2 DEF IInv, RingInv, AgesOrdered
        <2> QED BY <1>1, <2>3, AgeRange
    <1> DEFINE later == {r \in Commits : r > p}
    <1>5. CASE o > p
        <2>1. o \in later /\ later # {} /\ later \subseteq Slot
            BY <1>5, <1>1
        <2>2. \A r \in later : o <= r
            BY <1>1, <1>3, <1>5 DEF Age, Slot, JournalAssumption
        <2>3. Min(later) = o
            BY <2>1, <2>2, MinIs
        <2> QED BY <2>1, <2>3 DEF NextCommit
    <1>6. CASE ~(o > p)
        <2>1. later = {}
            <3> SUFFICES ASSUME NEW r \in Commits, r > p
                         PROVE  FALSE
                OBVIOUS
            <3>1. r \in Slot /\ Age(p) <= Age(r) /\ Age(r) <= Age(o) /\ Age(p) <= Age(o)
                BY <1>1, <1>3
            <3> QED BY <1>1, <1>6, <3>1 DEF Age, Slot, JournalAssumption
        <2>2. \A r \in Commits : o <= r
            BY <1>1, <1>3, <1>6 DEF Age, Slot, JournalAssumption
        <2>3. Min(Commits) = o
            BY <1>1, <2>2, MinIs
        <2> QED BY <2>1, <2>3 DEF NextCommit
    <1> QED BY <1>5, <1>6

\* There is one newest commit, and the scan finds it.
LEMMA ScanFindsNewest ==
    ASSUME JournalAssumption, IInv
    PROVE  \E p \in Slot : IsNewest(p) /\ Gaps = {p} /\ Newest = p
    <1>1. PICK p \in Slot : IsNewest(p)
        BY DEF IInv, RingInv, NewestAge
    <1>2. \A r \in Commits : r \in Slot /\ journal[r].sequence \in Nat
        BY SlotTypes DEF IInv, Commits
    <1>3. sequence \in Nat /\ next \in Slot
        BY DEF IInv, JournalTypeOK
    <1>4. p \in Gaps
        <2>1. PICK o \in Commits : \A q \in Commits : journal[o].sequence <= journal[q].sequence
            BY DEF IInv, RingInv, NumbersDense
        <2>2. NextCommit(p) = o
            BY <1>1, <2>1, AfterNewest
        <2>3. journal[o].sequence < sequence
            BY DEF IInv, RingInv, NumbersDense
        <2>4. p \in Commits /\ journal[p].sequence + 1 = sequence
            BY <1>1, <1>2, <1>3 DEF IsNewest
        <2> QED BY <1>2, <1>3, <2>2, <2>3, <2>4 DEF Gaps
    <1>5. ASSUME NEW r \in Gaps
          PROVE  r = p
        <2>1. r \in Commits
            BY <1>5 DEF Gaps
        <2>2. CASE journal[r].sequence < sequence - 1
            <3>1. PICK q \in Commits : journal[q].sequence = journal[r].sequence + 1
                BY <2>1, <2>2 DEF IInv, RingInv, NumbersDense
            <3>2. NextCommit(r) = q
                BY <2>1, <3>1, Successor
            <3> QED BY <1>5, <3>1, <3>2 DEF Gaps
        <2>3. CASE ~(journal[r].sequence < sequence - 1)
            <3>1. journal[r].sequence < sequence
                BY <2>1 DEF IInv, RingInv, NumbersDense
            <3>2. journal[r].sequence = journal[p].sequence /\ p \in Commits
                BY <1>1, <1>2, <1>3, <2>1, <2>3, <3>1 DEF IsNewest
            <3>3. ~(Age(r) < Age(p)) /\ ~(Age(p) < Age(r))
                BY <2>1, <3>2, <1>2 DEF IInv, RingInv, AgesOrdered
            <3> QED BY <3>3, <1>2, <1>3, <2>1, AgeRange
        <2> QED BY <2>2, <2>3
    <1>6. Gaps = {p}
        BY <1>4, <1>5
    <1>7. Newest = p
        BY <1>6 DEF Newest
    <1> QED BY <1>1, <1>6, <1>7

-----------------------------------------------------------------------------
(* What the journal and the home locations hold, up to the first replay. *)

\* The slot of data block j of the transaction being logged.
LogSlot(j) ==
    LET at == next - logged + j - 1
    IN  IF at < 0 THEN at + JournalSize ELSE at

Holds(p, content) == journal[p].kind = "data" /\ journal[p].content = content

\* A buffer that is not dirty is what is on disk, and the data blocks of the
\* transaction are the content of its buffers.
LogInv ==
    /\ phase # "down" =>
           \A b \in Blocks : (\A i \in 1 .. Len(dirty) : dirty[i] # b) => home[b] = cache[b]
    /\ phase = "journal" => \A j \in 1 .. logged : Holds(LogSlot(j), cache[dirty[j]])
    /\ phase = "home" => cache = durable

\* The data blocks of the commit at p are there until they are overwritten, and
\* only the blocks it names may be missing at home.
Restores(p) ==
    LET addr == journal[p].sector
    IN  /\ Age(p) + Len(addr) < JournalSize =>
               \A j \in 1 .. Len(addr) : Holds(DataSlot(p, j), durable[addr[j]])
        /\ \A b \in Blocks : (\A j \in 1 .. Len(addr) : addr[j] # b) => home[b] = durable[b]
        /\ phase = "home" => \A i \in 1 .. Len(dirty) : \E j \in 1 .. Len(addr) : addr[j] = dirty[i]

CommitInv == \A p \in Slot : IsNewest(p) => Restores(p)

ContentInv == Unreplayed => LogInv /\ CommitInv

-----------------------------------------------------------------------------
(* Steps that write a block of the journal. *)

\* Writing the block at next makes every other slot one block older.
LEMMA RingStep ==
    ASSUME JournalAssumption, JournalTypeOK, NEW block,
           journal' = [journal EXCEPT ![next] = block],
           next' = NextJournalBlock(next)
    PROVE  /\ next \in Slot /\ next' \in Slot /\ Before(next') = next
           /\ journal'[next] = block
           /\ Age(next) = JournalSize - 1
           /\ \A p \in Slot : p = next => Age(p)' = 0
           /\ \A p \in Slot : p # next => journal'[p] = journal[p] /\ Age(p)' = Age(p) + 1
           /\ \A p \in Slot : Age(p) \in 0 .. JournalSize - 1 /\ Before(p) \in Slot
           /\ \A p \in Slot : JournalSize > 1 => Before(p) # p
    <1>1. next \in Slot /\ journal \in [Slot -> DataBlock \union CommitBlock]
        BY DEF JournalTypeOK
    <1>2. next' = IF next + 1 = JournalSize THEN 0 ELSE next + 1
        BY DEF NextJournalBlock
    <1>3. next' \in Slot /\ Before(next') = next
        BY <1>1, <1>2 DEF Slot, JournalAssumption, Before
    <1>4. journal'[next] = block /\ \A p \in Slot : p # next => journal'[p] = journal[p]
        BY <1>1
    <1>5. Age(next) = JournalSize - 1 /\ \A p \in Slot : p = next => Age(p)' = 0
        BY <1>1, <1>2 DEF Age, Slot, JournalAssumption
    <1>6. \A p \in Slot : p # next => Age(p)' = Age(p) + 1
        BY <1>1, <1>2 DEF Age, Slot, JournalAssumption
    <1>7. \A p \in Slot : Age(p) \in 0 .. JournalSize - 1 /\ Before(p) \in Slot
        BY <1>1, AgeRange
    <1>8. \A p \in Slot : JournalSize > 1 => Before(p) # p
        BY DEF Before, Slot, JournalAssumption
    <1> QED BY <1>1, <1>3, <1>4, <1>5, <1>6, <1>7, <1>8

\* A data block takes the place of the oldest block of the ring, which is not
\* the newest commit.
LEMMA DataStep ==
    ASSUME JournalAssumption, IInv, JournalData
    PROVE  IInv'
    <1> DEFINE block == [kind |-> "data", content |-> cache[dirty[logged + 1]]]
    <1>1. /\ phase = "journal" /\ phase' = phase /\ logged < Len(dirty) /\ logged' = logged + 1
          /\ journal' = [journal EXCEPT ![next] = block] /\ next' = NextJournalBlock(next)
          /\ UNCHANGED <<cache, dirty, home, sequence, count, crashes, durable>>
        BY DEF JournalData
    <1>2. JournalTypeOK /\ RingInv /\ sequence \in Nat /\ logged \in Nat
          /\ Len(dirty) \in Nat /\ Len(dirty) <= MaxTransaction
        <2>1. dirty \in Seq(Blocks)
            BY DEF IInv, JournalTypeOK
        <2> QED BY <2>1, LenProperties DEF IInv, JournalTypeOK, RingInv, PhaseInv, JournalAssumption
    <1>3. JournalSize \in Nat /\ MaxTransaction \in Nat /\ MaxTransaction < JournalSize
        BY DEF JournalAssumption
    <1>4. block.kind = "data" /\ block \in DataBlock
        <2>1. dirty \in Seq(Blocks) /\ logged + 1 \in 1 .. Len(dirty)
            BY <1>1, <1>2 DEF JournalTypeOK
        <2>2. cache[dirty[logged + 1]] \in Content
            BY <2>1, <1>2, ElementOfSeq DEF JournalTypeOK
        <2> QED BY <2>2 DEF DataBlock
    <1> HIDE DEF block
    <1>5. /\ next \in Slot /\ next' \in Slot /\ Before(next') = next
          /\ journal'[next] = block
          /\ Age(next) = JournalSize - 1
          /\ \A p \in Slot : p # next => journal'[p] = journal[p] /\ Age(p)' = Age(p) + 1
          /\ \A p \in Slot : Age(p) \in 0 .. JournalSize - 1 /\ Before(p) \in Slot
        BY <1>1, <1>2, RingStep
    <1>6. JournalTypeOK'
        <2>1. logged' \in 0 .. MaxTransaction
            BY <1>1, <1>2, <1>3
        <2> QED BY <2>1, <1>1, <1>2, <1>4, <1>5 DEF JournalTypeOK
    <1>7. \A p : p \in Commits' <=> p \in Commits /\ p # next
        BY <1>4, <1>5 DEF Commits
    <1>8. \A p \in Commits' : p \in Commits /\ p \in Slot /\ journal'[p] = journal[p]
                              /\ journal[p].sequence \in Nat
                              /\ Age(p)' = Age(p) + 1 /\ Age(p) \in Nat
        BY <1>2, <1>3, <1>5, <1>7, SlotTypes DEF Commits
    <1>9. AgesOrdered'
        BY <1>2, <1>8 DEF AgesOrdered, RingInv
    <1>10. PICK p0 \in Slot : IsNewest(p0) /\ Age(p0) = logged
        BY <1>1, <1>2 DEF RingInv, NewestAge
    <1>11. p0 # next /\ IsNewest(p0)' /\ Age(p0)' = logged'
        <2>1. p0 # next
            BY <1>1, <1>2, <1>3, <1>5, <1>10
        <2> QED BY <2>1, <1>1, <1>5, <1>7, <1>10 DEF IsNewest
    <1>12. NewestAge'
        BY <1>1, <1>10, <1>11 DEF NewestAge
    <1>13. PhaseInv'
        BY <1>1, <1>2 DEF PhaseInv, RingInv
    <1>14. NumbersDense'
        <2>1. \A p \in Commits' : journal'[p].sequence < sequence'
            BY <1>1, <1>2, <1>8 DEF RingInv, NumbersDense
        <2>2. ASSUME NEW p \in Commits', journal'[p].sequence < sequence' - 1
              PROVE  \E q \in Commits' : journal'[q].sequence = journal'[p].sequence + 1
            <3>1. PICK q \in Commits : journal[q].sequence = journal[p].sequence + 1
                BY <1>1, <1>2, <1>8, <2>2 DEF RingInv, NumbersDense
            <3>2. Age(q) < Age(p)
                BY <1>2, <1>8, <3>1 DEF RingInv, AgesOrdered
            <3>3. q # next
                BY <3>2, <1>3, <1>5, <1>8
            <3> QED BY <3>1, <3>3, <1>7, <1>8
        <2>3. \E o \in Commits' : \A q \in Commits' : journal'[o].sequence <= journal'[q].sequence
            <3>1. PICK o \in Commits : \A q \in Commits : journal[o].sequence <= journal[q].sequence
                BY <1>2 DEF RingInv, NumbersDense
            <3>2. CASE o # next
                BY <3>1, <3>2, <1>7, <1>8
            <3>3. CASE o = next
                <4>1. journal[o].sequence \in Nat /\ o \in Slot
                    BY <1>2, SlotTypes DEF Commits
                <4>2. journal[o].sequence # sequence - 1
                    <5>1. p0 \in Commits /\ Age(p0) < Age(o)
                        BY <3>3, <1>1, <1>2, <1>3, <1>5, <1>10 DEF IsNewest
                    <5>2. journal[o].sequence < journal[p0].sequence
                        BY <5>1, <1>2 DEF RingInv, AgesOrdered
                    <5> QED BY <5>2, <1>10, <4>1, <1>2 DEF IsNewest
                <4>3. journal[o].sequence < sequence - 1
                    BY <4>1, <4>2, <1>2 DEF RingInv, NumbersDense
                <4>4. PICK n \in Commits : journal[n].sequence = journal[o].sequence + 1
                    BY <4>3, <1>2 DEF RingInv, NumbersDense
                <4>5. n \in Commits'
                    BY <4>1, <4>4, <3>3, <1>7
                <4>6. ASSUME NEW q \in Commits'
                      PROVE  journal'[n].sequence <= journal'[q].sequence
                    <5>1. q \in Commits /\ q # o /\ q \in Slot /\ journal[q].sequence \in Nat
                        BY <1>7, <1>8, <3>3, <4>6
                    <5>2. Age(q) # Age(o)
                        BY <5>1, <4>1, <1>5, AgeRange
                    <5>3. Age(q) < Age(o) \/ Age(o) < Age(q)
                        BY <5>1, <5>2, <4>1, <1>5, <1>3
                    <5>4. journal[q].sequence # journal[o].sequence
                        BY <5>1, <5>3, <4>1, <1>2 DEF RingInv, AgesOrdered
                    <5>5. journal[o].sequence <= journal[q].sequence
                        BY <3>1, <5>1
                    <5> QED BY <4>1, <4>4, <4>5, <4>6, <5>1, <5>4, <5>5, <1>8
                <4> QED BY <4>5, <4>6
            <3> QED BY <3>2, <3>3
        <2> QED BY <2>1, <2>2, <2>3 DEF NumbersDense
    <1>15. DataBefore'
        <2>1. \A p \in Commits' : Len(journal'[p].sector) <= MaxTransaction
            BY <1>2, <1>8 DEF RingInv, DataBefore
        <2>2. ASSUME NEW p \in Slot, IsNewest(p)', Len(journal'[p].sector) > 0
              PROVE  journal'[Before(p)].kind = "data"
            <3>1. p \in Commits' /\ IsNewest(p) /\ journal'[p] = journal[p]
                BY <2>2, <1>1, <1>8 DEF IsNewest
            <3>2. journal[Before(p)].kind = "data"
                BY <2>2, <3>1, <1>2 DEF RingInv, DataBefore
            <3> QED BY <3>2, <1>4, <1>5
        <2>3. journal'[Before(next')].kind = "data"
            BY <1>4, <1>5
        <2> QED BY <2>1, <2>2, <2>3 DEF DataBefore, Before
    <1> QED BY <1>6, <1>9, <1>12, <1>13, <1>14, <1>15 DEF IInv, RingInv

\* The commit block becomes the newest commit.
LEMMA CommitStep ==
    ASSUME JournalAssumption, IInv, JournalCommit
    PROVE  IInv' /\ next \in Slot /\ \A p \in Slot : IsNewest(p)' <=> p = next
    <1> DEFINE block == Committed
    <1>1. /\ phase = "journal" /\ phase' = "home" /\ logged = Len(dirty) /\ sequence' = sequence + 1
          /\ journal' = [journal EXCEPT ![next] = block] /\ next' = NextJournalBlock(next)
          /\ durable' = cache /\ UNCHANGED <<cache, dirty, logged, home, count, crashes>>
        BY DEF JournalCommit
    <1>2. JournalTypeOK /\ RingInv /\ sequence \in Nat /\ dirty \in Seq(Blocks)
          /\ Len(dirty) \in Nat /\ 0 < Len(dirty) /\ Len(dirty) <= MaxTransaction
        <2>1. dirty \in Seq(Blocks)
            BY DEF IInv, JournalTypeOK
        <2> QED BY <1>1, <2>1, LenProperties DEF IInv, JournalTypeOK, RingInv, PhaseInv
    <1>3. JournalSize \in Nat /\ JournalSize > 1
        BY DEF JournalAssumption
    <1>4. block.kind = "commit" /\ block.sequence = sequence /\ block.sector = dirty
          /\ block \in CommitBlock
        BY <1>2 DEF CommitBlock, Committed
    <1> HIDE DEF block
    <1>5. /\ next \in Slot /\ next' \in Slot
          /\ journal'[next] = block /\ Age(next) = JournalSize - 1
          /\ \A p \in Slot : p = next => Age(p)' = 0
          /\ \A p \in Slot : p # next => journal'[p] = journal[p] /\ Age(p)' = Age(p) + 1
          /\ \A p \in Slot : Age(p) \in 0 .. JournalSize - 1 /\ Before(p) \in Slot /\ Before(p) # p
        BY <1>1, <1>2, <1>3, RingStep
    <1>6. JournalTypeOK'
        BY <1>1, <1>2, <1>4, <1>5 DEF JournalTypeOK
    <1>7. \A p : p \in Commits' <=> p = next \/ p \in Commits
        BY <1>4, <1>5 DEF Commits
    <1>8. \A p \in Commits' : p # next =>
              /\ p \in Commits /\ p \in Slot /\ journal'[p] = journal[p]
              /\ journal[p].sequence \in Nat /\ journal[p].sequence < sequence
              /\ Age(p)' = Age(p) + 1 /\ Age(p) \in Nat
        <2>1. \A p \in Commits : p \in Slot /\ journal[p].sequence \in Nat /\ journal[p].sequence < sequence
            BY <1>2, SlotTypes DEF Commits, RingInv, NumbersDense
        <2> QED BY <2>1, <1>3, <1>5, <1>7
    <1>9. next \in Commits' /\ journal'[next].sequence = sequence
          /\ \A p \in Slot : p = next => Age(p)' = 0
        BY <1>4, <1>5, <1>7
    <1>10. AgesOrdered'
        <2> SUFFICES ASSUME NEW p \in Commits', NEW q \in Commits'
                     PROVE  Age(p)' < Age(q)' <=> journal'[q].sequence < journal'[p].sequence
            BY DEF AgesOrdered
        <2>1. CASE p # next /\ q # next
            BY <2>1, <1>2, <1>8 DEF AgesOrdered, RingInv
        <2>2. CASE p = next /\ q # next
            BY <2>2, <1>5, <1>8, <1>9
        <2>3. CASE q = next /\ p # next
            BY <2>3, <1>2, <1>5, <1>8, <1>9
        <2>4. CASE p = next /\ q = next
            BY <2>4, <1>2, <1>5, <1>9
        <2> QED BY <2>1, <2>2, <2>3, <2>4
    <1>11. \A p \in Slot : IsNewest(p)' <=> p = next
        BY <1>1, <1>2, <1>8, <1>9 DEF IsNewest
    <1>12. NewestAge'
        BY <1>1, <1>5, <1>11 DEF NewestAge
    <1>13. PhaseInv'
        BY <1>1, <1>2 DEF PhaseInv, RingInv
    <1>14. NumbersDense'
        <2>1. \A p \in Commits' : journal'[p].sequence < sequence'
            BY <1>1, <1>2, <1>8, <1>9
        <2>2. ASSUME NEW p \in Commits', journal'[p].sequence < sequence' - 1
              PROVE  \E q \in Commits' : journal'[q].sequence = journal'[p].sequence + 1
            <3>1. p # next /\ p \in Commits /\ journal'[p] = journal[p] /\ journal[p].sequence \in Nat
                  /\ journal[p].sequence < sequence
                BY <1>1, <1>2, <1>8, <1>9, <2>2
            <3>2. CASE journal[p].sequence = sequence - 1
                BY <3>1, <3>2, <1>2, <1>9
            <3>3. CASE journal[p].sequence < sequence - 1
                <4>1. PICK q \in Commits : journal[q].sequence = journal[p].sequence + 1
                    BY <1>2, <3>1, <3>3 DEF RingInv, NumbersDense
                <4>2. q # next
                    <5>1. p \in Slot /\ q \in Slot
                        BY <3>1, <4>1 DEF Commits
                    <5>2. Age(q) < Age(p)
                        <6>1. journal[p].sequence < journal[q].sequence
                            BY <3>1, <4>1
                        <6> QED BY <3>1, <4>1, <6>1, <1>2 DEF RingInv, AgesOrdered
                    <5> QED BY <5>1, <5>2, <1>3, <1>5
                <4> QED BY <3>1, <4>1, <4>2, <1>7, <1>8
            <3> QED BY <3>1, <3>2, <3>3, <1>2
        <2>3. \E o \in Commits' : \A q \in Commits' : journal'[o].sequence <= journal'[q].sequence
            <3>1. PICK o \in Commits : \A q \in Commits : journal[o].sequence <= journal[q].sequence
                BY <1>2 DEF RingInv, NumbersDense
            <3>2. CASE o # next
                <4>1. o \in Commits' /\ journal'[o] = journal[o] /\ journal[o].sequence \in Nat
                      /\ journal[o].sequence < sequence
                    BY <3>2, <1>7, <1>8
                <4>2. ASSUME NEW q \in Commits'
                      PROVE  journal'[o].sequence <= journal'[q].sequence
                    <5>1. CASE q = next
                        BY <4>1, <5>1, <1>2, <1>9
                    <5>2. CASE q # next
                        BY <3>1, <4>1, <4>2, <5>2, <1>8
                    <5> QED BY <5>1, <5>2
                <4> QED BY <4>1, <4>2
            <3>3. CASE o = next
                <4>0. journal[o].sequence \in Nat /\ o \in Slot /\ journal[o].sequence < sequence
                    BY <1>2, SlotTypes DEF Commits, RingInv, NumbersDense
                <4>1. ASSUME NEW q \in Commits', q # next
                      PROVE  journal[o].sequence < journal[q].sequence
                    <5>1. q \in Commits /\ q \in Slot /\ journal[q].sequence \in Nat
                        BY <1>8, <4>1
                    <5>2. Age(q) # Age(o) /\ Age(q) \in 0 .. JournalSize - 1 /\ Age(o) \in 0 .. JournalSize - 1
                        BY <3>3, <4>0, <4>1, <5>1, <1>5, AgeRange
                    <5>3. journal[q].sequence # journal[o].sequence
                        BY <5>1, <5>2, <4>0, <1>2, <1>3 DEF RingInv, AgesOrdered
                    <5> QED BY <3>1, <5>1, <5>3, <4>0
                <4>2. CASE journal[o].sequence = sequence - 1
                    <5>1. \A q \in Commits' : q = next
                        BY <4>1, <4>2, <1>2, <1>8
                    <5> QED BY <5>1, <1>2, <1>9
                <4>3. CASE journal[o].sequence < sequence - 1
                    <5>1. PICK n \in Commits : journal[n].sequence = journal[o].sequence + 1
                        BY <4>3, <1>2 DEF RingInv, NumbersDense
                    <5>2. n # next /\ n \in Commits' /\ journal'[n] = journal[n]
                          /\ journal[n].sequence < sequence
                        BY <3>3, <4>0, <5>1, <1>7, <1>8
                    <5>3. ASSUME NEW q \in Commits'
                          PROVE  journal'[n].sequence <= journal'[q].sequence
                        <6>1. CASE q = next
                            BY <4>0, <5>1, <5>2, <6>1, <1>2, <1>9
                        <6>2. CASE q # next
                            <7>1. journal'[q] = journal[q] /\ journal[q].sequence \in Nat
                                BY <5>3, <6>2, <1>8
                            <7>2. journal[o].sequence < journal[q].sequence
                                BY <4>1, <5>3, <6>2
                            <7> QED BY <4>0, <5>1, <5>2, <7>1, <7>2
                        <6> QED BY <6>1, <6>2
                    <5> QED BY <5>2, <5>3
                <4> QED BY <4>0, <4>2, <4>3, <1>2
            <3> QED BY <3>2, <3>3
        <2> QED BY <2>1, <2>2, <2>3 DEF NumbersDense
    <1>15. DataBefore'
        <2>1. \A p \in Commits' : Len(journal'[p].sector) <= MaxTransaction
            BY <1>2, <1>4, <1>5, <1>8 DEF RingInv, DataBefore
        <2>2. ASSUME NEW p \in Slot, IsNewest(p)'
              PROVE  journal'[Before(p)].kind = "data"
            <3>1. p = next
                BY <2>2, <1>11
            <3>2. journal[Before(next)].kind = "data"
                BY <1>1, <1>2 DEF RingInv, DataBefore
            <3>3. Before(p) \in Slot /\ Before(p) # next
                BY <3>1, <1>5
            <3> QED BY <3>1, <3>2, <3>3, <1>5
        <2>3. ~(phase' = "journal")
            BY <1>1
        <2> QED BY <2>1, <2>2, <2>3 DEF DataBefore
    <1> QED BY <1>5, <1>6, <1>10, <1>11, <1>12, <1>13, <1>14, <1>15 DEF IInv, RingInv

-----------------------------------------------------------------------------
(* Steps that leave the journal alone. *)

\* What the commits in the ring are depends on the journal alone, and which is
\* the newest on the sequence number, too.
LEMMA SameRing ==
    ASSUME IInv, UNCHANGED <<journal, sequence>>
    PROVE  /\ Commits' = Commits
           /\ \A p : IsNewest(p)' <=> IsNewest(p)
           /\ NumbersDense'
    BY DEF Commits, IsNewest, IInv, RingInv, NumbersDense

\* As long as journal_next stays, the ages stay, too.
LEMMA SameAges ==
    ASSUME IInv, UNCHANGED <<journal, sequence, next>>
    PROVE  /\ AgesOrdered'
           /\ \A p : Age(p)' = Age(p)
           /\ \A p \in Commits' : Len(journal'[p].sector) <= MaxTransaction
           /\ \A p \in Slot : IsNewest(p)' /\ Len(journal'[p].sector) > 0 => journal'[Before(p)].kind = "data"
    <1>1. Commits' = Commits /\ \A p : IsNewest(p)' <=> IsNewest(p)
        BY SameRing
    <1>2. \A p : Age(p)' = Age(p)
        BY DEF Age
    <1>3. AgesOrdered'
        BY <1>1, <1>2 DEF IInv, RingInv, AgesOrdered
    <1>4. DataBefore
        BY DEF IInv, RingInv
    <1> QED BY <1>1, <1>2, <1>3, <1>4 DEF DataBefore

\* The dirty list of a transaction has each of its blocks.
LEMMA DirtyList ==
    ASSUME JournalAssumption, BlocksAssumption,
           NEW blocks \in Transactions, NEW list \in SetToSeqs(blocks)
    PROVE  /\ list \in Seq(Blocks) /\ Len(list) \in 1 .. MaxTransaction
           /\ \A b \in blocks : \E i \in DOMAIN list : list[i] = b
    <1>1. blocks \subseteq Blocks /\ Cardinality(blocks) \in 1 .. MaxTransaction
        BY DEF Transactions
    <1>2. IsFiniteSet(blocks)
        BY <1>1, FS_Subset DEF BlocksAssumption
    <1> DEFINE D == 1 .. Cardinality(blocks)
    <1>3. list \in [D -> blocks] /\ \A i, j \in D : i # j => list[i] # list[j]
        BY DEF SetToSeqs
    <1>4. Cardinality(blocks) \in Nat
        BY <1>1
    <1>5. list \in Seq(Blocks) /\ Len(list) = Cardinality(blocks) /\ DOMAIN list = D
        <2>1. list \in [D -> Blocks]
            BY <1>1, <1>3
        <2>2. list \in Seq(Blocks)
            BY <2>1, <1>4, SeqDef
        <2> QED BY <2>1, <2>2, <1>4, LenProperties
    <1>6. list \in Injection(D, blocks)
        BY <1>3 DEF Injection, IsInjective
    <1>7. Cardinality(D) = Cardinality(blocks)
        BY <1>4, FS_Interval
    <1>8. list \in Surjection(D, blocks)
        BY <1>2, <1>6, <1>7, FS_Injection
    <1>9. \A b \in blocks : \E i \in D : list[i] = b
        BY <1>8 DEF Surjection
    <1> QED BY <1>1, <1>5, <1>9

\* A transaction begins: it is put in the cache, and nothing of it is logged.
LEMMA BeginStep ==
    ASSUME JournalAssumption, BlocksAssumption, IInv,
           NEW blocks \in Transactions, BeginTransaction(blocks)
    PROVE  IInv'
    <1>1. /\ phase = "idle" /\ phase' = "journal" /\ logged' = 0
          /\ count < MaxTransactions /\ count' = count + 1
          /\ dirty' \in SetToSeqs(blocks)
          /\ cache' = [b \in Blocks |-> IF b \in blocks THEN <<b, count'>> ELSE cache[b]]
          /\ UNCHANGED <<home, journal, next, sequence, crashes, durable>>
        BY DEF BeginTransaction
    <1>2. JournalTypeOK /\ RingInv
        BY DEF IInv
    <1>3. dirty' \in Seq(Blocks) /\ Len(dirty') \in 1 .. MaxTransaction
        BY <1>1, DirtyList
    <1>4. count' \in 0 .. MaxTransactions
        BY <1>1, <1>2 DEF JournalTypeOK, JournalAssumption
    <1>5. cache' \in [Blocks -> Content]
        BY <1>1, <1>2, <1>4 DEF JournalTypeOK, Content
    <1>6. JournalTypeOK'
        BY <1>1, <1>2, <1>3, <1>4, <1>5 DEF JournalTypeOK, JournalAssumption
    <1>7. NumbersDense' /\ AgesOrdered' /\ \A p : (IsNewest(p)' <=> IsNewest(p)) /\ Age(p)' = Age(p)
        BY <1>1, SameRing, SameAges
    <1>8. NewestAge'
        BY <1>1, <1>2, <1>7 DEF RingInv, NewestAge
    <1>9. PhaseInv'
        BY <1>1, <1>2, <1>3 DEF RingInv, PhaseInv, JournalAssumption
    <1>10. DataBefore'
        BY <1>1, SameAges DEF DataBefore
    <1> QED BY <1>6, <1>7, <1>8, <1>9, <1>10 DEF IInv, RingInv

\* A block written to its home changes neither ring nor numbers.
LEMMA WriteHomeStep ==
    ASSUME JournalAssumption, IInv, WriteHome
    PROVE  IInv'
    <1>1. /\ phase = "home" /\ phase' = (IF Len(dirty) = 1 THEN "idle" ELSE "home")
          /\ home' = [home EXCEPT ![Head(dirty)] = cache[Head(dirty)]]
          /\ dirty' = Tail(dirty)
          /\ UNCHANGED <<cache, logged, journal, next, sequence, count, crashes, durable>>
        BY DEF WriteHome
    <1>2. JournalTypeOK /\ RingInv
        BY DEF IInv
    <1>3. dirty \in Seq(Blocks) /\ Len(dirty) \in Nat /\ 0 < Len(dirty) /\ Len(dirty) <= MaxTransaction
        <2>1. dirty \in Seq(Blocks)
            BY <1>2 DEF JournalTypeOK
        <2> QED BY <1>1, <1>2, <2>1, LenProperties DEF RingInv, PhaseInv
    <1>4. Head(dirty) \in Blocks /\ dirty' \in Seq(Blocks) /\ Len(dirty') = Len(dirty) - 1
        BY <1>1, <1>3, EmptySeq, HeadTailProperties
    <1>5. JournalTypeOK'
        BY <1>1, <1>2, <1>4 DEF JournalTypeOK
    <1>6. NumbersDense' /\ AgesOrdered' /\ \A p : (IsNewest(p)' <=> IsNewest(p)) /\ Age(p)' = Age(p)
        BY <1>1, SameRing, SameAges
    <1>7. NewestAge'
        BY <1>1, <1>2, <1>6 DEF RingInv, NewestAge
    <1>8. PhaseInv'
        <2>1. phase' = "home" => Len(dirty') > 0
            BY <1>1, <1>3, <1>4
        <2>2. phase' = "idle" => dirty' = <<>>
            BY <1>1, <1>3, <1>4, EmptySeq
        <2>3. Len(dirty') <= MaxTransaction
            BY <1>3, <1>4 DEF JournalAssumption
        <2> QED BY <2>1, <2>2, <2>3, <1>1 DEF PhaseInv
    <1>9. DataBefore'
        BY <1>1, SameAges DEF DataBefore
    <1> QED BY <1>5, <1>6, <1>7, <1>8, <1>9 DEF IInv, RingInv

\* A stop leaves the ring as it is, the transaction begun is forgotten.
LEMMA CrashStep ==
    ASSUME JournalAssumption, IInv, Crash
    PROVE  IInv'
    <1>1. /\ phase' = "down" /\ dirty' = <<>> /\ logged' = 0 
          /\ crashes < MaxCrashes /\ crashes' = crashes + 1
          /\ UNCHANGED <<cache, home, journal, next, sequence, count, durable>>
        BY DEF Crash
    <1>2. JournalTypeOK /\ RingInv
        BY DEF IInv
    <1>3. crashes' \in 0 .. MaxCrashes /\ crashes' > 0
        BY <1>1, <1>2 DEF JournalTypeOK, JournalAssumption
    <1>4. JournalTypeOK'
        BY <1>1, <1>2, <1>3, EmptySeq DEF JournalTypeOK, JournalAssumption
    <1>5. NumbersDense' /\ AgesOrdered' /\ \A p : (IsNewest(p)' <=> IsNewest(p)) /\ Age(p)' = Age(p)
        BY <1>1, SameRing, SameAges
    <1>6. NewestAge'
        BY <1>1, <1>2, <1>5 DEF RingInv, NewestAge
    <1>7. PhaseInv'
        BY <1>1, <1>3, EmptySeq DEF PhaseInv, JournalAssumption
    <1>8. DataBefore'
        BY <1>1, SameAges DEF DataBefore
    <1> QED BY <1>4, <1>5, <1>6, <1>7, <1>8 DEF IInv, RingInv

\* A server that stopped in order reads its blocks from their homes.
LEMMA RestartStep ==
    ASSUME JournalAssumption, IInv, RestartServer
    PROVE  IInv'
    <1>1. /\ phase = "idle" /\ cache' = home
          /\ UNCHANGED <<dirty, logged, phase, home, journal, next, sequence, count, crashes, durable>>
        BY DEF RestartServer
    <1>2. JournalTypeOK /\ RingInv
        BY DEF IInv
    <1>3. JournalTypeOK'
        BY <1>1, <1>2 DEF JournalTypeOK
    <1>4. NumbersDense' /\ AgesOrdered' /\ \A p : (IsNewest(p)' <=> IsNewest(p)) /\ Age(p)' = Age(p)
        BY <1>1, SameRing, SameAges
    <1>5. NewestAge'
        BY <1>1, <1>2, <1>4 DEF RingInv, NewestAge
    <1>6. PhaseInv'
        BY <1>1, <1>2 DEF RingInv, PhaseInv
    <1>7. DataBefore'
        BY <1>1, SameAges DEF DataBefore
    <1> QED BY <1>3, <1>4, <1>5, <1>6, <1>7 DEF IInv, RingInv

\* Replay goes on behind the newest commit: the commits keep their order, and
\* the newest becomes the youngest.
LEMMA ReplayStep ==
    ASSUME JournalAssumption, IInv, Replay
    PROVE  IInv'
    <1>1. /\ phase = "down" /\ phase' = "idle" /\ next' = NextJournalBlock(Newest)
          /\ home' = Replayed /\ cache' = Replayed /\ durable' = durable
          /\ sequence' = ResumedSequence /\ UNCHANGED <<dirty, logged, journal, count, crashes>>
        BY DEF Replay
    <1>2. JournalTypeOK /\ RingInv /\ next \in Slot /\ sequence \in Nat
        BY DEF IInv, JournalTypeOK
    <1>3. PICK p0 \in Slot : IsNewest(p0) /\ Newest = p0
        BY ScanFindsNewest
    <1>4. p0 \in Commits /\ journal[p0].sequence = sequence - 1
          /\ journal[p0].sector \in Seq(Blocks) /\ Len(journal[p0].sector) \in Nat
        BY <1>2, <1>3, SlotTypes, LenProperties DEF IsNewest
    <1>5. sequence' = sequence
        BY <1>1, <1>2, <1>3, <1>4 DEF ResumedSequence
    <1>6. next' = IF p0 + 1 = JournalSize THEN 0 ELSE p0 + 1
        BY <1>1, <1>3 DEF NextJournalBlock
    <1>7. Replayed \in [Blocks -> Content]
        <2> DEFINE addr == journal[p0].sector
        <2> SUFFICES ASSUME NEW b \in Blocks,
                            b = IF Number(p0) <= Len(addr) THEN addr[Number(p0)] ELSE Unused
                     PROVE  journal[DataSlot(p0, Len(addr))].content \in Content
            BY <1>2, <1>3 DEF Replayed, JournalTypeOK
        <2>1. Number(p0) \in Nat /\ Number(p0) > 0
            <3> DEFINE S == {q \in Commits : q <= p0}
            <3>1. IsFiniteSet(0 .. JournalSize - 1)
                BY FS_Interval DEF JournalAssumption
            <3>2. IsFiniteSet(S) /\ p0 \in S
                BY <1>3, <1>4, <3>1, FS_Subset DEF Commits, Slot, JournalAssumption
            <3>3. Cardinality(S) \in Nat /\ Cardinality(S) # 0
                BY <3>2, FS_CardinalityType, FS_EmptySet
            <3> QED BY <3>3 DEF Number
        <2>2. Len(addr) \in Nat /\ Len(addr) > 0
            BY <1>4, <2>1 DEF JournalAssumption
        <2>3. DataSlot(p0, Len(addr)) = Before(p0)
            BY <1>3, <2>2 DEF DataSlot, Before, Slot, JournalAssumption
        <2>4. journal[Before(p0)].kind = "data" /\ Before(p0) \in Slot
            BY <1>2, <1>3, <2>2, AgeRange DEF RingInv, DataBefore
        <2> QED BY <1>2, <2>3, <2>4, SlotTypes
    <1>8. next' \in Slot
        BY <1>6 DEF Slot, JournalAssumption
    <1>9. JournalTypeOK'
        BY <1>1, <1>2, <1>5, <1>7, <1>8 DEF JournalTypeOK
    <1>10. NumbersDense' /\ Commits' = Commits /\ \A p : (IsNewest(p)' <=> IsNewest(p))
        BY <1>1, <1>5, SameRing
    <1>11. \A p \in Commits : Age(p0) <= Age(p) /\ p \in Slot
        <2> TAKE p \in Commits
        <2>1. journal[p].sequence <= journal[p0].sequence /\ journal[p].sequence \in Nat /\ p \in Slot
            BY <1>2, <1>4, SlotTypes DEF RingInv, NumbersDense, Commits
        <2>2. ~(journal[p0].sequence < journal[p].sequence)
            BY <1>2, <1>4, <2>1
        <2>3. ~(Age(p) < Age(p0))
            BY <1>2, <1>4, <2>2 DEF RingInv, AgesOrdered
        <2> QED BY <1>2, <1>3, <2>1, <2>3, AgeRange
    <1>12. \A p \in Commits : Age(p)' = Age(p) - Age(p0) /\ Age(p) \in Nat
        BY <1>2, <1>3, <1>6, <1>11 DEF Age, Slot, JournalAssumption
    <1>13. Age(p0) \in Nat
        BY <1>4, <1>12
    <1>14. AgesOrdered'
        BY <1>1, <1>2, <1>10, <1>12, <1>13 DEF AgesOrdered, RingInv
    <1>15. Age(p0)' = 0
        BY <1>4, <1>12, <1>13
    <1>16. NewestAge'
        BY <1>1, <1>3, <1>10, <1>15 DEF NewestAge
    <1>17. PhaseInv'
        BY <1>1, <1>2 DEF RingInv, PhaseInv
    <1>18. DataBefore'
        BY <1>1, <1>2, <1>10 DEF RingInv, DataBefore, Before
    <1> QED BY <1>9, <1>10, <1>14, <1>16, <1>17, <1>18 DEF IInv, RingInv

\* The ring that init_journal writes: numbered commits of empty transactions.
LEMMA InitIInv ==
    ASSUME JournalAssumption, Init
    PROVE  IInv
    <1>1. \A p \in Slot : journal[p].kind = "commit" /\ journal[p].sequence = p
                          /\ journal[p].sector = <<>> /\ journal[p] \in CommitBlock
        <2> TAKE p \in Slot
        <2>1. journal[p] = [kind |-> "commit", sequence |-> p, sector |-> <<>>]
            BY DEF Init
        <2>2. <<>> \in Seq(Blocks) /\ p \in Nat
            BY EmptySeq DEF Slot
        <2> QED BY <2>1, <2>2 DEF CommitBlock
    <1>2. Commits = Slot
        BY <1>1 DEF Commits
    <1>3. next = 0 /\ sequence = JournalSize /\ phase = "idle" /\ dirty = <<>> /\ logged = 0
          /\ count = 0 /\ crashes = 0
        BY DEF Init
    <1>4. JournalTypeOK
        <2>1. [b \in Blocks |-> <<b, 0>>] \in [Blocks -> Content]
            BY DEF Content, JournalAssumption
        <2>2. journal \in [Slot -> DataBlock \union CommitBlock]
            BY <1>1 DEF Init
        <2>3. next \in Slot /\ dirty \in Seq(Blocks)
            BY <1>3, EmptySeq DEF Slot, JournalAssumption
        <2> QED BY <1>3, <2>1, <2>2, <2>3 DEF Init, JournalTypeOK, JournalAssumption
    <1>5. \A p \in Slot : Age(p) = JournalSize - 1 - p
        BY <1>3 DEF Age, Slot, JournalAssumption
    <1>6. AgesOrdered
        BY <1>1, <1>2, <1>5 DEF AgesOrdered, Slot, JournalAssumption
    <1>7. NumbersDense
        <2>1. \A p \in Commits : journal[p].sequence < sequence
            BY <1>1, <1>2, <1>3 DEF Slot, JournalAssumption
        <2>2. ASSUME NEW p \in Commits, journal[p].sequence < sequence - 1
              PROVE  \E q \in Commits : journal[q].sequence = journal[p].sequence + 1
            <3>1. p + 1 \in Slot
                BY <1>1, <1>2, <1>3, <2>2 DEF Slot, JournalAssumption
            <3> QED BY <1>1, <1>2, <2>2, <3>1
        <2>3. 0 \in Commits /\ \A q \in Commits : journal[0].sequence <= journal[q].sequence
            BY <1>1, <1>2 DEF Slot, JournalAssumption
        <2> QED BY <2>1, <2>2, <2>3 DEF NumbersDense
    <1>8. NewestAge
        <2>1. JournalSize - 1 \in Slot
            BY DEF Slot, JournalAssumption
        <2>2. IsNewest(JournalSize - 1) /\ Age(JournalSize - 1) = 0
            BY <1>1, <1>2, <1>3, <1>5, <2>1 DEF IsNewest, JournalAssumption
        <2> QED BY <1>3, <2>1, <2>2 DEF NewestAge
    <1>9. PhaseInv
        BY <1>3, EmptySeq DEF PhaseInv, JournalAssumption
    <1>10. DataBefore
        BY <1>1, <1>2, <1>3, EmptySeq DEF DataBefore, JournalAssumption
    <1> QED BY <1>4, <1>6, <1>7, <1>8, <1>9, <1>10 DEF IInv, RingInv

\* Nothing in the invariant speaks of anything but the variables.
LEMMA StutterIInv ==
    ASSUME JournalAssumption, IInv, UNCHANGED vars
    PROVE  IInv'
    <1>1. UNCHANGED <<journal, sequence, next>>
          /\ UNCHANGED <<cache, dirty, logged, phase, home, count, crashes, durable>>
        BY DEF vars
    <1>2. JournalTypeOK /\ RingInv
        BY DEF IInv
    <1>3. JournalTypeOK'
        BY <1>1, <1>2 DEF JournalTypeOK
    <1>4. NumbersDense' /\ AgesOrdered' /\ \A p : (IsNewest(p)' <=> IsNewest(p)) /\ Age(p)' = Age(p)
        BY <1>1, SameRing, SameAges
    <1>5. NewestAge'
        BY <1>1, <1>2, <1>4 DEF RingInv, NewestAge
    <1>6. PhaseInv'
        BY <1>1, <1>2 DEF RingInv, PhaseInv
    <1>7. DataBefore'
        BY <1>1, <1>2, <1>4, SameAges DEF RingInv, DataBefore, Before
    <1> QED BY <1>3, <1>4, <1>5, <1>6, <1>7 DEF IInv, RingInv

\* Every step keeps the invariant.
LEMMA NextIInv ==
    ASSUME JournalAssumption, BlocksAssumption, IInv, [Next]_vars
    PROVE  IInv'
    <1>1. ASSUME NEW blocks \in Transactions, BeginTransaction(blocks) PROVE IInv'
        BY <1>1, BeginStep
    <1>2. CASE JournalData
        BY <1>2, DataStep
    <1>3. CASE JournalCommit
        BY <1>3, CommitStep
    <1>4. CASE WriteHome
        BY <1>4, WriteHomeStep
    <1>5. CASE Crash
        BY <1>5, CrashStep
    <1>6. CASE Replay
        BY <1>6, ReplayStep
    <1>7. CASE RestartServer
        BY <1>7, RestartStep
    <1>8. CASE UNCHANGED vars
        BY <1>8, StutterIInv
    <1> QED BY <1>1, <1>2, <1>3, <1>4, <1>5, <1>6, <1>7, <1>8 DEF Next

\* The ring invariant holds in every state of the journal.
THEOREM JournalIInv == Spec => []IInv
    <1>1. Init => IInv
        BY InitIInv, JournalAssumption
    <1>2. IInv /\ [Next]_vars => IInv'
        BY NextIInv, JournalAssumption, BlocksAssumption
    <1> QED BY <1>1, <1>2, PTL DEF Spec

\* Type correctness: through crashes and replays journal_next stays inside the
\* ring, and what is replayed from it is the content of some block.
THEOREM JournalTyped == Spec => []JournalTypeOK
    <1>1. IInv => JournalTypeOK
        BY DEF IInv
    <1> QED BY <1>1, JournalIInv, PTL

\* replay_journal finds one commit after which the sequence numbers do not
\* increase by one, and it is the last one written, for any ring and
\* transactions that fit into it.
THEOREM ScanFindsOneNewest == Spec => []OneNewest
    <1>1. IInv => OneNewest
        <2> SUFFICES ASSUME IInv PROVE OneNewest
            OBVIOUS
        <2>1. PICK p \in Slot : IsNewest(p) /\ Gaps = {p} /\ Newest = p
            BY ScanFindsNewest, JournalAssumption
        <2>2. Cardinality(Gaps) = 1
            BY <2>1, FS_Singleton
        <2> QED BY <2>1, <2>2 DEF OneNewest, IsNewest
    <1> QED BY <1>1, JournalIInv, PTL

\* The newest commit is as old as what is logged after it, and names no more blocks than a transaction may have.
LEMMA NewestIs ==
    ASSUME JournalAssumption, IInv, NEW p \in Slot, IsNewest(p)
    PROVE  /\ phase = "journal" => Age(p) = logged
           /\ journal[p].sector \in Seq(Blocks)
           /\ Len(journal[p].sector) \in Nat /\ Len(journal[p].sector) <= MaxTransaction
    <1>1. JournalTypeOK /\ next \in Slot /\ p \in Commits
        BY DEF IInv, JournalTypeOK, IsNewest
    <1>2. journal[p].sector \in Seq(Blocks) /\ Len(journal[p].sector) \in Nat
        BY <1>1, SlotTypes, LenProperties
    <1>3. Len(journal[p].sector) <= MaxTransaction
        BY <1>1 DEF IInv, RingInv, DataBefore
    <1>4. PICK q \in Slot : IsNewest(q) /\ (phase = "journal" => Age(q) = logged)
        BY DEF IInv, RingInv, NewestAge
    <1>5. q \in Commits /\ journal[q].sequence = journal[p].sequence /\ journal[p].sequence \in Nat
        BY <1>1, <1>4, SlotTypes DEF IsNewest
    <1>6. ~(Age(q) < Age(p)) /\ ~(Age(p) < Age(q))
        BY <1>1, <1>5 DEF IInv, RingInv, AgesOrdered
    <1>7. q = p
        BY <1>1, <1>6, AgeRange
    <1> QED BY <1>2, <1>3, <1>4, <1>7

\* The data blocks of a commit are the blocks just older than it.
LEMMA DataSlots ==
    ASSUME JournalAssumption, next \in Slot, NEW p \in Slot,
           Len(journal[p].sector) \in Nat, Age(p) + Len(journal[p].sector) < JournalSize,
           NEW j \in 1 .. Len(journal[p].sector)
    PROVE  /\ DataSlot(p, j) \in Slot
           /\ Age(DataSlot(p, j)) = Age(p) + Len(journal[p].sector) - j + 1
    <1> DEFINE n == Len(journal[p].sector)
               at == p - n + j - 1
    <1>1. DataSlot(p, j) = IF at < 0 THEN at + JournalSize ELSE at
        BY DEF DataSlot
    <1>2. JournalSize \in Nat /\ next \in 0 .. JournalSize - 1 /\ p \in 0 .. JournalSize - 1
        BY DEF Slot, JournalAssumption
    <1>3. n \in Nat /\ j \in 1 .. n /\ Age(p) + n < JournalSize
        OBVIOUS
    <1> HIDE DEF n
    <1>4. at \in Int /\ -JournalSize < at /\ at < JournalSize
        BY <1>2, <1>3 DEF Age
    <1>5. CASE at < 0
        <2>1. p < next /\ next <= at + JournalSize
            BY <1>2, <1>3, <1>5 DEF Age
        <2>2. Age(at + JournalSize) = Age(p) + n - j + 1
            BY <1>2, <1>3, <2>1 DEF Age
        <2>3. at + JournalSize \in Slot
            BY <1>2, <1>4, <1>5 DEF Slot
        <2> QED BY <1>1, <1>5, <2>2, <2>3 DEF n
    <1>6. CASE ~(at < 0)
        <2>1. at < next <=> p < next
            BY <1>2, <1>3, <1>6 DEF Age
        <2>2. Age(at) = Age(p) + n - j + 1
            BY <1>2, <1>3, <2>1 DEF Age
        <2>3. at \in Slot
            BY <1>2, <1>4, <1>6 DEF Slot
        <2> QED BY <1>1, <1>6, <2>2, <2>3 DEF n
    <1> QED BY <1>5, <1>6

\* The next data block overwrites the oldest block of the ring: one of the newest
\* commit's only when the ring is full of it and what was logged since.
LEMMA ContentData ==
    ASSUME JournalAssumption, IInv, ContentInv, JournalData
    PROVE  ContentInv'
    <1> SUFFICES ASSUME Unreplayed
                 PROVE  LogInv' /\ CommitInv'
        BY DEF ContentInv, Unreplayed, JournalData
    <1> DEFINE block == [kind |-> "data", content |-> cache[dirty[logged + 1]]]
    <1>1. /\ phase = "journal" /\ phase' = phase /\ logged < Len(dirty) /\ logged' = logged + 1
          /\ journal' = [journal EXCEPT ![next] = block] /\ next' = NextJournalBlock(next)
          /\ UNCHANGED <<cache, dirty, home, sequence, count, crashes, durable>>
        BY DEF JournalData
    <1>2. JournalTypeOK /\ LogInv /\ CommitInv /\ logged \in Nat
          /\ Len(dirty) \in Nat /\ Len(dirty) <= MaxTransaction
        <2>1. dirty \in Seq(Blocks)
            BY DEF IInv, JournalTypeOK
        <2> QED BY <2>1, LenProperties DEF IInv, JournalTypeOK, RingInv, PhaseInv, JournalAssumption, ContentInv
    <1>3. JournalSize \in Nat /\ MaxTransaction \in Nat /\ MaxTransaction < JournalSize
        BY DEF JournalAssumption
    <1>4. block.kind = "data" /\ block.content = cache[dirty[logged + 1]]
        OBVIOUS
    <1> HIDE DEF block
    <1>5. /\ next \in Slot /\ journal'[next] = block /\ Age(next) = JournalSize - 1
          /\ \A p \in Slot : p # next => journal'[p] = journal[p] /\ Age(p)' = Age(p) + 1
        BY <1>1, <1>2, RingStep
    <1>6. LogInv'
        <2>1. \A b \in Blocks : (\A i \in 1 .. Len(dirty) : dirty[i] # b) => home[b] = cache[b]
            BY <1>1, <1>2 DEF LogInv
        <2>2. ASSUME NEW j \in 1 .. logged'
              PROVE  Holds(LogSlot(j), cache[dirty[j]])'
            <3>1. next' = IF next + 1 = JournalSize THEN 0 ELSE next + 1
                BY <1>1 DEF NextJournalBlock
            <3>2. CASE j = logged + 1
                <4>1. LogSlot(j)' = next
                    BY <1>1, <1>2, <1>3, <1>5, <3>1, <3>2 DEF LogSlot, Slot
                <4> QED BY <1>1, <1>4, <1>5, <3>2, <4>1 DEF Holds
            <3>3. CASE j \in 1 .. logged
                <4>1. LogSlot(j)' = LogSlot(j) /\ LogSlot(j) \in Slot /\ LogSlot(j) # next
                    BY <1>1, <1>2, <1>3, <1>5, <3>1, <3>3 DEF LogSlot, Slot
                <4>2. Holds(LogSlot(j), cache[dirty[j]])
                    BY <1>1, <1>2, <3>3 DEF LogInv
                <4> QED BY <1>1, <1>5, <4>1, <4>2 DEF Holds
            <3> QED BY <1>1, <1>2, <2>2, <3>2, <3>3
        <2>3. phase' # "home"
            BY <1>1
        <2> QED BY <1>1, <2>1, <2>2, <2>3 DEF LogInv
    <1>7. CommitInv'
        <2> SUFFICES ASSUME NEW p \in Slot, IsNewest(p)'
                     PROVE  Restores(p)'
            BY DEF CommitInv
        <2>1. p # next /\ journal'[p] = journal[p] /\ IsNewest(p)
            BY <1>1, <1>4, <1>5 DEF IsNewest, Commits
        <2>2. Restores(p)
            BY <1>2, <2>1 DEF CommitInv
        <2> DEFINE addr == journal[p].sector
        <2>3. Age(p) = logged /\ Age(p)' = Age(p) + 1 /\ Len(addr) \in Nat
            BY <1>1, <1>5, <2>1, NewestIs
        <2>4. ASSUME Age(p)' + Len(addr) < JournalSize, NEW j \in 1 .. Len(addr)
              PROVE  Holds(DataSlot(p, j), durable[addr[j]])'
            <3>1. Age(p) + 1 + Len(addr) < JournalSize /\ Age(p) \in Nat
                BY <1>2, <2>3, <2>4
            <3>2. Age(p) + Len(addr) < JournalSize
                BY ONLY <1>3, <2>3, <3>1
            <3>3. DataSlot(p, j) \in Slot /\ Age(DataSlot(p, j)) = Age(p) + Len(addr) - j + 1
                BY <1>5, <2>3, <3>2, DataSlots
            <3>4. DataSlot(p, j) # next
                <4>1. Age(p) + Len(addr) - j + 1 < JournalSize - 1
                    <5> DEFINE age == Age(p)
                               len == Len(addr)
                    <5>1. age \in Nat /\ len \in Nat /\ age + 1 + len < JournalSize /\ j \in 1 .. len
                        BY <2>3, <3>1
                    <5> HIDE DEF age, len
                    <5>2. age + len - j + 1 < JournalSize - 1
                        BY ONLY <1>3, <5>1
                    <5> QED BY <5>2 DEF age, len
                <4> QED BY <1>3, <1>5, <3>3, <4>1
            <3>5. DataSlot(p, j)' = DataSlot(p, j)
                BY <2>1 DEF DataSlot
            <3>6. Holds(DataSlot(p, j), durable[addr[j]])
                BY <2>2, <3>2 DEF Restores
            <3> QED BY <1>1, <1>5, <2>1, <3>3, <3>4, <3>5, <3>6 DEF Holds
        <2> QED BY <1>1, <2>1, <2>2, <2>4 DEF Restores
    <1> QED BY <1>6, <1>7

\* The commit block makes the transaction the newest one.
LEMMA ContentCommit ==
    ASSUME JournalAssumption, IInv, ContentInv, JournalCommit
    PROVE  ContentInv'
    <1> SUFFICES ASSUME Unreplayed
                 PROVE  LogInv' /\ CommitInv'
        BY DEF ContentInv, Unreplayed, JournalCommit
    <1>1. /\ phase = "journal" /\ phase' = "home" /\ logged = Len(dirty)
          /\ journal' = [journal EXCEPT ![next] = Committed] /\ next' = NextJournalBlock(next)
          /\ durable' = cache /\ UNCHANGED <<cache, dirty, logged, home, count, crashes>>
        BY DEF JournalCommit
    <1>2. JournalTypeOK /\ LogInv /\ logged \in Nat /\ logged <= MaxTransaction
        <2>1. dirty \in Seq(Blocks)
            BY DEF IInv, JournalTypeOK
        <2> QED BY <1>1, <2>1, LenProperties DEF IInv, RingInv, PhaseInv, ContentInv
    <1>3. JournalSize \in Nat /\ MaxTransaction \in Nat /\ MaxTransaction < JournalSize
        BY DEF JournalAssumption
    <1>4. /\ next \in Slot /\ journal'[next] = Committed
          /\ \A p \in Slot : p # next => journal'[p] = journal[p]
        BY <1>1, <1>2, RingStep
    <1>5. Committed.sector = dirty
        BY DEF Committed
    <1>6. \A b \in Blocks : (\A i \in 1 .. Len(dirty) : dirty[i] # b) => home[b] = cache[b]
        BY <1>1, <1>2 DEF LogInv
    <1>7. LogInv'
        BY <1>1, <1>6 DEF LogInv
    <1>8. CommitInv'
        <2> SUFFICES ASSUME NEW p \in Slot, p = next
                     PROVE  Restores(p)'
            BY CommitStep DEF CommitInv
        <2>1. journal'[p].sector = dirty
            BY <1>4, <1>5
        <2>2. ASSUME NEW j \in 1 .. Len(dirty)
              PROVE  Holds(DataSlot(p, j), durable[journal[p].sector[j]])'
            <3>1. Holds(LogSlot(j), cache[dirty[j]])
                BY <1>1, <1>2 DEF LogInv
            <3>2. DataSlot(p, j)' = LogSlot(j)
                BY <1>1, <2>1 DEF DataSlot, LogSlot
            <3>3. j \in 1 .. logged
                BY <1>1
            <3>4. LogSlot(j) \in Slot /\ LogSlot(j) # next
                BY <1>2, <1>3, <1>4, <3>3 DEF LogSlot, Slot
            <3> QED BY <1>1, <1>4, <2>1, <3>1, <3>2, <3>4 DEF Holds
        <2> QED BY <1>1, <1>6, <2>1, <2>2 DEF Restores
    <1> QED BY <1>7, <1>8

\* The beginning of a transaction changes nothing that is durable.
LEMMA ContentBegin ==
    ASSUME JournalAssumption, BlocksAssumption, IInv, ContentInv,
           NEW blocks \in Transactions, BeginTransaction(blocks)
    PROVE  ContentInv'
    <1> SUFFICES ASSUME Unreplayed
                 PROVE  LogInv' /\ CommitInv'
        BY DEF ContentInv, Unreplayed, BeginTransaction
    <1>1. /\ phase = "idle" /\ phase' = "journal" /\ logged' = 0 /\ dirty' \in SetToSeqs(blocks)
          /\ cache' = [b \in Blocks |-> IF b \in blocks THEN <<b, count'>> ELSE cache[b]]
          /\ UNCHANGED <<home, journal, next, sequence, crashes, durable>>
        BY DEF BeginTransaction
    <1>2. dirty' \in Seq(Blocks) /\ (\A b \in blocks : \E i \in DOMAIN dirty' : dirty'[i] = b)
        BY <1>1, DirtyList
    <1>3. DOMAIN dirty' = 1 .. Len(dirty')
        BY <1>2, LenProperties
    <1>4. dirty = <<>> /\ LogInv /\ CommitInv
        BY <1>1 DEF IInv, RingInv, PhaseInv, ContentInv
    <1>5. \A b \in Blocks : home[b] = cache[b]
        BY <1>1, <1>4, EmptySeq DEF LogInv
    <1>6. LogInv'
        <2>1. \A b \in Blocks : (\A i \in 1 .. Len(dirty') : dirty'[i] # b) => b \notin blocks
            BY <1>2, <1>3
        <2> QED BY <1>1, <1>5, <2>1 DEF LogInv
    <1>7. CommitInv'
        <2> SUFFICES ASSUME NEW p \in Slot, IsNewest(p)'
                     PROVE  Restores(p)'
            BY DEF CommitInv
        <2>1. Restores(p)
            BY <1>1, <1>4, SameRing DEF CommitInv
        <2> QED BY <1>1, <2>1 DEF Restores, Holds, DataSlot, Age
    <1> QED BY <1>6, <1>7

\* A block written home is one the newest commit has.
LEMMA ContentHome ==
    ASSUME JournalAssumption, IInv, ContentInv, WriteHome
    PROVE  ContentInv'
    <1>1. /\ phase = "home" /\ phase' \in {"idle", "home"} /\ dirty' = Tail(dirty)
          /\ home' = [home EXCEPT ![Head(dirty)] = cache[Head(dirty)]]
          /\ UNCHANGED <<cache, journal, next, sequence, crashes, durable>>
        BY DEF WriteHome
    <1> SUFFICES ASSUME Unreplayed
                 PROVE  LogInv' /\ CommitInv'
        BY <1>1 DEF ContentInv, Unreplayed
    <1>2. LogInv /\ CommitInv /\ home \in [Blocks -> Content]
        BY DEF ContentInv, IInv, JournalTypeOK
    <1>3. dirty \in Seq(Blocks) /\ dirty # <<>> /\ Len(dirty) \in Nat /\ Len(dirty) > 0
        <2>1. dirty \in Seq(Blocks)
            BY DEF IInv, JournalTypeOK
        <2> QED BY <1>1, <2>1, EmptySeq, LenProperties DEF IInv, RingInv, PhaseInv
    <1>4. Head(dirty) = dirty[1] /\ dirty[1] \in Blocks
        BY <1>3, ElementOfSeq, HeadTailProperties
    <1>5. Len(dirty') = Len(dirty) - 1 /\ \A i \in 1 .. Len(dirty') : dirty'[i] = dirty[i + 1]
        BY <1>1, <1>3, HeadTailProperties
    <1>6. \A b \in Blocks : home'[b] = IF b = dirty[1] THEN cache[b] ELSE home[b]
        BY <1>1, <1>2, <1>4
    <1>7. LogInv'
        <2>1. ASSUME NEW b \in Blocks, \A i \in 1 .. Len(dirty') : dirty'[i] # b
              PROVE  home'[b] = cache'[b]
            <3>1. CASE b = dirty[1]
                BY <1>1, <1>6, <3>1
            <3>2. CASE b # dirty[1]
                <4>1. \A i \in 1 .. Len(dirty) : dirty[i] # b
                    <5> TAKE i \in 1 .. Len(dirty)
                    <5>1. CASE i = 1
                        BY <3>2, <5>1
                    <5>2. CASE i # 1
                        <6>1. i - 1 \in 1 .. Len(dirty')
                            BY <1>3, <1>5, <5>2
                        <6>2. dirty'[i - 1] = dirty[i]
                            BY <1>3, <1>5, <6>1
                        <6> QED BY <2>1, <6>1, <6>2
                    <5> QED BY <5>1, <5>2
                <4> QED BY <1>1, <1>2, <1>6, <3>2, <4>1 DEF LogInv
            <3> QED BY <3>1, <3>2
        <2> QED BY <1>1, <1>2, <2>1 DEF LogInv
    <1>8. CommitInv'
        <2> SUFFICES ASSUME NEW p \in Slot, IsNewest(p)'
                     PROVE  Restores(p)'
            BY DEF CommitInv
        <2>1. Restores(p)
            BY <1>1, <1>2, SameRing DEF CommitInv
        <2> DEFINE addr == journal[p].sector
        <2>2. \A i \in 1 .. Len(dirty) : \E j \in 1 .. Len(addr) : addr[j] = dirty[i]
            BY <1>1, <2>1 DEF Restores
        <2>3. \A i \in 1 .. Len(dirty') : \E j \in 1 .. Len(addr) : addr[j] = dirty'[i]
            <3> TAKE i \in 1 .. Len(dirty')
            <3>1. i + 1 \in 1 .. Len(dirty) /\ dirty'[i] = dirty[i + 1]
                BY <1>3, <1>5
            <3> QED BY <2>2, <3>1
        <2>4. ASSUME NEW b \in Blocks, \A j \in 1 .. Len(addr) : addr[j] # b
              PROVE  home'[b] = durable[b]
            <3>1. b # dirty[1]
                BY <1>3, <2>2, <2>4
            <3>2. home[b] = durable[b]
                BY <2>1, <2>4 DEF Restores
            <3> QED BY <1>6, <3>1, <3>2
        <2>5. Age(p) + Len(addr) < JournalSize =>
                \A j \in 1 .. Len(addr) : Holds(DataSlot(p, j), durable[addr[j]])
            BY <2>1 DEF Restores
        <2> QED BY <1>1, <2>3, <2>4, <2>5 DEF Restores, Holds, DataSlot, Age
    <1> QED BY <1>7, <1>8

\* A stop loses only what is not yet committed.
LEMMA ContentCrash ==
    ASSUME JournalAssumption, IInv, ContentInv, Crash
    PROVE  ContentInv'
    <1>1. /\ phase' = "down" /\ phase \in {"idle", "journal", "home"}
          /\ crashes' = crashes + 1 /\ crashes \in Nat
          /\ UNCHANGED <<cache, home, journal, next, sequence, durable>>
        BY DEF Crash, IInv, JournalTypeOK, JournalAssumption
    <1> SUFFICES ASSUME Unreplayed'
                 PROVE  LogInv' /\ CommitInv'
        BY DEF ContentInv
    <1>2. CommitInv
        BY <1>1 DEF Unreplayed, ContentInv
    <1>3. LogInv'
        BY <1>1 DEF LogInv
    <1>4. CommitInv'
        <2> SUFFICES ASSUME NEW p \in Slot, IsNewest(p)'
                     PROVE  Restores(p)'
            BY DEF CommitInv
        <2>1. Restores(p)
            BY <1>1, <1>2, SameRing DEF CommitInv
        <2> QED BY <1>1, <2>1 DEF Restores, Holds, DataSlot, Age
    <1> QED BY <1>3, <1>4

\* A stop has come before a replay, so that nothing is said of the state after it.
LEMMA ContentReplay ==
    ASSUME JournalAssumption, IInv, Replay
    PROVE  ContentInv'
    <1>1. phase' = "idle" /\ phase = "down" /\ crashes' = crashes
        BY DEF Replay
    <1>2. crashes' > 0 /\ crashes' \in Nat
        BY <1>1 DEF IInv, RingInv, PhaseInv, JournalTypeOK, JournalAssumption
    <1> QED BY <1>1, <1>2 DEF ContentInv, Unreplayed

\* A restart in order finds everything home.
LEMMA ContentRestart ==
    ASSUME JournalAssumption, IInv, ContentInv, RestartServer
    PROVE  ContentInv'
    <1>1. /\ phase = "idle" /\ cache' = home
          /\ UNCHANGED <<dirty, logged, phase, home, journal, next, sequence, crashes, durable>>
        BY DEF RestartServer
    <1> SUFFICES ASSUME Unreplayed
                 PROVE  LogInv' /\ CommitInv'
        BY <1>1 DEF ContentInv, Unreplayed
    <1>2. CommitInv
        BY DEF ContentInv
    <1>3. LogInv'
        BY <1>1 DEF LogInv
    <1>4. CommitInv'
        <2> SUFFICES ASSUME NEW p \in Slot, IsNewest(p)'
                     PROVE  Restores(p)'
            BY DEF CommitInv
        <2>1. Restores(p)
            BY <1>1, <1>2, SameRing DEF CommitInv
        <2> QED BY <1>1, <2>1 DEF Restores, Holds, DataSlot, Age
    <1> QED BY <1>3, <1>4

\* A step that changes nothing.
LEMMA ContentStutter ==
    ASSUME IInv, ContentInv, UNCHANGED vars
    PROVE  ContentInv'
    <1>1. UNCHANGED <<cache, dirty, logged, phase, home, journal, next, sequence, crashes, durable>>
        BY DEF vars
    <1> SUFFICES ASSUME Unreplayed
                 PROVE  LogInv' /\ CommitInv'
        BY <1>1 DEF ContentInv, Unreplayed
    <1>2. LogInv'
        BY <1>1 DEF ContentInv, LogInv, Holds, LogSlot
    <1>3. CommitInv'
        <2> SUFFICES ASSUME NEW p \in Slot, IsNewest(p)'
                     PROVE  Restores(p)'
            BY DEF CommitInv
        <2>1. Restores(p)
            BY <1>1, SameRing DEF CommitInv, ContentInv
        <2> QED BY <1>1, <2>1 DEF Restores, Holds, DataSlot, Age
    <1> QED BY <1>2, <1>3

\* At first everything is home.
LEMMA InitContent ==
    ASSUME JournalAssumption, Init
    PROVE  ContentInv
    <1>1. home = cache /\ home = durable /\ phase = "idle" /\ dirty = <<>>
        BY DEF Init
    <1>2. LogInv
        BY <1>1 DEF LogInv
    <1>3. \A p \in Slot : journal[p].sector = <<>>
        BY DEF Init
    <1>4. CommitInv
        BY <1>1, <1>3, EmptySeq DEF CommitInv, Restores
    <1> QED BY <1>2, <1>4 DEF ContentInv

\* What the invariant says of the newest commit is what replaying it needs.
LEMMA ContentRecovers ==
    ASSUME JournalAssumption, IInv, ContentInv
    PROVE  Recoverable
    <1> SUFFICES ASSUME Unreplayed, Intact
                 PROVE  Restored = durable
        BY DEF Recoverable
    <1>1. PICK p \in Slot : IsNewest(p) /\ Newest = p
        BY ScanFindsNewest
    <1> DEFINE addr == journal[p].sector
    <1>2. Restores(p) /\ Age(p) + Len(addr) < JournalSize
        BY <1>1 DEF ContentInv, CommitInv, Intact
    <1>3. DOMAIN addr = 1 .. Len(addr)
        BY <1>1, NewestIs, LenProperties
    <1>4. durable \in [Blocks -> Content]
        BY DEF IInv, JournalTypeOK
    <1>5. ASSUME NEW b \in Blocks
          PROVE  (IF \E j \in DOMAIN addr : addr[j] = b
                  THEN journal[DataSlot(p, CHOOSE j \in DOMAIN addr : addr[j] = b)].content
                  ELSE home[b]) = durable[b]
        <2>1. CASE \E j \in DOMAIN addr : addr[j] = b
            <3> DEFINE k == CHOOSE j \in DOMAIN addr : addr[j] = b
            <3>1. k \in DOMAIN addr /\ addr[k] = b
                BY <2>1
            <3> HIDE DEF k
            <3>2. journal[DataSlot(p, k)].content = durable[b]
                BY <1>2, <1>3, <3>1 DEF Restores, Holds
            <3> QED BY <2>1, <3>2 DEF k
        <2>2. CASE ~ \E j \in DOMAIN addr : addr[j] = b
            BY <1>2, <1>3, <2>2 DEF Restores
        <2> QED BY <2>1, <2>2
    <1>6. Restored = [b \in Blocks |-> durable[b]]
        BY <1>1, <1>5 DEF Restored
    <1> QED BY <1>4, <1>6

\* Until the first replay, the newest transaction of the journal and the home
\* locations together are the last committed content, for any ring, transactions
\* of any size that fits into it and a stop between any two blocks, up to the
\* block with which the next transaction overwrites the first of its data.
THEOREM JournalRecovers == Spec => []Recoverable
    <1>1. Init => IInv /\ ContentInv
        BY InitIInv, InitContent, JournalAssumption
    <1>2. IInv /\ ContentInv /\ [Next]_vars => IInv' /\ ContentInv'
        <2> SUFFICES ASSUME IInv, ContentInv, [Next]_vars
                     PROVE  ContentInv'
            BY NextIInv, JournalAssumption, BlocksAssumption
        <2>1. ASSUME NEW blocks \in Transactions, BeginTransaction(blocks) PROVE ContentInv'
            BY <2>1, ContentBegin, JournalAssumption, BlocksAssumption
        <2>2. CASE JournalData
            BY <2>2, ContentData, JournalAssumption
        <2>3. CASE JournalCommit
            BY <2>3, ContentCommit, JournalAssumption
        <2>4. CASE WriteHome
            BY <2>4, ContentHome, JournalAssumption
        <2>5. CASE Crash
            BY <2>5, ContentCrash, JournalAssumption
        <2>6. CASE Replay
            BY <2>6, ContentReplay, JournalAssumption
        <2>7. CASE RestartServer
            BY <2>7, ContentRestart, JournalAssumption
        <2>8. CASE UNCHANGED vars
            BY <2>8, ContentStutter
        <2> QED BY <2>1, <2>2, <2>3, <2>4, <2>5, <2>6, <2>7, <2>8 DEF Next
    <1>3. IInv /\ ContentInv => Recoverable
        BY ContentRecovers, JournalAssumption
    <1> QED BY <1>1, <1>2, <1>3, PTL DEF Spec
=============================================================================
