------------------------------- MODULE Journal -------------------------------
(***************************************************************************)
(* The metadata journal of ddsnapd: commit_transaction writes the dirty    *)
(* buffers into a ring of journal blocks, then a commit block, then the    *)
(* buffers to their home locations; replay_journal repairs the home        *)
(* locations when the server was not shut down.                            *)
(*                                                                         *)
(* Each block that is written to disk is a step of its own, and the        *)
(* machine may stop between any two of them. This is the mode the server   *)
(* runs in by default, without RUN_DEFER: no deferred allocations, and no  *)
(* barriers.                                                               *)
(***************************************************************************)
EXTENDS Integers, Sequences, FiniteSets, SequencesExt

CONSTANTS Blocks,           \* metadata blocks: tree nodes, leaves and bitmaps
          Unused,           \* the block at sector 0, which holds nothing
          JournalSize,      \* image.journal_size
          MaxTransaction,   \* most dirty buffers of a transaction
          MaxTransactions,  \* bound: transactions
          MaxCrashes        \* bound: crashes

ASSUME JournalAssumption ==
    /\ JournalSize \in Nat \ {0}
    /\ MaxTransaction \in 1 .. JournalSize - 1
    /\ MaxTransactions \in Nat
    /\ MaxCrashes \in Nat
    /\ Unused \notin Blocks

ASSUME BlocksAssumption == IsFiniteSet(Blocks)

Slot == 0 .. JournalSize - 1

\* The content of a block tells which block it is and which transaction wrote it.
Content == Blocks \X (0 .. MaxTransactions)

DataBlock == [kind: {"data"}, content: Content]
CommitBlock == [kind: {"commit"}, sequence: Nat, sector: Seq(Blocks)]

VARIABLES cache,    \* the buffers in memory
          dirty,    \* dirty_buffers, oldest first: blocks not yet written
          logged,   \* how many of them are in the journal
          phase,    \* what commit_transaction is writing
          home,     \* the blocks on disk
          journal,  \* the journal on disk
          next,     \* image.journal_next
          sequence, \* image.sequence
          count,    \* transactions so far
          crashes,
          durable   \* the content as of the last commit block written

vars == <<cache, dirty, logged, phase, home, journal, next, sequence, count,
          crashes, durable>>

-----------------------------------------------------------------------------
(* Ring arithmetic. *)

\* Fault: the end of the ring is one block too late.
NextJournalBlockLate(p) == IF p = JournalSize THEN 0 ELSE p + 1

\* next_journal_block
NextJournalBlock(p) == IF p + 1 = JournalSize THEN 0 ELSE p + 1

-----------------------------------------------------------------------------
(* commit_transaction *)

\* A message handler has changed some blocks and commits them.
BeginTransaction(blocks) ==
    /\ phase = "idle"
    /\ count < MaxTransactions
    /\ count' = count + 1
    /\ dirty' \in SetToSeqs(blocks)
    /\ cache' = [b \in Blocks |-> IF b \in blocks THEN <<b, count'>> ELSE cache[b]]
    /\ logged' = 0
    /\ phase' = "journal"
    /\ UNCHANGED <<home, journal, next, sequence, crashes, durable>>

JournalData ==
    /\ phase = "journal"
    /\ logged < Len(dirty)
    /\ journal' = [journal EXCEPT ![next] =
                      [kind |-> "data", content |-> cache[dirty[logged + 1]]]]
    /\ next' = NextJournalBlock(next)
    /\ logged' = logged + 1
    /\ UNCHANGED <<cache, dirty, phase, home, sequence, count, crashes, durable>>

\* Fault: the addresses are listed in the wrong order.
CommittedBackwards == [kind |-> "commit", sequence |-> sequence, sector |-> Reverse(dirty)]

Committed == [kind |-> "commit", sequence |-> sequence, sector |-> dirty]

JournalCommit ==
    /\ phase = "journal"
    /\ logged = Len(dirty)
    /\ journal' = [journal EXCEPT ![next] = Committed]
    /\ next' = NextJournalBlock(next)
    /\ sequence' = sequence + 1
    /\ phase' = "home"
    /\ durable' = cache
    /\ UNCHANGED <<cache, dirty, logged, home, count, crashes>>

\* write_buffer takes a block off the dirty list; with the last one
\* commit_transaction returns and the handler replies.
WriteHome ==
    /\ phase = "home"
    /\ home' = [home EXCEPT ![Head(dirty)] = cache[Head(dirty)]]
    /\ dirty' = Tail(dirty)
    /\ phase' = IF Len(dirty) = 1 THEN "idle" ELSE "home"
    /\ UNCHANGED <<cache, logged, journal, next, sequence, count, crashes, durable>>

-----------------------------------------------------------------------------
(* replay_journal *)

\* The commit blocks in the journal, which the scan finds in this order.
Commits == {p \in Slot : journal[p].kind = "commit"}

\* The number of a commit in the scan.
Number(p) == Cardinality({q \in Commits : q <= p})

\* The commit after p in the scan, which is the first one again after the last.
NextCommit(p) ==
    LET later == {q \in Commits : q > p}
    IN  Min(IF later = {} THEN Commits ELSE later)

\* Commits whose successor in the ring does not have the next sequence number.
Gaps == {p \in Commits : journal[NextCommit(p)].sequence # journal[p].sequence + 1}

Newest == CHOOSE p \in Gaps : TRUE

\* The journal slot with data block j of the commit at slot p.
DataSlot(p, j) ==
    LET at == p - Len(journal[p].sector) + j - 1
    IN  IF at < 0 THEN at + JournalSize ELSE at

\* What the home locations become when the newest transaction is written to the
\* addresses in its commit block.
Restored ==
    LET addr == journal[Newest].sector
    IN  [b \in Blocks |->
            IF \E j \in DOMAIN addr : addr[j] = b
            THEN journal[DataSlot(Newest, CHOOSE j \in DOMAIN addr : addr[j] = b)].content
            ELSE home[b]]

\* What replay_journal makes of them: it indexes the addresses with the number
\* of the commit in the scan and not with that of the data block, so all data
\* blocks go to one place; past the end of the list the address is 0.
Replayed ==
    LET addr == journal[Newest].sector
        target == IF Number(Newest) <= Len(addr) THEN addr[Number(Newest)] ELSE Unused
    IN  [b \in Blocks |->
            IF b = target THEN journal[DataSlot(Newest, Len(addr))].content ELSE home[b]]

\* Fault: the number of the newest commit is used again.
ResumedSequenceAgain == journal[Newest].sequence

ResumedSequence == journal[Newest].sequence + 1

Crash ==
    /\ phase \in {"idle", "journal", "home"}
    /\ crashes < MaxCrashes
    /\ crashes' = crashes + 1
    /\ phase' = "down"
    /\ dirty' = <<>>
    /\ logged' = 0
    /\ UNCHANGED <<cache, home, journal, next, sequence, count, durable>>

\* START_SERVER finds SB_BUSY set.
Replay ==
    /\ phase = "down"
    /\ Cardinality(Gaps) = 1
    /\ home' = Replayed
    /\ cache' = Replayed
    /\ next' = NextJournalBlock(Newest)
    /\ sequence' = ResumedSequence
    /\ phase' = "idle"
    /\ UNCHANGED <<dirty, logged, journal, count, crashes, durable>>

\* The server is shut down, which saves the superblock with SB_BUSY clear, and
\* started: it takes journal_next and sequence from there and reads the blocks
\* again.
RestartServer ==
    /\ phase = "idle"
    /\ cache' = home
    /\ UNCHANGED <<dirty, logged, phase, home, journal, next, sequence, count, crashes, durable>>

-----------------------------------------------------------------------------
\* init_journal fills the ring with empty commits.
Init ==
    /\ cache = [b \in Blocks |-> <<b, 0>>]
    /\ dirty = <<>>
    /\ logged = 0
    /\ phase = "idle"
    /\ home = [b \in Blocks |-> <<b, 0>>]
    /\ journal = [p \in Slot |-> [kind |-> "commit", sequence |-> p, sector |-> <<>>]]
    /\ next = 0
    /\ sequence = JournalSize
    /\ count = 0
    /\ crashes = 0
    /\ durable = [b \in Blocks |-> <<b, 0>>]

Transactions == {s \in SUBSET Blocks : Cardinality(s) \in 1 .. MaxTransaction}

Next ==
    \/ \E blocks \in Transactions : BeginTransaction(blocks)
    \/ JournalData
    \/ JournalCommit
    \/ WriteHome
    \/ Crash
    \/ Replay
    \/ RestartServer

Spec == Init /\ [][Next]_vars

-----------------------------------------------------------------------------
(* Properties. *)

\* Every variable of the journal has its type.
JournalTypeOK ==
    /\ cache \in [Blocks -> Content]
    /\ dirty \in Seq(Blocks)
    /\ logged \in 0 .. MaxTransaction
    /\ phase \in {"idle", "journal", "home", "down"}
    /\ home \in [Blocks -> Content]
    /\ journal \in [Slot -> DataBlock \union CommitBlock]
    /\ next \in Slot
    /\ sequence \in Nat
    /\ count \in 0 .. MaxTransactions
    /\ crashes \in 0 .. MaxCrashes
    /\ durable \in [Blocks -> Content]

\* replay_journal: "Find the one commit where sequence does not increase by
\* one". However much of the ring the last transactions have overwritten,
\* before and after a crash, the scan finds exactly one, and it is the last
\* commit that was written.
OneNewest ==
    /\ Cardinality(Gaps) = 1
    /\ journal[Newest].sequence = sequence - 1

\* How many journal blocks were written after the one in slot p.
Age(p) == IF p < next THEN next - 1 - p ELSE JournalSize + next - 1 - p

\* The transaction being logged has not come round the ring to the data blocks
\* of the newest commit, which it does only when the two do not fit into the
\* ring together.
Intact == Age(Newest) + Len(journal[Newest].sector) < JournalSize

\* No replay has been made: the home locations are what the server wrote.
Unreplayed == crashes = 0 \/ (crashes = 1 /\ phase = "down")

\* At every block a stop may hit, the addresses and data blocks of the newest
\* commit and the home locations together hold the content of the last commit,
\* as long as the next transaction has not overwritten those data blocks.
\* (Of what is in the journal, not of what replay_journal writes. Transactions of
\* more than half of the ring do overwrite them before they are committed.)
Recoverable == Unreplayed /\ Intact => Restored = durable
==============================================================================
