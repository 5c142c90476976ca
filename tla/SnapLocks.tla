------------------------------ MODULE SnapLocks ------------------------------
(***************************************************************************)
(* The read locks of ddsnapd. A snapshot client that reads a chunk it      *)
(* shares with the origin holds a lock on it; a write of that chunk to the *)
(* origin is answered when the last hold is released.                      *)
(*                                                                         *)
(* The server handles one message at a time. Beside it run the clients:    *)
(* their reads and writes of the origin device start when the server has   *)
(* replied and end at any later moment, a read ends in FINISH_SNAPSHOT_READ *)
(* and a client that loses its server asks the next one again.             *)
(*                                                                         *)
(* Of the exceptions this module keeps which chunks each snapshot has one  *)
(* for: such a chunk is read from the snapshot store and needs no lock.    *)
(***************************************************************************)
EXTENDS Integers, Sequences, FiniteSets, SequencesExt, FiniteSetsExt

CONSTANTS Readers,           \* snapshot clients, each of a snapshot of its own
          Writes,            \* write requests origin clients may have outstanding
          Chunks,
          Requests,          \* sets of chunks a write request may ask for
          BucketOf,          \* snaplock_hash: chunk -> bucket
          Flushed,           \* readers of snapshots used after a flush of the origin
          MaxReads,          \* bound: reads one reader has under way
          MaxRestarts        \* bound: server restarts

ASSUME LocksAssumption ==
    /\ Requests \subseteq (SUBSET Chunks) \ {{}}
    /\ DOMAIN BucketOf = Chunks
    /\ Flushed \subseteq Readers
    /\ MaxReads \in Nat
    /\ MaxRestarts \in Nat

ASSUME ChunksAssumption == IsFiniteSet(Chunks)

Buckets == {BucketOf[c] : c \in Chunks}

\* struct snaplock with its lists: how many holds each reader has, and the
\* write requests that wait.
Lock == [chunk: Chunks, holds: [Readers -> Nat], waits: SUBSET Writes]

VARIABLES locks,      \* sb->snaplocks: bucket -> chain of locks
          holdcount,  \* pending->holdcount of each waiting write request
          write,      \* how far each write request is
          asked,      \* the chunks each write request is for
          connected,  \* readers connected to the server
          reading,    \* reader -> chunk -> reads of the origin under way
          finished,   \* reader -> chunk -> FINISH_SNAPSHOT_READs not yet handled
          excepted,   \* reader -> chunks its snapshot has exceptions for
          unflushed,  \* reader -> writes handled before its snapshot, not yet landed
          restarts

vars == <<locks, holdcount, write, asked, connected, reading, finished, excepted,
          unflushed, restarts>>
lockVars == <<locks, holdcount, write, asked>>
readVars == <<connected, reading, finished, excepted, unflushed>>

-----------------------------------------------------------------------------
(* Chains of locks. *)

Locked(c) == \E i \in DOMAIN locks[BucketOf[c]] : locks[BucketOf[c]][i].chunk = c

Unheld == [r \in Readers |-> 0]

AllLocks == UNION {{locks[b][i] : i \in DOMAIN locks[b]} : b \in Buckets}

\* Fault: a reader that holds the lock already is not counted again.
HeldOnce(chain, i, r) == [chain EXCEPT ![i].holds[r] = 1]

Held(chain, i, r) == [chain EXCEPT ![i].holds[r] = @ + 1]

\* Fault: the chain is not searched.
ReadlockNew(c, r) ==
    LET chain == locks[BucketOf[c]]
    IN  <<[chunk |-> c, holds |-> [Unheld EXCEPT ![r] = 1], waits |-> {}]>> \o chain

\* readlock_chunk: the chain with one more hold of r on c.
Readlock(c, r) ==
    LET chain == locks[BucketOf[c]]
    IN  IF Locked(c)
        THEN Held(chain, CHOOSE i \in DOMAIN chain : chain[i].chunk = c, r)
        ELSE <<[chunk |-> c, holds |-> [Unheld EXCEPT ![r] = 1], waits |-> {}]>> \o chain

\* Fault: the waiters of a chunk are answered with its first hold.
LastHoldAny(lock, r) == lock.holds[r] > 0

\* A release by r takes the last hold of a lock.
LastHold(lock, r) == lock.holds = [Unheld EXCEPT ![r] = 1]

\* release_chunk with release_lock: what becomes of the chain when r releases
\* the lock at position i. Without a hold of r, release_lock returns NULL,
\* which release_chunk stores over the lock: the rest of the chain is gone.
Released(chain, i, r) ==
    IF chain[i].holds[r] = 0 THEN SubSeq(chain, 1, i - 1)
    ELSE IF LastHold(chain[i], r) THEN RemoveAt(chain, i)
    ELSE [chain EXCEPT ![i].holds[r] = @ - 1]

\* Fault: a request is answered with the first of its waits.
AnsweredAtOnce(gone) == UNION {k.waits : k \in gone}

\* The requests whose last wait was on one of these locks.
Answered(gone) ==
    {w \in Writes : /\ \E k \in gone : w \in k.waits
                    /\ holdcount[w] = Cardinality({k \in gone : w \in k.waits})}

\* Locks that lost their last hold are freed: their waits are taken off the
\* pending requests and those without a wait left are answered.
Wake(gone) ==
    /\ holdcount' = [w \in Writes |->
                        holdcount[w] - Cardinality({k \in gone : w \in k.waits})]
    /\ write' = [w \in Writes |-> IF w \in Answered(gone) THEN "granted" ELSE write[w]]
    /\ UNCHANGED asked

-----------------------------------------------------------------------------
(* Snapshot clients. *)

\* The reads of a reader that the server has yet to hear the end of.
Underway(r) == FoldSet(LAMBDA c, n : reading[r][c] + finished[r][c] + n, 0, Chunks)

\* QUERY_SNAPSHOT_READ of a chunk without an exception; the reply lets the read
\* of the origin begin. (A chunk with an exception is read without a lock.)
QuerySnapshotRead(r, c) ==
    /\ r \in connected
    /\ c \notin excepted[r]
    /\ Underway(r) < MaxReads
    /\ locks' = [locks EXCEPT ![BucketOf[c]] = Readlock(c, r)]
    /\ reading' = [reading EXCEPT ![r][c] = @ + 1]
    /\ UNCHANGED <<holdcount, write, asked, connected, finished, excepted, unflushed, restarts>>

\* snapshot_read_end_io: the read is done, its release is queued.
EndRead(r, c) ==
    /\ reading[r][c] > 0
    /\ reading' = [reading EXCEPT ![r][c] = @ - 1]
    /\ finished' = [finished EXCEPT ![r][c] = @ + 1]
    /\ UNCHANGED <<lockVars, connected, excepted, unflushed, restarts>>

\* FINISH_SNAPSHOT_READ. A chunk that is not locked is passed over.
FinishSnapshotRead(r, c) ==
    /\ finished[r][c] > 0
    /\ finished' = [finished EXCEPT ![r][c] = @ - 1]
    /\ LET b == BucketOf[c]
           at == {i \in DOMAIN locks[b] : locks[b][i].chunk = c}
       IN  /\ locks' = IF at = {} THEN locks
                       ELSE [locks EXCEPT ![b] = Released(@, CHOOSE i \in at : TRUE, r)]
           /\ Wake({locks[b][i] : i \in {k \in at : LastHold(locks[b][k], r)}})
    /\ UNCHANGED <<connected, reading, excepted, unflushed, restarts>>

\* Fault: nothing is flushed.
UsedAtOnce(r) == TRUE

\* What happens between the creation of a snapshot and its first reader.
\* zumastor flushes the origin device after `ddsnap create' and before it sets
\* up the snapshot's device; a bare ddsnap does not. A flush waits at least for
\* the writes outstanding when the snapshot was created, if they come from the
\* page cache. (With direct writes no reader is in Flushed, nor is one when the
\* flush fails, as its status is ignored.)
FlushDone(r) == r \in Flushed => unflushed[r] = {}

ConnectReader(r) ==
    /\ r \notin connected
    /\ FlushDone(r)
    /\ connected' = connected \union {r}
    /\ UNCHANGED <<lockVars, reading, finished, excepted, unflushed, restarts>>

\* A lock after client r has released all its holds, and whether it stays.
Left(k, r) == [k EXCEPT !.holds[r] = 0]

Stays(k, r) == Left(k, r).holds # Unheld

\* Fault: the locks of a client are freed and nobody is woken.
FreeClientLocksSilently(r) ==
    /\ locks' = [b \in Buckets |->
                    SelectSeq([i \in DOMAIN locks[b] |-> Left(locks[b][i], r)],
                              LAMBDA k : k.holds # Unheld)]
    /\ UNCHANGED <<holdcount, write, asked>>

\* The elements of a set of positions in increasing order.
InOrder(S) ==
    {p \in [1 .. Cardinality(S) -> S] :
        /\ \A i, j \in DOMAIN p : i < j => p[i] < p[j]
        /\ \A k \in S : \E i \in DOMAIN p : p[i] = k}

\* free_client_locks: every hold of r in every bucket is released, and the locks
\* that nobody else holds leave their chain.
FreeClientLocks(r) ==
    LET staying(b) == {i \in DOMAIN locks[b] : Stays(locks[b][i], r)}
    IN  /\ \E order \in [Buckets -> UNION {InOrder(staying(b)) : b \in Buckets}] :
              /\ \A b \in Buckets : order[b] \in InOrder(staying(b))
              /\ locks' = [b \in Buckets |->
                              [i \in DOMAIN order[b] |-> Left(locks[b][order[b][i]], r)]]
        /\ Wake({k \in AllLocks : ~Stays(k, r)})

\* A snapshot client stops, its reads with it, and the server sees the
\* connection close.
DisconnectReader(r) ==
    /\ r \in connected
    /\ connected' = connected \ {r}
    /\ FreeClientLocks(r)
    /\ reading' = [reading EXCEPT ![r] = [c \in Chunks |-> 0]]
    /\ finished' = [finished EXCEPT ![r] = [c \in Chunks |-> 0]]
    /\ UNCHANGED <<excepted, unflushed, restarts>>

\* create_snapshot: the snapshot of a reader is replaced by a new one, without
\* exceptions. The server takes no notice of the origin writes it has granted
\* or keeps waiting, nor of those yet in its sockets.
CreateSnapshot(r) ==
    /\ r \notin connected
    /\ excepted' = [excepted EXCEPT ![r] = {}]
    /\ unflushed' = [unflushed EXCEPT ![r] = {w \in Writes : write[w] \in {"waiting", "granted"}}]
    /\ UNCHANGED <<lockVars, connected, reading, finished, restarts>>

-----------------------------------------------------------------------------
(* Origin clients. *)

IssueWrite(w, S) ==
    /\ write[w] = "idle"
    /\ write' = [write EXCEPT ![w] = "queued"]
    /\ asked' = [asked EXCEPT ![w] = S]
    /\ UNCHANGED <<locks, holdcount, readVars, restarts>>

\* QUERY_WRITE to the origin: make_unique gives every snapshot an exception for
\* the chunks, waitfor_chunk puts a wait on each lock found; the reply is sent
\* now or with the last of the waits.
QueryOriginWrite(w) ==
    /\ write[w] = "queued"
    /\ excepted' = [r \in Readers |-> excepted[r] \union asked[w]]
    /\ LET held == {c \in asked[w] : Locked(c)}
           wait(k) == IF k.chunk \in held THEN [k EXCEPT !.waits = @ \union {w}] ELSE k
       IN  /\ locks' = [b \in Buckets |-> [i \in DOMAIN locks[b] |-> wait(locks[b][i])]]
           /\ holdcount' = [holdcount EXCEPT ![w] = Cardinality(held)]
           /\ write' = [write EXCEPT ![w] = IF held = {} THEN "granted" ELSE "waiting"]
    /\ UNCHANGED <<asked, connected, reading, finished, unflushed, restarts>>

\* The client has the reply, its write reaches the origin device and is done.
WriteLands(w) ==
    /\ write[w] = "granted"
    /\ write' = [write EXCEPT ![w] = "idle"]
    /\ asked' = [asked EXCEPT ![w] = {}]
    /\ unflushed' = [r \in Readers |-> unflushed[r] \ {w}]
    /\ UNCHANGED <<locks, holdcount, connected, reading, finished, excepted, restarts>>

-----------------------------------------------------------------------------
\* The server stops and a new one starts. The locks and pending requests were
\* only in memory. Clients reconnect and requeue the queries they have no reply
\* to (`lost`: replies that got lost with the connection); releases not sent
\* are dropped by upload_locks, reads under way go on, and the UPLOAD_LOCK
\* messages about them are ignored.
RestartServer ==
    /\ restarts < MaxRestarts
    /\ restarts' = restarts + 1
    /\ locks' = [b \in Buckets |-> <<>>]
    /\ holdcount' = [w \in Writes |-> 0]
    /\ \E lost \in SUBSET {w \in Writes : write[w] = "granted"} :
        write' = [w \in Writes |->
                    IF w \in lost \/ write[w] = "waiting" THEN "queued" ELSE write[w]]
    /\ finished' = [r \in Readers |-> [c \in Chunks |-> 0]]
    /\ UNCHANGED <<asked, connected, reading, excepted, unflushed>>

-----------------------------------------------------------------------------
Init ==
    /\ locks = [b \in Buckets |-> <<>>]
    /\ holdcount = [w \in Writes |-> 0]
    /\ write = [w \in Writes |-> "idle"]
    /\ asked = [w \in Writes |-> {}]
    /\ connected = {}
    /\ reading = [r \in Readers |-> [c \in Chunks |-> 0]]
    /\ finished = [r \in Readers |-> [c \in Chunks |-> 0]]
    /\ excepted = [r \in Readers |-> {}]
    /\ unflushed = [r \in Readers |-> {}]
    /\ restarts = 0

Next ==
    \/ \E r \in Readers, c \in Chunks :
        QuerySnapshotRead(r, c) \/ EndRead(r, c) \/ FinishSnapshotRead(r, c)
    \/ \E r \in Readers : ConnectReader(r) \/ DisconnectReader(r) \/ CreateSnapshot(r)
    \/ \E w \in Writes, S \in Requests : IssueWrite(w, S)
    \/ \E w \in Writes : QueryOriginWrite(w) \/ WriteLands(w)
    \/ RestartServer

Spec == Init /\ [][Next]_vars

\* Reads end, and the server handles each message it is sent: its loop polls
\* all connections and reads from every one that is ready.
FairSpec ==
    /\ Spec
    /\ \A r \in Readers, c \in Chunks : WF_vars(EndRead(r, c))
                                     /\ WF_vars(FinishSnapshotRead(r, c))
    /\ \A w \in Writes : WF_vars(QueryOriginWrite(w))

-----------------------------------------------------------------------------
(* Properties. *)

\* Every variable of the lock server has its type.
LocksTypeOK ==
    /\ locks \in [Buckets -> Seq(Lock)]
    /\ holdcount \in [Writes -> Nat]
    /\ write \in [Writes -> {"idle", "queued", "waiting", "granted"}]
    /\ asked \in [Writes -> Requests \union {{}}]
    /\ connected \subseteq Readers
    /\ reading \in [Readers -> [Chunks -> Nat]]
    /\ finished \in [Readers -> [Chunks -> Nat]]
    /\ excepted \in [Readers -> SUBSET Chunks]
    /\ unflushed \in [Readers -> SUBSET Writes]
    /\ restarts \in 0 .. MaxRestarts

\* The chains hold one lock for a chunk at most, in the bucket of the chunk,
\* and no lock without a holder, which nothing would release.
ChainsSound ==
    \A b \in Buckets : \A i \in DOMAIN locks[b] :
        /\ BucketOf[locks[b][i].chunk] = b
        /\ locks[b][i].holds # Unheld
        /\ \A j \in DOMAIN locks[b] : locks[b][j].chunk = locks[b][i].chunk => i = j

\* A reader holds a chunk as often as it reads it or has yet to release it. The
\* reads that go on across a restart hold nothing in the new server; but no
\* hold is ever left without a read that will release it.
HoldsMatchReads ==
    \A r \in Readers, c \in Chunks :
        LET under == {k \in AllLocks : k.chunk = c}
            holds == IF under = {} THEN 0 ELSE (CHOOSE k \in under : TRUE).holds[r]
        IN  /\ holds <= reading[r][c] + finished[r][c]
            /\ restarts = 0 => holds = reading[r][c] + finished[r][c]

\* A request in the wait list of a lock is pending, and its hold count covers
\* all its waits: it is answered once, and not before its last wait is gone.
\* The count is exact until a restart: after one, the release of a read the new
\* server knows nothing of may cut the chain and lose locks.
PendingCounted ==
    \A w \in Writes :
        LET waits == {k \in AllLocks : w \in k.waits}
        IN  /\ Cardinality(waits) <= holdcount[w]
            /\ waits # {} => write[w] = "waiting"
            /\ \A k \in waits : k.chunk \in asked[w]
            /\ restarts = 0 => /\ holdcount[w] = Cardinality(waits)
                               /\ write[w] = "waiting" => waits # {}

\* The design document: the locking "ensures that a contending read always
\* completes before the write to the origin takes place or is initiated after
\* the new exception has been recorded": no write is let through to a chunk a
\* snapshot client reads from the origin. The only writes a read can meet are
\* those handled before the reader's snapshot was created, and the flush after
\* `ddsnap create' keeps it from them as well. (Until the server restarts, which
\* loses the locks.)
ReadsExcludeWrites ==
    restarts = 0 =>
        \A w \in Writes, r \in Readers :
            write[w] = "granted" /\ (\E c \in asked[w] : reading[r][c] # 0) =>
                w \in unflushed[r] /\ r \notin Flushed

\* As long as the server is up, a write to the origin gets its answer, whatever
\* reads come, end or break off while it waits, unless a snapshot created while
\* it waits is used without a flush: its reads find no exception for the chunk
\* and may hold it in turn for ever.
AnsweredWhileUp ==
    \A w \in Writes :
        write[w] = "queued" /\ restarts = 0 ~>
            \/ write[w] = "granted"
            \/ restarts # 0
            \/ \E r \in connected : w \in unflushed[r]
==============================================================================
