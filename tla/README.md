# A TLA+ verification of ddsnap

ddsnap is the snapshot block device of Zumastor (`src/trunk/ddsnap`). A user space
server, ddsnapd, keeps many snapshots of one origin volume in one snapshot store. Before
a chunk of the origin changes, its old content is copied to the store and an *exception*
records which snapshots share the copy. Kernel clients (a device mapper target) ask
the server before they write to the origin and before they read or write a snapshot.

These modules model the server's core, its exception tree and allocation bitmap, and the threads of a
client that run concurrently with it. TLC checks them on small instances. For every value of the constants
the TLA+ proof system proves the invariants of the snapshot table, the store, the read locks, the
journal, the allocator and the client, and that the exception tree loses none of its blocks and
chunks; that the store implements the abstract volume when snapshots
are only read, and that the allocator implements the pool of chunks the tree and the store take it for.
Of exception trees of up to two index levels it also proves that every lookup finds what is there,
and that the tree implements the map from chunks to exceptions the store takes it for; with three levels neither holds.

## 1. The system

Line numbers are those of `src/trunk/ddsnap/ddsnapd.c` unless another file is named.

| component | state | operations | modelled by |
|---|---|---|---|
| snapshot table | superblock list of snapshots (tag, bit, priority, persistent use count), `snapmask`, transient use counts, the snapshot each client is bound to, the list on disk | CREATE/DELETE_SNAPSHOT, IDENTIFY, disconnect, PRIORITY, USECOUNT, automatic release, START_SERVER, cleanup | `SnapTable` |
| copy-before-write store | exceptions per chunk, free chunks, data of origin and store, writes granted and on their way | QUERY_WRITE: `make_unique`, `copyout`, `ensure_free_chunks`; `delete_tree_range` | `SnapStore`, promise: `SnapVolume` |
| read locks | hash table of `snaplock` chains with holds and waits, pending write requests | QUERY_SNAPSHOT_READ, FINISH_SNAPSHOT_READ, QUERY_WRITE, disconnects | `SnapLocks` |
| metadata journal | dirty buffers, ring of journal blocks, home blocks, `journal_next`, `sequence` | `commit_transaction`, `replay_journal`, `init_journal` | `Journal` |
| exception B-tree, leaves | index nodes, leaves with directory and exceptions, root and levels in memory and in the superblock | `probe`, `add_exception_to_tree`, `delete_tree_range`, `traverse_tree_range` | `ELeaf`, `ETree`, promise: `ExceptionMap` |
| allocator and bitmaps, resize | bitmap blocks and where they are, free counts, deferred allocations | `alloc_chunk`, `free_chunk`, barrier commits, RESIZE: `change_device_sizes`, `adjust_bitmap` | `Allocator`, promise: `ChunkPool`; not the deferred mode |
| server loop | connections | poll, one message at a time | handlers are actions of the modules above |
| kernel client (`kernel/dm-ddsnap.c`) | query, pending, locked and release lists; flags and semaphores of three threads | map, worker, incoming, control, upload and requeue on recovery, destroy | `Client`; what the server sees of it in `SnapLocks` and `SnapStore` |
| agent (`ddsnap.agent.c`) | waiting clients, one server | NEED_SERVER, SERVER_READY, CONNECT_SERVER | two actions of `Client` |
| buffer cache (`buffer.c`) | hash, LRU, dirty and journaled lists | getblk, bread, write, evict | not modelled |
| replication (`ddsnap.c`, `delta.c`, `zumastor/`) | deltas, held snapshots, schedules | transmit and apply deltas, rotate snapshots | not modelled |
| ddraid | a separate cluster RAID target | | not modelled |

**Interaction.** The server is one process that polls its connections and handles one
message at a time: handlers do not interleave with each other, so a handler is one
action unless something outside the server can happen in the middle of it. What does run
concurrently: the clients' disk I/O, which starts when the server has replied and ends at
any later moment; messages on their way; clients that come and go; a server that stops
between any two disk writes. The components share the superblock (list, mask, sequence)
and the exception tree; the allocator and the tree change blocks in the buffer cache,
which the journal makes durable at the end of each handler. In a client three threads share
lists, flags and semaphores, with the block layer and the interrupts of disks beside them.

**What is hard.** Writes in flight while snapshots are created, released and deleted. A
write that releases snapshots to find room, possibly the one it writes to. Bits that are
recycled while clients of their former snapshot are connected. Locks that a write waits
for while readers come and break off. A server that loses all locks and transient counts and
whose clients carry on. Stops in the middle of a commit or between two saves. A tree that is
merged while it is walked, with a commit in between. Threads that hand a recovery to each other.
`PROJECT.json` lists these hazards at their lines, with the properties that cover them or
the reason why none does yet.

## 2. The modules

**`SnapTable`**: one action per message. `snaps`, `snapmask`, `transient` are
`image.snaplist`, `sb->snapmask`, `sb->usecount`; `disk` is the list of the superblock
on disk, which changes only where the code saves it (`delete_tree_range`,
`save_sb_check`, `cleanup`). `bound` is `client->snaptag`. A squashed snapshot has the
bit `MaxSnapshots`, as `SNAPSHOT_SQUASHED` is `MAX_SNAPSHOTS`. `Crash` is a stop without
cleanup and the next start from `disk`; it stands for failed assertions too. A stop in
the middle of a deletion is not modelled, nor a second IDENTIFY on one connection (the code would count it twice).

**`SnapStore`** extends `SnapTable`. `exc[c]` is the set of exceptions of chunk `c`, what
the B-tree maps it to. A QUERY_WRITE takes several steps: the message is read and the
snapshot's bit looked up (`QueryOriginWrite`, `QuerySnapshotWrite`), snapshots are
released while there is no room (`EnsureFreeChunks`), then the copy and the reply
(`GrantUnique`, `GrantCopied`) or an error. `Land` is the client's disk write. Abstracted:
requests are for one chunk, as the kernel target sends them (`target->split_io`,
`kernel/dm-ddsnap.c:623`, and the assertion `chunks == 1`); metadata chunks are
not counted, so a write needs one free chunk where the code, with a combined store, asks
for eleven; two identical writes in flight are one. A device is removed, and
a server stopped, when the writes to its snapshots have landed.

**`SnapVolume`** says what a user is promised: the origin and every snapshot
are devices of their own, and a snapshot starts as a copy of the origin. Its `unsettled` chunks
are the exact form of what remains open at the creation: a write granted before the snapshot and not
yet landed is seen by it, until the next write to that chunk is granted. `SnapStore` refines it under the mapping `Volume` at the
end of that module.

**`SnapLocks`**: `locks[b]` is the chain of bucket `b`, in order, because the code cuts
chains; a lock has holds per reader and a set of waiting writes; `holdcount` is that of
the pending request. A reader has reads under way (`reading`) and releases that the server
has not handled (`finished`). A restart drops locks and pending requests, requeues what has no reply,
drops unsent releases and lets reads go on, as `upload_locks` and
`requeue_queries` do. `FreeClientLocks` takes what stays of each chain in its
order (`InOrder`, written without recursion for the proofs). Of the exceptions only the chunks each snapshot has one for are
kept. Writes may ask for several chunks, which the protocol allows. `CreateSnapshot` takes no notice of origin writes, as
`create_snapshot` does not; `unflushed` remembers for each reader the writes the server had handled before its snapshot and that have not landed. What keeps them from the
snapshot's reads is outside the server: zumastor runs `blockdev --flushbufs` on the origin after `ddsnap create` and before it maps the
snapshot (`zumastor/lib/zumastor/common:267`; a file system on xfs is frozen around the create as well). A reader in the constant `Flushed`
connects when those writes have landed (`FlushDone`). The others stand for a ddsnap used without zumastor (`ddsnap/README:106`), for
direct writes, which no flush waits for, and for a flush that fails, as its status is ignored.

**`Journal`**: one step per block written, in the order of `commit_transaction`, and a
stop between any two of them. A block's content is the block and the number of the transaction
that wrote it. `Replayed` is what `replay_journal` writes; `Restored` is what the same commit block
would restore if addresses were taken by data block, and `Intact` says that the next transaction has not overwritten the data of the newest. The mode is the default one, without
`RUN_DEFER`.

**`ELeaf`** is the leaf: a directory that grows up, exceptions that grow down, and the
pure operations on them (`add_exception_to_leaf`, `split_leaf`, `merge_leaves`, the deletion of
bits). Offsets are kept as in the code, counted in units of a directory entry, and the exceptions as the
sequence that ends where the block ends; `EMap` computes a position from an
offset, so an offset that went wrong makes the wrong exceptions appear.

**`ETree`**: `leaf` and `node` map sectors to blocks, `root` and `levels` are those of
the superblock in memory and `super` those on disk, `used` the bits of the allocation
bitmap. A path is the C array `path[]` with `pnext` as an index; keys are
copied where the code copies them, the first key of a node included, because the code
does not treat it as absent everywhere. `MakeUnique` is one action,
as `make_unique` is one transaction: the climb is a recursive function over the path. `delete_tree_range` commits
as it goes, so `DeleteLeaf`, `PopNode`, `PushNode`, `DropLevel` and `FinishDelete` are
actions, in the order of its loops. Each chunk of the
volume takes its exceptions from chunks of its own (`Pool`): the tree does not look at them, and
fewer orders need to be told apart.

**`ExceptionMap`** is what `SnapStore` assumes of the tree: a map from chunks to exceptions. A release drops the
bits from some chunks at a time, because the walk does. `ETree` refines it under the mapping at its end.

**`Allocator`** is the bitmap of a combined store, bit by bit: `bits` those set in the buffer cache and
`disk` those in the blocks on disk, `base` and `bitmaps` where the blocks are (`bitmap_base`,
`bitmap_blocks`), `last` is `last_alloc`. `FromRange` is the scan of `alloc_chunk_from_range`: whole bytes, round
the ring of blocks. `Shrink`, `GrowInPlace`, `Relocate` and `Refuse` are the ways through `adjust_bitmap`;
the relocation copies what is on disk, and RESIZE, unlike the requests that allocate, commits nothing. `owned` has
no counterpart in the code: it is what the tree and the exceptions use. A chunk is a unit
for both data and metadata, as in a store without a metadata device. Abstracted: sectors, `RUN_DEFER`, unclean stops, and
buffers of added space left from before a shrink. `ResizeCarefully` excludes the resizes that go wrong (section 3).

**`ChunkPool`** is the view `ETree` and `SnapStore` take of the allocator: free chunks are given out
one at a time as long as there is one, and a change of size takes no chunk from anybody. `Allocator` refines it.

**`Client`**: one step is what a thread does up to the next semaphore, spinlock or socket
operation; `in`, `wk`, `ct` say where the threads `incoming`, `worker` and `control`
are. `sems` are the semaphores by value, `flags` the bits of `info->flags`. A hook is named by
its request; `locked` and `releases` are the lists of hooks, `lazy` is `dont_switch_lists`. A
socket is the number of its connection; `broken` holds those that lost their other end, on which a
send may fail or be lost. The server answers queries on a live connection in any order and with
any of the replies `replied_rw` distinguishes; the agent answers NEED_SERVER with a new connection, until it exits. `report_error` is two
steps per thread, as it waits for `recover_sem` in the middle. Abstracted: flag changes
are taken as atomic though the code uses plain `|=` and `&=`; a hook that is freed at
the end of a read while the device is not ready stays on `locked` in the model as in the code, but
can still be read there (in C it is a use of freed memory, and `upload_locks` walks
that list); the messages of an upload are not sent, since the server ignores them; and `ddsnap_map` tests the ready flag and queues the
request in one step.

`MCSnapTable`, `MCSnapStore`, `MCSnapLocks`, `MCJournal`, `MCETree`,
`MCAllocator` and `MCClient` instantiate them for TLC.
Operators headed "Fault:" are slips the code could have made in
the definition they stand before; the specification does not use them. Each one makes the
property it is paired with in `PROJECT.json` fail when it replaces that definition.

## 3. The runs

| run | bounds | shows |
|---|---|---|
| `MCSnapTable` | 3 tags, 2 clients, 2 snapshots, use counts to 2, priorities 0 and 127 | types; tags and bits identify snapshots, in memory and on disk; no count outlives its snapshot; the u16 sum of use counts never wraps; the victim is the one the comment on `find_victim` describes; nothing deletes a snapshot in use |
| `MCSnapStore` | 2 snapshots, 2 chunks, 2 chunks of store, 1 client, 1 write in flight | a store chunk is free or has one owner; share masks are disjoint and not empty; what is unshared stays so; every request is answered |
| `WritableSnapshots` | 1 chunk, 3 chunks of store, 2 writes in flight, snapshots written to | `SnapStore` implements `SnapVolume`, with copies between snapshots, while the store does not run full |
| `MCSnapLocks` | 2 readers with 2 reads each, 2 writes of 1 or 2 chunks, 1 bucket, 1 restart, one reader flushed for and one not | chains are sound, holds match reads, waits match hold counts, reads of the flushed reader and writes exclude each other, reads of the other meet only writes handled before its snapshot, writes are answered while the server is up |
| `MCJournal` | 3 blocks, ring of 5, transactions of up to 3 blocks, 4 transactions, 2 stops | the scan finds one newest commit, the last one written, and the journal holds all of it until it is overwritten |
| `MCETree` | 4 chunks, 2 snapshots, leaves of 9 units, nodes of 2 entries, 2 levels | leaves are sound, `probe` finds what is in the tree between the leaves and nodes a deletion visits too (from the root in memory, not at the commit inside a leaf), blocks and chunks are accounted for, a split makes room, changelists are right, the tree implements `ExceptionMap`, a deletion ends |
| `LookupFinds` | 6 chunks, 3 levels, one exception per chunk | violated, see below |
| `RestartFinds` | as `MCETree` | violated, see below |
| `MCAllocator` | sizes from 4 to 14, bytes of 2 bits, blocks of 2 bytes | the bitmap, the free count and the chunks in use agree through every careful change of size, the rest of a byte is never free, and `Allocator` implements `ChunkPool`: every free chunk is found |
| `MCClient` | 1 request, 2 connections, agent and device that may end | a request is given back once and a read released once; nothing waits on a device that lost its agent; loss of the agent ends all requests; a lasting connection serves them; an idle device can be destroyed |
| `RequestsServed` | as `MCClient` | violated, see below |
| `NewSnapshotSharesOrigin` | 1 chunk, 1 chunk of store | violated, see below |

Two snapshots with three tags are enough for a list to be full, for a bit to
be recycled under a connected client and for a name to be used again. A store of
two chunks runs full after two copyouts, in the middle of a third; one chunk of data per
snapshot more shows no new sharing pattern, since chunks interact only
through the store. One bucket puts all locks into one chain, the only case in which
locks of different chunks touch each other. In a ring of 5 a transaction of one block and one of two fit together, with their commits;
two of two blocks overlap in the oldest block, and one of three blocks takes more than half of the ring and overwrites
data of the one before while that is the newest. So every order of overwriting occurs, and the ring wraps.
Nodes of two entries and leaves that hold a chunk with all its exceptions and one more make every
insertion split and every release merge; four chunks fill a tree of two levels, where nodes are split, merged and
dropped, and six are the fewest with which a third level is merged. A byte of two bits has a first and a last half, which is all
the scan tells apart, and blocks of two bytes put the end of a store in every position of a byte and a block; sizes to 14 need one to four
blocks, so that the bitmap grows in place, moves, moves again and shrinks. One request suffices for the
client's liveness, since requests share nothing but semaphores; that it may be sent, answered, requeued and flushed at the same time
needs no second one, and the invariants are proved for any number. Two connections are one that
breaks and one that lasts.

Four runs show where the code differs from what its documents or comments
say; `PROJECT.json` quotes the lines.

- `NewSnapshotSharesOrigin`: a client writes to a snapshot, the store is full, and that very snapshot is
  squashed to make room; the write still records an exception under
  the old bit, and the next snapshot with that bit starts with foreign data.
- `LookupFinds`: `remove_index` leaves the first keys of the nodes it climbs past as they
  were, and `merge_nodes` moves such a key into the middle of a node. After one release in a
  tree of three levels, `probe` leads to the wrong leaf for a chunk that has an exception.
- `RestartFinds`: the write that adds a level to the tree is acknowledged with the
  new root in memory only. A server that starts from the disk reads the old root.
- `RequestsServed`: a connection breaks just after the first; `incoming` has set the report bit
  and not yet taken `recover_sem`; the worker ends the recovery it is in, which clears the
  bit, meets the error itself, takes the semaphore and waits for a new connection, which
  nobody asks for.

The other modules contain more such disagreements; no run of its own states them, because
the properties are stated for the part they do not touch.

- A squash of a snapshot in use is on disk only after the next save (2488); a stop before that
  brings the snapshot back without its exceptions, showing the current origin
  as its content. `DiskConsistent` speaks of names and bits.
- A snapshot created between the grant and the landing of an origin write, and used without a flush, has its
  reads sent to the origin while the write is under way (3598), against the design document ("This ensures that a contending
  read always completes before the write to the origin takes place or is initiated after the new exception has been recorded",
  `doc/cluster_snapshot_design.txt:546`). `MCSnapLocks` has such a reader; `ReadsExcludeWrites` says which writes it, and nobody else, may
  meet. `SnapVolume` has `unsettled` for what such a snapshot may see.
- Of a restart the design document says that locks are lost "but that does not matter because the reads will have completed
  by the time the reading client reconnects" (723). Nothing makes the client wait: reads under way go on, the new server ignores UPLOAD_LOCK (3788) and
  grants a write to the chunk. When such a read ends and its reader releases a lock the new server gave to another one,
  `release_lock` returns NULL (2979), the chain is cut, and a write that waits there is never answered. The model has both.
  `AnsweredWhileUp` ends at a restart; `ReadsExcludeWrites` and the exact halves of
  `HoldsMatchReads` and `PendingCounted` hold until the first one.
- `replay_journal` uses `commit->sector[i]` with the index of the commit, not of the
  data block (835), so that all blocks of a transaction are replayed to one address. `Replayed` does so too; `Recoverable` is about
  what the journal holds, and is not judged after the first replay.
- A transaction larger than half of the ring overwrites data of the newest complete one before its
  own commit block is written; the code allows the ring less ten blocks (1671), and deletions of large snapshots gather as much.
  `MCJournal` has such transactions. A stop then cannot be recovered from: `Recoverable` speaks of the time until the data is overwritten (`Intact`).
- Creating a snapshot with a full list evicts an idle one before it sees that the tag exists (2677): the create fails
  and the other snapshot is gone. `DiskConsistent` and `TableConsistent` speak of what is left.
- With a metadata device of its own the snapshot store reserves nothing (`init_bitmap_blocks` with 0, 1288), so
  its chunk 0 can be given to an exception; but `make_unique` (2525) and QUERY_SNAPSHOT_READ (3671) take
  the chunk 0 for "no exception", and such a snapshot reads the origin. The runs number the store from 1, and the
  theorem about `SnapVolume` names the hypothesis.
- Resizing goes wrong in three ways, and each of them makes `BitmapAgrees` fail when `ResizeCarefully` is `FALSE`. Shrinking
  (3165) leaves the rest of the last byte clear, or what was the rest before set, though line 1206 says of it "They'll never be freed
  so we don't have to worry"; the first kind of chunk can be given out behind the end of the store. Shrinking below `last_alloc` makes `total - last` wrap in
  `alloc_chunk` (2115). Two resizes in a row: RESIZE changes the bitmap in dirty buffers and does not commit, and the next
  relocation copies the blocks from the disk (3204). Beyond the model: an unclean stop after a RESIZE that moved the bitmap
  finds the old place in the superblock, and its blocks given out as free chunks.
- A squash frees chunks of the store to which a granted write is on its way (2486).
  `WritableSnapshots` has a store that does not run full.
- Between a leaf merge that empties an index node and the node's own merge, a commit leaves a node
  without entries on disk; `probe` would follow an entry that is not there. `ProbeFinds` excludes
  these states.
- A changelist against the origin compares with the mask of all 64 bits, so it is wrong when all 64 are
  taken. `ChangelistRight` excludes that.
- If the control thread cannot send IDENTIFY it exits, and the loss of the agent then goes unnoticed; an
  IDENTIFY_OK read after the agent is lost makes the device ready again, with
  nobody left to connect it. `AgentLossEnds` speaks of the requests the flush finds.
- A device destroyed while two threads report an error may hang, as they share one
  wake-up; `DestroyEnds` speaks of threads that wait for work.

**Fairness.** `RequestAnswered` assumes `WF(ServerStep)` and `DeletionEnds` `WF(Walk)`: the
server process goes on with the request it has read. `AnsweredWhileUp`
assumes weak fairness of the end of each read (the disk answers), of each release and each
write query being handled: `snap_server` serves every socket that poll reports as
ready in each round. No fairness is assumed of clients that start reads, disconnect or
take snapshots, nor of restarts. New reads may come for ever, but a reader with an exception for the chunk does not
lock it, which is why a waiting write is not starved. This leans on the flush: a snapshot created while the write waits
has no exception, and if it is used without a flush, overlapping reads by one client, or by clients of ever newer snapshots, may hold the chunk
for ever. `AnsweredWhileUp` therefore excepts writes that such a reader is connected beside; TLC finds the starvation without that exception. In `Client`, the threads, the agent's connecting, the
server's answers and the ends of I/O are weakly fair, and `incoming` and `worker` strongly: they wait on
semaphores that others may take first, and a semaphore wakes its waiters in order. No fairness is assumed
of `ddsnap_map`, of connections that break, of the agent's end or of `ddsnap_destroy`; the last connection of the bound is the one
that lasts. `ServedWhenConnected` adds the condition that no connection breaks.

Deadlock is checked in all runs but those of `MCClient`, where a device that has been destroyed, or
whose requests are all done, does stop.

## 4. The proofs

Eight modules hold the proofs, and the lemmas each of them needs stand in the module itself.

`SnapStoreProofs` begins with the snapshot table alone. It proves, for every set of tags, every
finite set of clients, every list size and count bound:

- `TypeCorrect`, `ListAndMaskAgree`, `DiskNamesSnapshots`, `FreshBitsUnused`,
  `UseCountNeverWraps`: the invariants of the run `MCSnapTable`;
- `SnapshotsInUseStay`: the action property `InUseKept`, a crash included;
- `NoPhantomUsers`: no more clients are counted on a snapshot than are connected to it;
- `VictimIsRight`: `find_victim` finds the snapshot its comment names.

Assumptions: `TableAssumption` (the list has room for one snapshot, counts have a bound
above zero, priorities are s8 and contain 0, `NoTag` is no tag) and `ClientsAssumption`
(finitely many clients, needed to count them). TLC evaluates both on each run of `MCSnapTable` and
`MCSnapStore`.

The argument. None of the five invariants is inductive alone. `TableConsistent` after a crash
needs the list on disk to be consistent; that needs the list in memory to be, since every
save copies it; a squash saves the list *before* the bit is marked, so memory and disk differ
in bits but never in names. `UseCountFits` needs `IdleBitsUncounted`, as a new snapshot
adopts the count of its bit. `IInv` is their conjunction with types, split in three:
`ListInv` speaks of any list, mask and counts, so that it serves memory and disk, and
lemmas say what appending, removing and squashing an entry do to it. Each action has one lemma.
`InUseKept` follows from `IInv` per action: whatever removes an entry checks its use count, and
a restart takes a list that names all of them. `NoPhantomUse` needs more (`UseInv`): clients
bound to a name that left the list and came back under a fresh bit are more
than are counted, never fewer, so the proof compares the count with the cardinality of the
set of bound clients and shows that each step moves both the same way or
resets the count.

`VictimIsRight` is about a fold over a sequence. A fold is a function chosen for a recursive equation, and the
library's induction theorems cannot be used (see below), so the proof guesses what the scan computes, `Best`: the
first of the lightest entries, where the weight puts "in use" above the priority. `BestStep` shows that one
step of the scan takes the best of the entries before to the best; hence `Best` satisfies the equation, so the
chosen function does too; and by the least counterexample (`LeastNat`) no other function satisfies it
(`ScanIsBest`). Ties go to the older entry because the scan goes upwards and moves only to a lighter one.

Then it proves the four properties of `SnapStore` that no fairness is needed for, under
`StoreAssumption` (a finite store, numbered by naturals): `StoreTyped`, `SharesExclusive`,
`ChunksAccounted`, `UnsharingIsPermanent`. The invariant `SInv` is that of the table with `TreeInv`, `DataInv`
and `EmptySaved`. `TreeInv` puts disjoint masks and chunk ownership together, because they cannot be
told apart: a deletion frees the chunks of the exceptions whose mask becomes empty, so
the masks must be right for the owners to be. `EmptySaved` says that an empty list has been saved: a
server that dies on the assertion in `find_victim` starts with an empty list again. `StoreRunsTable` shows that every behaviour
of `SnapStore` is one of `SnapTable`, so the theorems about the table hold of the store too.

`SnapStoreProofs` also proves the refinement, `ReadOnlyImplementsVolume`, when clients do not write to snapshots
(`WritableTags = {}`) and chunk 0 is not given out (`NONE \notin StoreChunks`). Beside `SInv` it needs `OriginInv`: requests and
grants are for the origin, and exceptions carry bits of the mask only, so that no exception has the
bit a new snapshot gets. Each step of the store maps to a step of the
volume: creation to `Take`, the removal of an entry and its exceptions to `Drop`, the copyout before a
grant to `GrantOrigin`, the client's write to `LandOrigin`; the rest stutters. No run checks this instance: `WritableSnapshots` checks the
other one, in which clients write to snapshots and the store has room.

`ClientProofs` proves the four invariants of `MCClient` for any finite set of requests and any number of
connections (`ClientAssumption`). `CompletedOnce` is inductive with types, since each list operation
moves a request under one lock; but `ReleasedOnce` is not: `upload_locks` puts ended hooks of `locked` on `releases`, so
one must know that a hook on `releases` is neither on `locked` nor under way, and that hooks
were ended once (`HooksEnded`). `QueuedWhileReady` is preserved by the requeue only because a flush also empties `pending`. `IInv`
is the conjunction of the five; there is one lemma per action.

`SnapLocksProofs` proves the invariants of `SnapLocks`, under `LocksAssumption` and
`ChunksAssumption` (finitely many chunks, so that the waits of a request can be counted by chunk).
`ChainsSound`, `HoldsMatchReads` and `PendingCounted` need each
other: a release that does not find its lock cuts the chain, which loses holds and waits; that it finds
it follows from holds being equal to reads, which is true until a restart. The exclusion of reads and writes needs two parts more: once a write was
handled every snapshot has an exception for its chunks, so no reader puts a new lock on them (`ExceptedInv`), and the write waits on every lock
there was (`WaitingInv`). Both except the snapshots created since, for whose readers the write is in `unflushed`. So a read can meet no write but one handled
before its snapshot; and as no reader in `Flushed` is connected with such a write outstanding (`FlushInv`), it meets none at all. `OnlyUnflushedRace` says both.

`JournalProofs` is about a ring of any size. `Age` is how many blocks were written after the one in a slot.
Three facts make the scan right, and none of them is inductive without the others: younger commits have higher numbers, the
numbers have no gap below the newest, and the newest is exactly as old as the part of the next transaction that is
logged, hence never in the slot that is overwritten next. `Successor` and `AfterNewest` then say what follows each commit in the scan.
`ScanFindsOneNewest` and `JournalTyped` need no more than room for one transaction and its commit block, and neither does
`JournalRecovers`: as long as the next transaction has not reached the data blocks of the newest commit (`Intact`), which is all a
transaction larger than half of the ring leaves, they and the home locations are the last committed content. That it may reach them is described in section 3.

`AllocatorProofs` proves both properties of `Allocator`, `BitmapAgrees` and the refinement `ImplementsPool`, for bytes and
blocks of any number of bits, any set of sizes, and a superblock and a journal of any size (`AllocatorAssumption`: sizes
have room for what is reserved, a block is a whole number of bytes), when stores are resized carefully
(`ResizeCarefully`; without it both fail, see section 3). Neither is inductive: the allocator must know where the moved bitmap lies.
`AInv` says it in three parts. `Layout`: the bitmap has the blocks its size needs and lies apart from superblock and journal,
all of them inside the store, and `last_alloc` does too. `Placed`: the set bits are *exactly* the reserved chunks, the owned ones
and the rest of the last byte; with inclusion only, a shrink that clears a bit and a count of clear bits could not be told from
wrong ones. `Counted`: the free count. `ScanFinds` shows that a call of `alloc_chunk_from_range` looks at each byte from that of its first chunk to
that of its last one, and `GotRight` that the two calls of `alloc_chunk` between them look at every byte, so that a failure means a full
store, and that a clear bit is always a chunk (`ClearIsFree`), as the rest of the last byte is set. `ShrinkPlaces`, `GrowPlaces` and `RelocatePlaces` follow the three ways
through `adjust_bitmap`; each says where things are afterwards and by how much the number of chunks in use changes,
which is what RESIZE counts (`CountsRight`) and what START_SERVER reckons.

`ETreeProofs` proves `BlocksAccounted` and `ExceptionsAccounted` for trees of any number of levels, nodes and leaves of any size,
any chunks, finitely many snapshots and metadata blocks (`LeafAssumption`, `TreeAssumption`), from the inductive invariant
`IInv` (`TreeKeepsShape`). It has three parts.

- The index is a `Forest`: each block has a level, and each block but the tops is in exactly one entry of one node, of the level
  above. An insertion and a merge are composed of steps that keep a forest (a block becomes a top, gets a parent, loses it, goes),
  and after the last of them the root is the only top again. `ClimbedKeeps` follows an insertion up the path, `RootGrown` adds the new root.
- `BlocksAccounted` is not inductive, as what a deletion merges and removes depends on where its walk is:
  a wrong `hold` would link a block twice, a wrong `prev` would free one still linked. `Sound` says where: `Between` two blocks
  the path leads down from the root, each node held is the last one before the path on its level, and below
  the level of the path everything held is on the right edge of what was done. A level can be dropped only because
  then the root has one entry and nothing is held beside the path.
- A leaf is `Shaped`: each entry's exceptions begin where the exceptions of the one before end (`Placed`), so inserting, deleting bits, splitting
  and merging can be described by what they do to the set of chunks; `Fitting` says that the chunks of different leaves are disjoint and their
  union is `used`.

The lemmas about leaves are in `ELeafProofs`, which says of each operation what it does to the chunks of the store a leaf has.

Two things needed care. What a recursive function or a fold computes is not known to the provers, only chosen: `Below`, `Climbed`
and `InOrder` are shown to exist by ordinary induction on numbers (`NatInduct`), and sums over nodes are replaced by the
cardinality of a set of `Places`. And nothing in `ETreeProofs` is about the order of keys: from three levels on that order is broken
(`LookupFinds`), so the invariant must not and does not rest on it. It is thus also a result about the broken tree: a lookup may miss
an exception, but no block and no chunk is lost.

`ETreeOrderProofs` is about that order, for trees of one or two index levels (`MaxLevels <= 2`), any number of entries per node, leaves
of any size, any chunks, finitely many snapshots and metadata blocks. The theorems are

- `ProbeAlwaysFinds`, `LookupFindsOnTwoLevels`: `probe` leads to the leaf that has the exceptions of a chunk, between the steps in
  the middle of a deletion too;
- `SplitsAlwaysMakeRoom`: an exception has room in its half of a split leaf, so that `add_exception_to_tree` does not give up between the two;
- `TreeAlwaysTyped`: each leaf is as its operations expect it (`LeafSound`);
- `ChangelistAlwaysRight`: a changelist names the chunks that two snapshots see differently;
- `TreeImplementsMap`: the tree implements `ExceptionMap`.

The hypothesis is no convenience: `LookupFinds` shows the order broken with three levels. It is not a small case
either, as two levels of nodes lead to the square of `AllocPerNode` leaves. And it is needed for more than lookups:
`merge_leaves` appends one directory to another, which gives a directory in order only if the leaves are neighbours
in the order of the keys; so `TreeTypeOK`, whose leaves are all `LeafSound`, needs it too.

The invariant is `OrderInv` (`TreeKeepsOrder`). It adds three things to `IInv`.

- `InKeyOrder`. A node may be split or merged anywhere and keys above it go stale, so the order is not stated node by node. The lowest index nodes, read from
  left to right, are taken as *one* list of entries (`Flat`), of which the nodes are intervals. The list is in order (`Straight`) if the chunks of a
  leaf are not below the key of its entry and below the keys of all later entries. The first key of the list is never looked at, by `probe` or by the invariant.
  A split of a leaf puts an entry into the list, a merge takes one out; splitting and merging nodes does not change it (`RanksCut`, `RanksJoined`),
  only where its intervals end. Above is, with two levels, one node: `Headed` says that its keys are the first keys of the nodes
  below, but for its first, which nothing looks at. This is where a third level fails: `remove_index` corrects the key on the nearest level where the path is not at a first entry, and not those
  of the nodes between; with two levels there are none between.
- `Tidy`. A leaf is `Neat` if one can name an owner, a chunk, for each of its exceptions, such that each entry of its directory has just
  the exceptions of its chunk, and the directory ascends. An operation on a leaf is then what it does to the exceptions of each chunk, which is what a lookup sees: `ELeafProofs` has such
  lemmas for insertion, deletion of bits, split and merge, next to those on the set of all chunks of a leaf. And the exceptions of
  a chunk have non-empty shares of live bits, no two of them with a bit in common. This bounds their number, so that a leaf that is full has two chunks and can be split.
- `Swept`. The leaves before the place of the walk have none of the bits that are being deleted. The list of entries gives "before" a meaning while nodes
  are merged behind the walk and levels dropped above it. When the walk ends, no exception anywhere has the bits, so they may leave the mask.

The refinement maps an insertion to `Add`, the start of a deletion to `Release`, each leaf it visits to `DropSome`, its end to `Released`,
and a new snapshot to `Create`; the steps on index nodes stutter, and a merge of leaves changes nothing beside what its `DropSome` says. Outside a deletion the
contents of a chunk are what a lookup finds, during one what the leaves hold; that these are the same (`ContentsAre`) is `ProbeAlwaysFinds`.

Only model-checked: the refinement of `SnapVolume` with writable snapshots, for which a write granted to a snapshot that is squashed or deleted
before it lands would have to be followed through every step; and everything under fairness (`RequestAnswered`, `AnsweredWhileUp`, `DeletionEnds` and the
liveness of the client). Liveness and ENABLED are outside the prover's reach. So is induction by the library's theorems, which take an
operator as a parameter; a fold or a recursive function can be handled as in
`VictimIsRight` and `ETreeProofs` when what it computes has a closed form.

## 5. What is left, and what is not modelled

1. The deferred mode of the allocator (`RUN_DEFER`, off by default). Seen while reading: `set_allocated` (486) always uses
   the metadata bitmap, so a deferred allocation of the snapshot store marks the wrong one;
   a journal replay without a barrier replays the newest commit alone. A store with a metadata device of its own, whose two
   bitmaps are both moved into the metadata space, and the allocator composed with `Journal` for unclean stops.
2. The walk's commits composed with `Journal`: the commit inside a leaf (1731) may save a freed bit before the
   leaf that gave up the chunk.
3. `SnapStore` with requests of several chunks, and origin clients that disconnect with a write pending.
4. `Client` composed with `SnapLocks` for restarts; several clients of one agent.
5. Replication: deltas between snapshots, and use counts that hold them.
6. Proofs: `ImplementsVolume` with writable snapshots. The order of keys on more than two levels would need `remove_index` to correct them all.

Not modelled on purpose: the buffer cache (one process, its hash and LRU are not visible to the rest), device and process helpers (pure I/O), status and listing messages
(they change nothing), vendored xdelta, tests and build tools, old branches, ddraid (a separate system).
