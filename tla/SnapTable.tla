------------------------------ MODULE SnapTable ------------------------------
(***************************************************************************)
(* The snapshot table of ddsnapd: the list of snapshots in the superblock, *)
(* the mask of live sharing bits, the use counts, the clients bound to a   *)
(* snapshot, and the copy of the list in the superblock on disk.           *)
(*                                                                         *)
(* The server is single threaded (snap_server polls and handles one        *)
(* message at a time), so each message handler is one action.              *)
(***************************************************************************)
EXTENDS Integers, Sequences, FiniteSets, SequencesExt

CONSTANTS Tags,          \* external names of snapshots (u32 tag)
          Clients,       \* device clients that may bind to a snapshot
          NoTag,         \* a client that has not identified
          MaxSnapshots,  \* MAX_SNAPSHOTS: 64 in the code
          MaxCount,      \* largest u16 use count: 2^16 - 1 in the code
          Prios          \* priorities the PRIORITY message sets (s8)

ASSUME TableAssumption ==
    /\ MaxSnapshots \in Nat \ {0}
    /\ MaxCount \in Nat \ {0}
    /\ Prios \subseteq -128..127
    /\ 0 \in Prios
    /\ NoTag \notin Tags

\* The server has one socket per client.
ASSUME ClientsAssumption == IsFiniteSet(Clients)

Bit == 0 .. MaxSnapshots - 1
SQUASHED == MaxSnapshots
Pinned == 127                  \* the priority auto_delete_snapshot spares

Snapshot == [tag: Tags, bit: 0..MaxSnapshots, prio: Prios, use: 0..MaxCount]

VARIABLES snaps,      \* image.snaplist[0 .. image.snapshots), creation order
          snapmask,   \* set of bits of valid snapshots
          transient,  \* sb->usecount: bit -> clients counted, in memory only
          bound,      \* client->snaptag, NoTag when not a snapshot client
          disk        \* the snapshot list of the superblock on disk

tableVars == <<snaps, snapmask, transient, bound, disk>>

-----------------------------------------------------------------------------
(* Lookups. *)

Squashed(s) == s.bit = SQUASHED

UseCount(s) == (IF Squashed(s) THEN 0 ELSE transient[s.bit]) + s.use

TagsOf(list) == {list[i].tag : i \in DOMAIN list}

\* find_snap: the position of a tag that is in the list.
FindSnap(t) == CHOOSE i \in DOMAIN snaps : snaps[i].tag = t

\* Fault: the marker of a squashed snapshot counts as a bit.
MaskOfAll(list) == {list[i].bit : i \in DOMAIN list}

\* calc_snapmask
MaskOf(list) == {list[i].bit : i \in DOMAIN list} \ {SQUASHED}

\* Fault: a tie goes to the later entry.
BeatsOnTie(i, best) ==
    LET busy(k) == UseCount(snaps[k]) > 0
    IN  \/ ~busy(i) /\ busy(best)
        \/ busy(i) = busy(best) /\ snaps[i].prio <= snaps[best].prio

\* Candidate i takes the place of the best one so far: it is not in use while
\* best is, or it is as busy as best and has a lower priority.
Beats(i, best) ==
    LET busy(k) == UseCount(snaps[k]) > 0
    IN  \/ ~busy(i) /\ busy(best)
        \/ busy(i) = busy(best) /\ snaps[i].prio < snaps[best].prio

\* find_unused: the scan create_snapshot makes of a full table.
FindUnused ==
    FoldLeftDomain(LAMBDA best, i : IF Beats(i, best) THEN i ELSE best, 1, snaps)

\* find_victim: the same scan, never moving to a squashed snapshot and always
\* moving away from one.
FindVictim ==
    FoldLeftDomain(
        LAMBDA best, i :
            IF Squashed(snaps[i]) THEN best
            ELSE IF Squashed(snaps[best]) \/ Beats(i, best) THEN i ELSE best,
        1, snaps)

-----------------------------------------------------------------------------
(* delete_snap and the squash of auto_delete_snapshot, as table updates.   *)

\* The sharing bits a deletion of snapshot s takes out of the exception tree.
BitsOf(s) == {s.bit} \ {SQUASHED}

\* Fault: the transient count outlives the snapshot.
ClearNoCounts(bits) == [b \in Bit |-> transient[b]]

ClearCounts(bits) == [b \in Bit |-> IF b \in bits THEN 0 ELSE transient[b]]

\* delete_snap of position i. The caller says what reaches the disk: only
\* delete_tree_range saves the superblock, and a squashed snapshot skips it.
DeleteSnap(i) ==
    /\ snaps' = RemoveAt(snaps, i)
    /\ snapmask' = snapmask \ BitsOf(snaps[i])
    /\ transient' = ClearCounts(BitsOf(snaps[i]))

\* Fault: a squash that forgets to take the bit out of the mask.
SquashKeepingMask(i) ==
    /\ snaps' = [snaps EXCEPT ![i].bit = SQUASHED]
    /\ snapmask' = snapmask
    /\ transient' = ClearCounts(BitsOf(snaps[i]))
    /\ disk' = snaps

\* The squash of a snapshot in use: delete_tree_range saves the superblock
\* first, and the bit becomes SQUASHED in memory only after that.
Squash(i) ==
    /\ snaps' = [snaps EXCEPT ![i].bit = SQUASHED]
    /\ snapmask' = snapmask \ BitsOf(snaps[i])
    /\ transient' = ClearCounts(BitsOf(snaps[i]))
    /\ disk' = snaps

\* Fault: a squashed snapshot is released again.
NothingToReleaseButPinned == snaps[FindVictim].prio = Pinned

\* auto_delete_snapshot can release no snapshot and makes the write fail.
NothingToRelease ==
    LET v == snaps[FindVictim] IN Squashed(v) \/ v.prio = Pinned

\* auto_delete_snapshot, for a write that finds too few free chunks.
Release ==
    \E i \in DOMAIN snaps :
        /\ i = FindVictim
        /\ ~NothingToRelease
        /\ \/ UseCount(snaps[i]) > 0 /\ Squash(i)
           \/ UseCount(snaps[i]) = 0 /\ DeleteSnap(i) /\ disk' = snaps'
        /\ UNCHANGED bound

-----------------------------------------------------------------------------
(* The messages that change the table. *)

TableInit ==
    /\ snaps = <<>>
    /\ snapmask = {}
    /\ transient = [b \in Bit |-> 0]
    /\ bound = [c \in Clients |-> NoTag]
    /\ disk = <<>>

NewSnapshot(t, b) == [tag |-> t, bit |-> b, prio |-> 0, use |-> 0]

\* The lowest bit that is not in the mask.
FreeBit(b) == b \in Bit \ snapmask /\ \A k \in 0 .. b - 1 : k \in snapmask

\* Fault: the superblock is not saved.
CreateUnsaved(t) ==
    /\ Len(snaps) < MaxSnapshots
    /\ t \notin TagsOf(snaps)
    /\ \E b \in Bit :
        /\ FreeBit(b)
        /\ snaps' = Append(snaps, NewSnapshot(t, b))
        /\ snapmask' = snapmask \union {b}
    /\ UNCHANGED <<transient, bound, disk>>

\* create_snapshot with room in the list.
CreateWithRoom(t) ==
    /\ Len(snaps) < MaxSnapshots
    /\ t \notin TagsOf(snaps)
    /\ \E b \in Bit :
        /\ FreeBit(b)
        /\ snaps' = Append(snaps, NewSnapshot(t, b))
        /\ snapmask' = snapmask \union {b}
    /\ disk' = snaps'
    /\ UNCHANGED <<transient, bound>>

\* create_snapshot with a full list and an idle snapshot to make room with. A
\* tag that exists is refused only after that snapshot is gone; the deletion of
\* a squashed one is then not saved.
CreateEvicting(t) ==
    /\ Len(snaps) >= MaxSnapshots
    /\ \E i \in DOMAIN snaps :
        /\ i = FindUnused
        /\ UseCount(snaps[i]) = 0
        /\ LET rest == RemoveAt(snaps, i)
               mask == snapmask \ BitsOf(snaps[i])
           IN  IF t \in TagsOf(rest)
               THEN /\ DeleteSnap(i)
                    /\ disk' = IF Squashed(snaps[i]) THEN disk ELSE rest
               ELSE /\ \E b \in Bit \ mask :
                        /\ \A k \in 0 .. b - 1 : k \in mask
                        /\ snaps' = Append(rest, NewSnapshot(t, b))
                        /\ snapmask' = mask \union {b}
                    /\ transient' = ClearCounts(BitsOf(snaps[i]))
                    /\ disk' = snaps'
    /\ UNCHANGED bound

Create(t) == CreateWithRoom(t) \/ CreateEvicting(t)

\* Fault: only the persistent use count protects a snapshot.
DeleteIgnoringClients(t) ==
    /\ t \in TagsOf(snaps)
    /\ \E i \in DOMAIN snaps :
        /\ i = FindSnap(t)
        /\ snaps[i].use = 0
        /\ DeleteSnap(i)
    /\ disk' = snaps'
    /\ UNCHANGED bound

\* DELETE_SNAPSHOT of a snapshot whose use count is zero.
Delete(t) ==
    /\ t \in TagsOf(snaps)
    /\ \E i \in DOMAIN snaps :
        /\ i = FindSnap(t)
        /\ UseCount(snaps[i]) = 0
        /\ DeleteSnap(i)
    /\ disk' = snaps'
    /\ UNCHANGED bound

\* IDENTIFY of a snapshot client.
Identify(c, t) ==
    /\ bound[c] = NoTag
    /\ t \in TagsOf(snaps)
    /\ LET s == snaps[FindSnap(t)]
       IN  /\ ~Squashed(s)
           /\ UseCount(s) + 1 <= MaxCount
           /\ transient' = [transient EXCEPT ![s.bit] = @ + 1]
    /\ bound' = [bound EXCEPT ![c] = t]
    /\ UNCHANGED <<snaps, snapmask, disk>>

\* Fault: the transient count is not given back.
DisconnectCounted(c) ==
    /\ bound[c] \in TagsOf(snaps)
    /\ bound' = [bound EXCEPT ![c] = NoTag]
    /\ UNCHANGED <<snaps, snapmask, transient, disk>>

\* The connection of a snapshot client breaks and client_snap finds its
\* snapshot. (When it does not, the assertion stops the server: Crash.)
Disconnect(c) ==
    /\ bound[c] \in TagsOf(snaps)
    /\ LET s == snaps[FindSnap(bound[c])]
       IN  IF Squashed(s)
           THEN UNCHANGED transient
           ELSE /\ transient[s.bit] > 0
                /\ transient' = [transient EXCEPT ![s.bit] = @ - 1]
    /\ bound' = [bound EXCEPT ![c] = NoTag]
    /\ UNCHANGED <<snaps, snapmask, disk>>

\* PRIORITY: not saved until something else saves the superblock.
SetPriority(t, p) ==
    /\ t \in TagsOf(snaps)
    /\ snaps' = [snaps EXCEPT ![FindSnap(t)].prio = p]
    /\ UNCHANGED <<snapmask, transient, bound, disk>>

\* Fault: the underflow check counts the connected clients too.
AddUseCountBelowZero(t, d) ==
    /\ t \in TagsOf(snaps)
    /\ LET s == snaps[FindSnap(t)]
       IN  UseCount(s) + d \in 0 .. MaxCount
    /\ snaps' = [snaps EXCEPT ![FindSnap(t)].use = @ + d]
    /\ UNCHANGED <<snapmask, transient, bound, disk>>

\* Fault: the overflow check counts only the persistent use count.
AddUseCountWrapping(t, d) ==
    /\ t \in TagsOf(snaps)
    /\ snaps[FindSnap(t)].use + d \in 0 .. MaxCount
    /\ snaps' = [snaps EXCEPT ![FindSnap(t)].use = @ + d]
    /\ UNCHANGED <<snapmask, transient, bound, disk>>

\* USECOUNT with a change of d: the overflow check counts both use counts, the
\* underflow check only the persistent one. Not saved either.
AddUseCount(t, d) ==
    /\ t \in TagsOf(snaps)
    /\ LET s == snaps[FindSnap(t)]
       IN  IF d >= 0 THEN UseCount(s) + d <= MaxCount ELSE s.use + d >= 0
    /\ snaps' = [snaps EXCEPT ![FindSnap(t)].use = @ + d]
    /\ UNCHANGED <<snapmask, transient, bound, disk>>

\* A new server process reads the superblock; its transient counts are zero
\* and every client has to identify again.
Start(list) ==
    /\ snaps' = list
    /\ snapmask' = MaskOf(list)
    /\ transient' = [b \in Bit |-> 0]
    /\ bound' = [c \in Clients |-> NoTag]

\* A signal or SHUTDOWN_SERVER: cleanup saves the superblock, then a restart.
ShutDown ==
    /\ disk' = snaps
    /\ Start(snaps)

\* The server or the machine stops without cleanup, then a restart.
Crash ==
    /\ Start(disk)
    /\ UNCHANGED disk

-----------------------------------------------------------------------------
TableNext ==
    \/ \E t \in Tags : Create(t) \/ Delete(t)
    \/ \E c \in Clients, t \in Tags : Identify(c, t)
    \/ \E c \in Clients : Disconnect(c)
    \/ \E t \in Tags, p \in Prios : SetPriority(t, p)
    \/ \E t \in Tags, d \in {-1, 1} : AddUseCount(t, d)
    \/ Release
    \/ ShutDown
    \/ Crash

TableSpec == TableInit /\ [][TableNext]_tableVars

-----------------------------------------------------------------------------
(* Properties. *)

\* Every variable of the table has its type.
TableTypeOK ==
    /\ snaps \in Seq(Snapshot)
    /\ snapmask \subseteq Bit
    /\ transient \in [Bit -> Nat]
    /\ bound \in [Clients -> Tags \union {NoTag}]
    /\ disk \in Seq(Snapshot)

\* No two snapshots of a list carry the same name, and no two that are not
\* squashed the same bit.
DistinctEntries(list) ==
    \A i, j \in DOMAIN list :
        i # j => /\ list[i].tag # list[j].tag
                 /\ ~Squashed(list[i]) => list[i].bit # list[j].bit

\* The mask kept by create_snapshot and delete_tree_range is the one
\* calc_snapmask would compute, and tags and bits identify snapshots: no
\* create, eviction, squash or restart lets two snapshots share a bit.
TableConsistent ==
    /\ DistinctEntries(snaps)
    /\ snapmask = MaskOf(snaps)

\* The list on disk identifies snapshots as well, and every snapshot in memory
\* is in it: a restart never forgets a snapshot that a client could name.
DiskConsistent ==
    /\ DistinctEntries(disk)
    /\ TagsOf(snaps) \subseteq TagsOf(disk)

\* A bit that is not in the mask has no clients counted on it, so that the next
\* snapshot that takes the bit starts unused.
IdleBitsUncounted == \A b \in Bit \ snapmask : transient[b] = 0

\* The sum usecount() returns as a u16 never wraps, though IDENTIFY and
\* USECOUNT add to its two terms independently.
UseCountFits ==
    \A i \in DOMAIN snaps : UseCount(snaps[i]) <= MaxCount

\* No more clients are counted for a snapshot than are connected to it: a
\* snapshot nobody uses can be deleted, whatever squashes, deletions and
\* reused names came before.
NoPhantomUse ==
    \A i \in DOMAIN snaps :
        ~Squashed(snaps[i]) =>
            transient[snaps[i].bit] <=
                Cardinality({c \in Clients : bound[c] = snaps[i].tag})

\* find_victim's comment: the oldest snapshot with 0 usecnt and lowest
\* priority; if all are in use, the oldest of lowest priority. A squashed
\* snapshot is chosen only when there is nothing else.
VictimRule ==
    snaps # <<>> =>
        LET v == FindVictim
            busy(k) == IF UseCount(snaps[k]) > 0 THEN 1 ELSE 0
            before(k) == \/ busy(k) < busy(v)
                         \/ busy(k) = busy(v) /\ snaps[k].prio < snaps[v].prio
                         \/ /\ busy(k) = busy(v)
                            /\ snaps[k].prio = snaps[v].prio
                            /\ k < v
            live == {k \in DOMAIN snaps : ~Squashed(snaps[k])}
        IN  live # {} => v \in live /\ \A k \in live : ~before(k)

\* A snapshot that some client or replication holds in use keeps its entry in
\* the list through every step, a crash included: auto_delete_snapshot squashes
\* it, and nothing deletes it.
InUseKept ==
    [][\A i \in DOMAIN snaps :
          UseCount(snaps[i]) > 0 => snaps[i].tag \in TagsOf(snaps')]_tableVars
==============================================================================
