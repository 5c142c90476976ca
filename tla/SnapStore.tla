------------------------------ MODULE SnapStore ------------------------------
(***************************************************************************)
(* The copy-before-write core of ddsnapd: the exceptions of each origin    *)
(* chunk with their share masks, the chunks of the snapshot store, the     *)
(* copyout a write request makes, and the release of snapshots when the    *)
(* store runs full. It builds on the snapshot table.                       *)
(*                                                                         *)
(* The server handles one message at a time; `req` is the write request it *)
(* is working on, because make_unique may release several snapshots before *)
(* it finds room. The clients' disk writes run concurrently with it: they  *)
(* start when the server has granted them and land at any later moment.    *)
(*                                                                         *)
(* Requests are for one chunk: the device mapper target splits every bio   *)
(* at chunk boundaries (target->split_io). The exception tree is taken as  *)
(* the map it implements, and metadata chunks are not counted.             *)
(***************************************************************************)
EXTENDS SnapTable

CONSTANTS Chunks,        \* chunks of the volume
          Data,          \* contents of a chunk
          Blank,         \* content of a chunk of the store before the first copy
          StoreChunks,   \* chunks of the snapshot store that may be allocated
          WritableTags,  \* snapshots whose clients write to them
          NoReq,
          MaxGranted     \* bound: writes that may be in flight at a time

ASSUME StoreAssumption ==
    /\ IsFiniteSet(StoreChunks)
    /\ StoreChunks \subseteq Nat
    /\ WritableTags \subseteq Tags
    /\ MaxGranted \in Nat \ {0}
    /\ Blank \notin Data

Exception == [share: SUBSET Bit, chunk: StoreChunks]

ORIGIN == -1   \* the snapshot bit of a request to the origin
NONE == 0      \* "no exception" in the variables of the code

\* A QUERY_WRITE in the hands of the server: the tag and the bit of the
\* snapshot written to, looked up when the message is read.
Request == [tag: Tags \union {NoTag}, bit: Bit \union {ORIGIN},
            chunk: Chunks, data: Data]

\* A granted write on its way to the disk, at a chunk of the store or (for the
\* origin, where addr is NONE) of the origin device.
Grant == [tag: Tags \union {NoTag}, chunk: Chunks, data: Data,
          addr: StoreChunks \union {NONE}]

VARIABLES org,      \* chunk -> data on the origin device
          store,    \* chunk -> data on the snapshot store device
          exc,      \* chunk -> its exceptions: the leaves of the tree
          free,     \* clear bits of the allocation bitmap
          req,      \* the write request being handled
          granted   \* granted writes that have not landed

storeVars == <<org, store, exc, free, req, granted>>
vars == <<tableVars, storeVars>>

-----------------------------------------------------------------------------
(* Exceptions. *)

\* The bits of the snapshots that share one of a set of exceptions.
Sharing(es) == UNION {e.share : e \in es}

\* The exception of chunk c for a bit, NONE when the bit has none: the loop of
\* snapshot_chunk_unique.
Lookup(c, b) ==
    LET es == {e \in exc[c] : b \in e.share}
    IN  IF es = {} THEN NONE ELSE (CHOOSE e \in es : TRUE).chunk

\* Fault: one exception is taken for an exception of every snapshot.
OriginChunkUniqueForOne(c) == snapmask = {} \/ snapmask \intersect Sharing(exc[c]) # {}

\* origin_chunk_unique, which reads "shared unless all snapshots have
\* exceptions".
OriginChunkUnique(c) == snapmask \subseteq Sharing(exc[c])

\* snapshot_chunk_unique
SnapshotChunkUnique(c, b) == \E e \in exc[c] : e.share = {b}

Unique(c, b) ==
    IF b = ORIGIN THEN OriginChunkUnique(c) ELSE SnapshotChunkUnique(c, b)

\* Fault: copies for a snapshot are made from the origin too.
SourceOrigin(c, b) == org[c]

\* The data of a chunk that is about to be copied for a bit: what is read
\* through the exception the snapshot has, or from the origin.
Source(c, b) ==
    IF b = ORIGIN \/ Lookup(c, b) = NONE THEN org[c] ELSE store[Lookup(c, b)]

\* Fault: the writing snapshot stays in the exception it shared.
AddExceptionStillShared(c, b, new) ==
    IF b = ORIGIN
    THEN exc[c] \union {[share |-> snapmask \ Sharing(exc[c]), chunk |-> new]}
    ELSE exc[c] \union {[share |-> {b}, chunk |-> new]}

\* add_exception_to_leaf: a write to the origin gives the new exception to all
\* snapshots without one; a write to a snapshot takes its bit out of the
\* exception it shared.
AddException(c, b, new) ==
    IF b = ORIGIN
    THEN exc[c] \union {[share |-> snapmask \ Sharing(exc[c]), chunk |-> new]}
    ELSE {[e EXCEPT !.share = @ \ {b}] : e \in exc[c]}
            \union {[share |-> {b}, chunk |-> new]}

\* Fault: an exception goes with the first of the snapshots that share it.
KeptUntouched(c, bits) == {e \in exc[c] : e.share \intersect bits = {}}

\* delete_tree_range over all leaves: take the bits out of every share mask,
\* drop and free the exceptions that nothing shares any more.
Kept(c, bits) ==
    {[e EXCEPT !.share = @ \ bits] : e \in {x \in exc[c] : ~(x.share \subseteq bits)}}

\* Fault: a chunk is freed while other snapshots still share its exception.
FreedShared(bits) ==
    {e.chunk : e \in {x \in UNION {exc[c] : c \in Chunks} : x.share \intersect bits # {}}}

Freed(bits) ==
    {e.chunk : e \in {x \in UNION {exc[c] : c \in Chunks} : x.share \subseteq bits}}

DeleteTreeRange(bits) ==
    /\ exc' = [c \in Chunks |-> Kept(c, bits)]
    /\ free' = free \union Freed(bits)

\* The tree loses the bits a table update takes out of the mask.
PurgeDropped == DeleteTreeRange(snapmask \ snapmask')

-----------------------------------------------------------------------------
(* A write request. *)

\* The message is read: a write to the origin,
QueryOriginWrite(c, d) ==
    /\ req = NoReq
    /\ Cardinality(granted) < MaxGranted
    /\ req' = [tag |-> NoTag, bit |-> ORIGIN, chunk |-> c, data |-> d]
    /\ UNCHANGED <<tableVars, org, store, exc, free, granted>>

\* or to the snapshot of a client. (A squashed one gets an error reply.)
QuerySnapshotWrite(cl, c, d) ==
    /\ req = NoReq
    /\ Cardinality(granted) < MaxGranted
    /\ bound[cl] \in TagsOf(snaps) \intersect WritableTags
    /\ LET s == snaps[FindSnap(bound[cl])]
       IN  /\ ~Squashed(s)
           /\ req' = [tag |-> s.tag, bit |-> s.bit, chunk |-> c, data |-> d]
    /\ UNCHANGED <<tableVars, org, store, exc, free, granted>>

\* ensure_free_chunks finds no room and auto_delete_snapshot releases a
\* snapshot. When that was the last one of the list the loop ends and the
\* request fails, whatever is free by then.
EnsureFreeChunks ==
    /\ req # NoReq
    /\ free = {}
    /\ Release
    /\ PurgeDropped
    /\ req' = IF snaps' = <<>> THEN NoReq ELSE req
    /\ UNCHANGED <<org, store, granted>>

\* auto_delete_snapshot finds nothing to release: an error reply.
WriteFails ==
    /\ req # NoReq
    /\ free = {}
    /\ snaps # <<>>
    /\ NothingToRelease
    /\ req' = NoReq
    /\ UNCHANGED <<tableVars, org, store, exc, free, granted>>

\* find_victim is called with an empty list: its assertion stops the server,
\* the request is lost and the next server starts from the disk.
VictimAssertFails ==
    /\ req # NoReq
    /\ free = {}
    /\ snaps = <<>>
    /\ req' = NoReq
    /\ Crash
    /\ UNCHANGED <<org, store, exc, free, granted>>

\* make_unique with room in the store, finish_copyout and the reply: nothing
\* to copy,
GrantUnique ==
    /\ req # NoReq
    /\ free # {}
    /\ Unique(req.chunk, req.bit)
    /\ granted' = granted \union
            {[tag |-> req.tag, chunk |-> req.chunk, data |-> req.data,
              addr |-> IF req.bit = ORIGIN THEN NONE ELSE Lookup(req.chunk, req.bit)]}
    /\ req' = NoReq
    /\ UNCHANGED <<tableVars, org, store, exc, free>>

\* or a copy of the chunk, from the exception the snapshot shared or from the
\* origin, to a newly allocated chunk of the store. (Which free chunk is taken
\* depends on the previous allocation: any of them.)
GrantCopied(new) ==
    /\ req # NoReq
    /\ free # {}
    /\ new \in free
    /\ ~Unique(req.chunk, req.bit)
    /\ store' = [store EXCEPT ![new] = Source(req.chunk, req.bit)]
    /\ exc' = [exc EXCEPT ![req.chunk] = AddException(req.chunk, req.bit, new)]
    /\ free' = free \ {new}
    /\ granted' = granted \union
            {[tag |-> req.tag, chunk |-> req.chunk, data |-> req.data,
              addr |-> IF req.bit = ORIGIN THEN NONE ELSE new]}
    /\ req' = NoReq
    /\ UNCHANGED <<tableVars, org>>

\* A client's granted write reaches the origin device or the store device.
Land(w) ==
    /\ w \in granted
    /\ granted' = granted \ {w}
    /\ IF w.tag = NoTag
       THEN org' = [org EXCEPT ![w.chunk] = w.data] /\ UNCHANGED store
       ELSE store' = [store EXCEPT ![w.addr] = w.data] /\ UNCHANGED org
    /\ UNCHANGED <<tableVars, exc, free, req>>

-----------------------------------------------------------------------------
(* Snapshots come and go between write requests. *)

\* A full list makes room before the new snapshot is added; its bit may be the
\* one just taken out of the tree.
CreateSnapshot(t) ==
    /\ req = NoReq
    /\ Create(t)
    /\ DeleteTreeRange(IF Len(snaps) < MaxSnapshots THEN {} ELSE BitsOf(snaps[FindUnused]))
    /\ UNCHANGED <<org, store, req, granted>>

DeleteSnapshot(t) ==
    /\ req = NoReq
    /\ Delete(t)
    /\ PurgeDropped
    /\ UNCHANGED <<org, store, req, granted>>

\* A device is removed, and a server shut down, when the writes to its
\* snapshots have landed.
Quiet(ts) == \A w \in granted : w.tag \notin ts

ConnectClient(c, t) ==
    /\ req = NoReq
    /\ Identify(c, t)
    /\ UNCHANGED storeVars

DisconnectClient(c) ==
    /\ req = NoReq
    /\ Quiet({bound[c]})
    /\ Disconnect(c)
    /\ UNCHANGED storeVars

HoldSnapshot(t, d) ==
    /\ req = NoReq
    /\ AddUseCount(t, d)
    /\ UNCHANGED storeVars

PrioritizeSnapshot(t, p) ==
    /\ req = NoReq
    /\ SetPriority(t, p)
    /\ UNCHANGED storeVars

RestartServer ==
    /\ req = NoReq
    /\ Quiet(Tags)
    /\ ShutDown
    /\ UNCHANGED storeVars

-----------------------------------------------------------------------------
Init ==
    /\ TableInit
    /\ org \in [Chunks -> Data]
    /\ store = [s \in StoreChunks |-> Blank]
    /\ exc = [c \in Chunks |-> {}]
    /\ free = StoreChunks
    /\ req = NoReq
    /\ granted = {}

ServerStep ==
    \/ EnsureFreeChunks
    \/ WriteFails
    \/ VictimAssertFails
    \/ GrantUnique
    \/ \E new \in StoreChunks : GrantCopied(new)

Next ==
    \/ \E c \in Chunks, d \in Data : QueryOriginWrite(c, d)
    \/ \E cl \in Clients, c \in Chunks, d \in Data : QuerySnapshotWrite(cl, c, d)
    \/ ServerStep
    \/ \E w \in granted : Land(w)
    \/ \E t \in Tags : CreateSnapshot(t) \/ DeleteSnapshot(t)
    \/ \E c \in Clients, t \in Tags : ConnectClient(c, t)
    \/ \E c \in Clients : DisconnectClient(c)
    \/ \E t \in Tags, d \in {-1, 1} : HoldSnapshot(t, d)
    \/ \E t \in Tags, p \in Prios : PrioritizeSnapshot(t, p)
    \/ RestartServer

Spec == Init /\ [][Next]_vars

\* The server process works on the request it has read.
FairSpec == Spec /\ WF_vars(ServerStep)

-----------------------------------------------------------------------------
(* Properties. *)

\* Every variable of the store has its type.
StoreTypeOK ==
    /\ TableTypeOK
    /\ org \in [Chunks -> Data]
    /\ store \in [StoreChunks -> Data \union {Blank}]
    /\ exc \in [Chunks -> SUBSET Exception]
    /\ free \subseteq StoreChunks
    /\ req \in Request \union {NoReq}
    /\ granted \subseteq Grant

\* A snapshot reads each chunk through one exception at most, and an exception
\* that no snapshot shares does not stay in the tree: snapshot_chunk_unique
\* stops at the first exception that carries the bit.
ShareExclusive ==
    \A c \in Chunks : \A e, f \in exc[c] :
        /\ e.share # {}
        /\ e # f => e.share \intersect f.share = {}

\* A chunk of the store is free or belongs to exactly one exception, across
\* copyouts, deletions and releases in the middle of a write: none is lost and
\* none is given out twice.
StoreAccounted ==
    LET entries == {<<c, e>> : c \in Chunks, e \in UNION {exc[k] : k \in Chunks}}
        of(s) == {x \in entries : x[2] \in exc[x[1]] /\ x[2].chunk = s}
    IN  \A s \in StoreChunks :
            Cardinality(of(s)) = IF s \in free THEN 0 ELSE 1

\* The design document: "once an origin chunk becomes unshared it can only
\* become shared again by creating a new snapshot. And once a chunk shared by
\* more than one snapshot becomes unshared it will remain unshared until the
\* snapshot is deleted"; clients cache the address of such a chunk. A deletion,
\* a release or another client's copyout changes neither.
UniqueStaysUnique ==
    [][/\ \A c \in Chunks :
              OriginChunkUnique(c) =>
                  OriginChunkUnique(c)' \/ \E t \in Tags : CreateSnapshot(t)
       /\ \A i \in DOMAIN snaps, j \in DOMAIN snaps', b \in Bit :
              /\ snaps[i].bit = b
              /\ snaps'[j].bit = b
              /\ snaps[i].tag = snaps'[j].tag
              /\ ~CreateSnapshot(snaps[i].tag)
              => \A c \in Chunks :
                    SnapshotChunkUnique(c, b) =>
                        /\ SnapshotChunkUnique(c, b)'
                        /\ Lookup(c, b)' = Lookup(c, b)]_vars

\* The design document: "at the time a new snapshot is set all its chunks are
\* shared with at least the origin".
NewSnapshotSharesOrigin ==
    [][\A b \in snapmask' \ snapmask : \A c \in Chunks : Lookup(c, b)' = NONE]_vars

\* The server comes to an end with every write request it reads, though it may
\* have to release one snapshot after the other before it finds a free chunk:
\* it never keeps releasing what is released already.
RequestAnswered == req # NoReq ~> req = NoReq

\* The abstract volume this store implements: a snapshot device reads the
\* exception of a chunk, or the origin where it has none; origin writes in
\* flight are seen by the snapshots that have no exception yet.
Live == {snaps[i].tag : i \in {k \in DOMAIN snaps : ~Squashed(snaps[k])}}
BitOf(t) == snaps[FindSnap(t)].bit

Views ==
    [t \in Live |-> [c \in Chunks |->
        IF Lookup(c, BitOf(t)) = NONE THEN org[c] ELSE store[Lookup(c, BitOf(t))]]]

OriginInFlight == {w.chunk : w \in {x \in granted : x.tag = NoTag}}

Unsettled == [t \in Live |-> {c \in OriginInFlight : Lookup(c, BitOf(t)) = NONE}]

Writes == {[tag |-> w.tag, chunk |-> w.chunk, data |-> w.data] : w \in granted}

Volume == INSTANCE SnapVolume WITH
    origin <- org, views <- Views, unsettled <- Unsettled, granted <- Writes

\* Origin and snapshots behave as independent devices, and a snapshot as a copy
\* of the origin at the time it was taken.
ImplementsVolume == Volume!Spec
==============================================================================
