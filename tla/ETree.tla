-------------------------------- MODULE ETree --------------------------------
(***************************************************************************)
(* The exception tree of ddsnapd: index nodes over the leaves of ELeaf,    *)
(* the insertion of an exception with its splits, the deletion of          *)
(* snapshots, which walks all leaves and merges what has become sparse,    *)
(* and the traversal that makes a changelist.                              *)
(*                                                                         *)
(* The deletion commits transactions while it goes, so each of its steps   *)
(* is an action: a stop of the server leaves the tree of such a state on   *)
(* disk. Nothing else reads the tree meanwhile.                            *)
(*                                                                         *)
(* Levels count from 1 for the root. A path has, for each level, the node  *)
(* and the position after the entry followed (path[i].pnext).              *)
(***************************************************************************)
EXTENDS ELeaf, Functions

CONSTANTS Sectors,       \* metadata blocks
          StoreChunks,   \* chunks of the snapshot store
          Pool,          \* bound: the chunks the exceptions of a chunk are taken from
          AllocPerNode,  \* entries of an index node
          MaxLevels      \* bound: levels of the tree

ASSUME TreeAssumption ==
    /\ Sectors \subseteq Nat \ {0} /\ IsFiniteSet(Sectors) /\ Cardinality(Sectors) >= 2
    /\ StoreChunks \subseteq Nat \ {0}
    /\ Pool \in [Chunks -> SUBSET StoreChunks]
    /\ AllocPerNode \in Nat /\ AllocPerNode >= 2
    /\ MaxLevels \in Nat \ {0}

Exception == [share: SUBSET Bit, chunk: StoreChunks]

NIL == 0   \* no buffer

VARIABLES leaf,      \* sector -> leaf
          node,      \* sector -> entries of an index node
          root,      \* sb->image.etree_root
          levels,    \* sb->image.etree_levels
          super,     \* root and levels in the superblock on disk
          snapmask,
          used,      \* chunks of the store marked in the bitmap
          walk       \* where delete_tree_range is

vars == <<leaf, node, root, levels, super, snapmask, used, walk>>

Idle == [at |-> "idle", bits |-> {}, level |-> 0, path |-> <<>>, hold |-> <<>>,
         prev |-> NIL, this |-> NIL]

-----------------------------------------------------------------------------
(* Lookup. *)

\* The first entry, after the first, whose key is beyond the chunk.
NextEntry(entries, c) ==
    Min({i \in 2 .. Len(entries) : entries[i].key > c} \union {Len(entries) + 1})

\* The block that leads to chunk c.
Child(s, c) == node[s][NextEntry(node[s], c) - 1].sector

\* The block that is n levels below s on the way to chunk c.
Below(s, n, c) ==
    LET at[k \in 0 .. n] == IF k = 0 THEN s ELSE Child(at[k - 1], c)
    IN  at[n]

\* probe: the path to the leaf of chunk c.
Probe(c) ==
    [l \in 1 .. levels |->
        LET s == Below(root, l - 1, c) IN [sector |-> s, next |-> NextEntry(node[s], c)]]

LeafOf(c) == Below(root, levels, c)

Exceptions(c) == Found(leaf[LeafOf(c)], c)

\* The index nodes of each level and the leaves below them.
NodesAt ==
    LET at[l \in 1 .. levels] ==
            IF l = 1 THEN {root}
            ELSE UNION {{node[s][i].sector : i \in DOMAIN node[s]} : s \in at[l - 1]}
    IN  at

LeavesReached ==
    UNION {{node[s][i].sector : i \in DOMAIN node[s]} : s \in NodesAt[levels]}

-----------------------------------------------------------------------------
(* Insertion. *)

\* The metadata blocks new_block may take; it takes the first.
Fresh == Sectors \ (DOMAIN leaf \union DOMAIN node)

NodeHalf(entries) == Len(entries) \div 2

\* Fault: a node that is split keeps all its entries.
ClimbOneKept(t, step) ==
    LET entries == t.node[step.sector]
        half    == NodeHalf(entries)
        new     == Min(t.fresh)
        entry   == [key |-> t.key, sector |-> t.child]
    IN  IF t.child = NIL THEN t
        ELSE IF Len(entries) < AllocPerNode
        THEN [t EXCEPT !.node[step.sector] = InsertAt(entries, step.next, entry),
                       !.child = NIL]
        ELSE [t EXCEPT !.node = new :> Append(SubSeq(entries, half + 1, Len(entries)), entry) @@ @,
                       !.key = entries[half + 1].key,
                       !.child = new,
                       !.fresh = @ \ {new}]

\* One level of the climb of add_exception_to_tree: the child goes in when the
\* node has room, else the node is split and the new one goes to its parent.
ClimbOne(t, step) ==
    LET entries == t.node[step.sector]
        half    == NodeHalf(entries)
        lower   == SubSeq(entries, 1, half)
        upper   == SubSeq(entries, half + 1, Len(entries))
        new     == Min(t.fresh)
    IN  IF t.child = NIL THEN t
        ELSE IF Len(entries) < AllocPerNode
        THEN [t EXCEPT !.node[step.sector] =
                           InsertAt(entries, step.next, [key |-> t.key, sector |-> t.child]),
                       !.child = NIL]
        ELSE LET toUpper == step.next > half + 1
                 entry   == [key |-> t.key, sector |-> t.child]
             IN  [t EXCEPT
                    !.node = [s \in DOMAIN t.node \union {new} |->
                                IF s = new
                                THEN IF toUpper THEN InsertAt(upper, step.next - half, entry)
                                     ELSE upper
                                ELSE IF s = step.sector
                                THEN IF toUpper THEN lower ELSE InsertAt(lower, step.next, entry)
                                ELSE t.node[s]],
                    !.key = entries[half + 1].key,
                    !.child = new,
                    !.fresh = @ \ {new}]

\* The index with a new child beside the leaf the path leads to.
Climbed(path, key, child, fresh) ==
    LET top == Len(path) + 1
        from[l \in 1 .. top] ==
            IF l = top THEN [node |-> node, key |-> key, child |-> child, fresh |-> fresh]
            ELSE ClimbOne(from[l + 1], path[l])
    IN  from[1]

\* The new root over the old one and the node split off it. The first key of
\* an index node is not set.
NewRoot(t) ==
    [s \in DOMAIN t.node \union {Min(t.fresh)} |->
        IF s = Min(t.fresh)
        THEN <<[key |-> 0, sector |-> root], [key |-> t.key, sector |-> t.child]>>
        ELSE t.node[s]]

\* add_exception_to_tree when the leaf has room.
AddToLeaf(s, c, b, new) ==
    /\ leaf' = [leaf EXCEPT ![s] = AddExceptionToLeaf(@, c, new, b, snapmask)]
    /\ UNCHANGED <<node, root, levels>>

\* add_exception_to_tree when it has none: the leaf is split and the exception
\* goes to the half its chunk belongs to.
SplitAndAdd(s, c, b, new) ==
    LET key   == SplitPoint(leaf[s])
        new2  == Min(Fresh)
        t     == Climbed(Probe(c), key, new2, Fresh \ {new2})
        half(l, mine) == IF mine THEN AddExceptionToLeaf(l, c, new, b, snapmask) ELSE l
    IN  /\ leaf' = [l \in DOMAIN leaf \union {new2} |->
                      IF l = s THEN half(Head1(leaf[s]), c < key)
                      ELSE IF l = new2 THEN half(Tail1(leaf[s]), c >= key)
                      ELSE leaf[l]]
        /\ IF t.child = NIL
           THEN node' = t.node /\ UNCHANGED <<root, levels>>
           ELSE /\ levels < MaxLevels
                /\ node' = NewRoot(t)
                /\ root' = Min(t.fresh)
                /\ levels' = levels + 1

\* The half that a chunk goes to has room for it ("new leaf has no space").
SplitMakesRoom(s, c) ==
    HasRoom(IF c < SplitPoint(leaf[s]) THEN Head1(leaf[s]) ELSE Tail1(leaf[s]), c)

\* make_unique, once ensure_free_chunks has found room.
MakeUnique(c, b) ==
    /\ walk = Idle
    /\ b # ORIGIN => b \in snapmask
    /\ ~ IF b = ORIGIN THEN OriginChunkUnique(leaf[LeafOf(c)], c, snapmask)
         ELSE SnapshotChunkUnique(leaf[LeafOf(c)], c, b)
    /\ Pool[c] \ used # {}
    /\ Cardinality(Fresh) >= levels + 2
    /\ LET s   == LeafOf(c)
           new == Min(Pool[c] \ used)
       IN  /\ used' = used \union {new}
           /\ IF HasRoom(leaf[s], c) THEN AddToLeaf(s, c, b, new)
              ELSE SplitMakesRoom(s, c) /\ SplitAndAdd(s, c, b, new)
    /\ UNCHANGED <<super, snapmask, walk>>

\* create_snapshot, of which the tree sees the bit, and save_sb_check.
CreateSnapshot(b) ==
    /\ walk = Idle
    /\ b \in Bit \ snapmask
    /\ snapmask' = snapmask \union {b}
    /\ super' = [root |-> root, levels |-> levels]
    /\ UNCHANGED <<leaf, node, root, levels, used, walk>>

-----------------------------------------------------------------------------
(* Deletion. A walk takes one leaf after the other, in order; prev is the   *)
(* leaf before, hold the node before on each level.                         *)

Finished(w, index) == w.path[w.level].next = Len(index[w.path[w.level].sector]) + 1

\* The walk at the leaf the next entry of its lowest node leads to.
ToLeaf(w, index) ==
    LET step == w.path[w.level]
    IN  [w EXCEPT !.at = "leaf",
                  !.this = index[step.sector][step.next].sector,
                  !.path[w.level].next = @ + 1]

\* Fault: the key above is not set to the one of the removed entry's successor.
PivotLost(index, path, l, pivot) == index

\* The nearest level above on which the path is not at the first entry gets
\* the key of the entry that is first now.
Pivot(index, path, l, pivot) ==
    LET up == {k \in 1 .. l - 1 : path[k].next - 1 # 1}
    IN  IF up = {} THEN index
        ELSE [index EXCEPT ![path[Max(up)].sector][path[Max(up)].next - 1].key = pivot]

\* remove_index: the entry before path[l].next goes, and the path stays at the
\* one behind it.
RemoveIndex(index, path, l) ==
    LET s       == path[l].sector
        entries == index[s]
        i       == path[l].next - 1
        without == [index EXCEPT ![s] = RemoveAt(entries, i)]
    IN  IF i = Len(entries) \/ i # 1 THEN without
        ELSE Pivot(without, path, l, entries[i + 1].key)

Without(f, s) == Restrict(f, DOMAIN f \ {s})

StartDelete(bits) ==
    /\ walk = Idle
    /\ bits # {} /\ bits \subseteq snapmask
    /\ walk' = [at |-> "leaf", bits |-> bits, level |-> levels, path |-> Probe(0),
                hold |-> [l \in 1 .. levels |-> NIL], prev |-> NIL, this |-> LeafOf(0)]
    /\ UNCHANGED <<leaf, node, root, levels, super, snapmask, used>>

\* A leaf: the snapshots' bits are taken out, and if the leaf before has room
\* for what is left, it is merged into that one.
DeleteLeaf ==
    /\ walk.at = "leaf"
    /\ LET w     == walk
           this  == DeleteFromLeaf(leaf[w.this], w.bits)
           merge == w.prev # NIL /\ CanMerge(leaf[w.prev], this)
           index == IF merge THEN RemoveIndex(node, w.path, w.level) ELSE node
           next  == IF merge THEN [w EXCEPT !.path[w.level].next = @ - 1]
                    ELSE [w EXCEPT !.prev = w.this]
       IN  /\ used' = used \ Dropped(leaf[w.this], w.bits)
           /\ leaf' = IF merge
                      THEN [Without(leaf, w.this) EXCEPT ![w.prev] = MergeLeaves(@, this)]
                      ELSE [leaf EXCEPT ![w.this] = this]
           /\ node' = index
           /\ walk' = IF Finished(next, index) THEN [next EXCEPT !.at = "pop"]
                      ELSE ToLeaf(next, index)
    /\ UNCHANGED <<root, levels, super, snapmask>>

\* A node whose leaves are done: merged into the node before on its level if
\* that has room, else kept as the node before.
PopNode ==
    /\ walk.at = "pop"
    /\ LET w     == walk
           l     == w.level
           this  == w.path[l].sector
           prev  == w.hold[l]
           merge == prev # NIL /\ Len(node[this]) <= AllocPerNode - Len(node[prev])
           index == IF merge
                    THEN Without([RemoveIndex(node, w.path, l - 1) EXCEPT ![prev] = @ \o node[this]],
                                 this)
                    ELSE node
           next  == IF merge THEN [w EXCEPT !.path[l - 1].next = @ - 1]
                    ELSE [w EXCEPT !.hold[l] = this]
           up    == [next EXCEPT !.level = l - 1]
       IN  /\ node' = index
           /\ walk' = IF l = 1 THEN [next EXCEPT !.at = "shrink"]
                      ELSE IF Finished(up, index) THEN up
                      ELSE [up EXCEPT !.at = "push"]
    /\ UNCHANGED <<leaf, root, levels, super, snapmask, used>>

\* One level back down towards the next leaf.
PushNode ==
    /\ walk.at = "push"
    /\ LET w    == walk
           l    == w.level
           down == [w EXCEPT !.path[l].next = @ + 1,
                             !.path[l + 1] = [sector |-> node[w.path[l].sector][w.path[l].next].sector,
                                              next |-> 1],
                             !.level = l + 1]
       IN  walk' = IF down.level = levels THEN ToLeaf(down, node) ELSE down
    /\ UNCHANGED <<leaf, node, root, levels, super, snapmask, used>>

\* A root with one entry is taken away.
DropLevel ==
    /\ walk.at = "shrink"
    /\ levels > 1 /\ Len(node[walk.hold[1]]) = 1
    /\ root' = walk.hold[2]
    /\ node' = Without(node, walk.hold[1])
    /\ levels' = levels - 1
    /\ walk' = [walk EXCEPT !.hold = Tail(@)]
    /\ UNCHANGED <<leaf, super, snapmask, used>>

\* Fault: the loop does not end at the last level.
FinishDeleteTall ==
    /\ walk.at = "shrink"
    /\ Len(node[walk.hold[1]]) # 1
    /\ snapmask' = snapmask \ walk.bits
    /\ super' = [root |-> root, levels |-> levels]
    /\ walk' = Idle
    /\ UNCHANGED <<leaf, node, root, levels, used>>

FinishDelete ==
    /\ walk.at = "shrink"
    /\ ~(levels > 1 /\ Len(node[walk.hold[1]]) = 1)
    /\ snapmask' = snapmask \ walk.bits
    /\ super' = [root |-> root, levels |-> levels]
    /\ walk' = Idle
    /\ UNCHANGED <<leaf, node, root, levels, used>>

Walk == DeleteLeaf \/ PopNode \/ PushNode \/ DropLevel \/ FinishDelete

-----------------------------------------------------------------------------
(* Changelists. *)

\* Fault: chunks that have no exception for the second snapshot are passed over.
DiffersOneSided(share, mask1, mask2) == mask2 \subseteq share /\ ~(mask1 \subseteq share)

Differs(share, mask1, mask2) == (mask2 \subseteq share) # (mask1 \subseteq share)

\* traverse_tree_range with gen_changelist_leaf.
Changelist(mask1, mask2) ==
    UNION {{c \in Rchunks(leaf[s]) :
               \E e \in Found(leaf[s], c) : Differs(e.share, mask1, mask2)} : s \in LeavesReached}

-----------------------------------------------------------------------------
\* initialize: a root with one entry, for an empty leaf.
Init ==
    LET s == Min(Sectors)
        r == Min(Sectors \ {s})
    IN  /\ leaf = [x \in {s} |-> EmptyLeaf]
        /\ node = [x \in {r} |-> <<[key |-> 0, sector |-> s]>>]
        /\ root = r
        /\ levels = 1
        /\ super = [root |-> r, levels |-> 1]
        /\ snapmask = {}
        /\ used = {}
        /\ walk = Idle

Next ==
    \/ \E b \in Bit : CreateSnapshot(b)
    \/ \E c \in Chunks, b \in Bit \union {ORIGIN} : MakeUnique(c, b)
    \/ \E bits \in SUBSET Bit : StartDelete(bits)
    \/ Walk

Spec == Init /\ [][Next]_vars

\* A deletion runs to its end inside one message of the server.
FairSpec == Spec /\ WF_vars(Walk)

-----------------------------------------------------------------------------
(* Properties. *)

\* Types, and every leaf as its operations expect it.
TreeTypeOK ==
    /\ DOMAIN leaf \subseteq Sectors /\ DOMAIN node \subseteq Sectors
    /\ DOMAIN leaf \intersect DOMAIN node = {}
    /\ \A s \in DOMAIN node :
          Len(node[s]) <= AllocPerNode /\ (walk = Idle => node[s] # <<>>)
    /\ root \in DOMAIN node /\ levels \in 1 .. MaxLevels
    /\ super.root \in Sectors /\ super.levels \in 1 .. MaxLevels
    /\ snapmask \subseteq Bit /\ used \subseteq StoreChunks
    /\ \A s \in DOMAIN leaf : LeafSound(leaf[s])

\* Every chunk in a leaf is found there by probe, also in the trees that the
\* transactions of a deletion leave on disk, unless the last leaf below an
\* index node was merged away and the node itself not yet.
ProbeFinds ==
    (\A s \in DOMAIN node : node[s] # <<>>) =>
        \A s \in DOMAIN leaf : \A c \in Rchunks(leaf[s]) : LeafOf(c) = s

\* When no deletion is under way, every chunk in a leaf is found there by probe.
LookupFinds ==
    walk = Idle => \A s \in DOMAIN leaf : \A c \in Rchunks(leaf[s]) : LeafOf(c) = s

\* A server that starts after a stop reads the root from the superblock on disk
\* (the blocks of the tree are journaled, the superblock is not): it finds every
\* exception a write was acknowledged for.
RestartFinds ==
    walk = Idle => \A s \in DOMAIN leaf : \A c \in Rchunks(leaf[s]) :
                      Below(super.root, super.levels, c) = s

\* Outside a deletion all blocks are in the tree, each in one place.
BlocksAccounted ==
    walk = Idle =>
        /\ DOMAIN leaf = LeavesReached
        /\ DOMAIN node = UNION {NodesAt[l] : l \in 1 .. levels}
        /\ Cardinality(DOMAIN leaf) + Cardinality(DOMAIN node) =
             1 + FoldSet(LAMBDA s, n : Len(node[s]) + n, 0, DOMAIN node)

\* The chunks marked in the bitmap are those of the exceptions, each of one:
\* nothing is leaked, freed twice or freed while it is in use.
ExceptionsAccounted ==
    /\ used = UNION {{e.chunk : e \in ToSet(leaf[s].area)} : s \in DOMAIN leaf}
    /\ Cardinality(used) = FoldSet(LAMBDA s, n : Len(leaf[s].area) + n, 0, DOMAIN leaf)

\* The half of a split leaf that the exception belongs to has room for it, so
\* add_exception_to_tree never gives up between the two.
SplitsMakeRoom ==
    walk = Idle =>
        \A c \in Chunks : HasRoom(leaf[LeafOf(c)], c) \/ SplitMakesRoom(LeafOf(c), c)

\* The exception of chunk c for a set of bits; {} is the origin's data.
Of(c, b) == {e \in Exceptions(c) : b \in e.share}

\* A changelist names the chunks that two snapshots see differently, and those
\* in which a snapshot differs from the origin as long as not all bits are
\* taken (tag1 = ~0 gives the mask of all bits).
ChangelistRight ==
    walk = Idle =>
        \A b2 \in snapmask :
            /\ \A b1 \in snapmask : Changelist({b1}, {b2}) = {c \in Chunks : Of(c, b1) # Of(c, b2)}
            /\ snapmask # Bit => Changelist(Bit, {b2}) = {c \in Chunks : Of(c, b2) # {}}

\* Where the exceptions of a chunk are looked for: in the leaf probe finds;
\* during a deletion, when no lookup is made, wherever they are.
Holding(c) == IF walk = Idle THEN {LeafOf(c)} ELSE DOMAIN leaf

Contents(c) ==
    UNION {UNION {Found(l, c) : l \in {leaf[s]}} : s \in Holding(c)}

\* The tree implements the map.
Map == INSTANCE ExceptionMap WITH exc <- [c \in Chunks |-> Contents(c)], going <- walk.bits

ImplementsMap == Map!MapSpec

\* A deletion ends.
DeletionEnds == walk # Idle ~> walk = Idle
==============================================================================
