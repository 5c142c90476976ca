----------------------------- MODULE SnapVolume ------------------------------
(***************************************************************************)
(* What ddsnap promises to the users of a volume, without any of its       *)
(* machinery: an origin device and a set of snapshot devices, each a       *)
(* device of its own that starts as a copy of the origin.                  *)
(*                                                                         *)
(* A write is granted by the server first and reaches the device later. A  *)
(* snapshot taken while a granted origin write is still on its way shows   *)
(* the write when it lands, unless the chunk was settled by a later write. *)
(***************************************************************************)
EXTENDS FiniteSets

CONSTANTS Tags, NoTag, Chunks, Data

VARIABLES origin,     \* the content of the origin device
          views,      \* snapshot -> the content of the snapshot device
          unsettled,  \* snapshot -> chunks whose writes were granted before it
          granted     \* writes the server has granted and that have not landed

vars == <<origin, views, unsettled, granted>>

\* A write to snapshot tag, or to the origin when tag is NoTag.
Write == [tag: Tags \union {NoTag}, chunk: Chunks, data: Data]

InFlight(writes) == {w.chunk : w \in {x \in writes : x.tag = NoTag}}

Init ==
    /\ origin \in [Chunks -> Data]
    /\ views = <<>>
    /\ unsettled = <<>>
    /\ granted = {}

\* A snapshot that is taken while others are dropped to make room for it.
Take(t, gone) ==
    LET kept == DOMAIN views \ gone
    IN  /\ t \notin kept
        /\ views' = [s \in kept \union {t} |-> IF s = t THEN origin ELSE views[s]]
        /\ unsettled' = [s \in kept \union {t} |->
                            IF s = t THEN InFlight(granted) ELSE unsettled[s]]
        /\ UNCHANGED <<origin, granted>>

\* A snapshot is deleted or squashed.
Drop(t) ==
    /\ t \in DOMAIN views
    /\ views' = [s \in DOMAIN views \ {t} |-> views[s]]
    /\ unsettled' = [s \in DOMAIN views \ {t} |-> unsettled[s]]
    /\ UNCHANGED <<origin, granted>>

\* From the grant of an origin write on, no snapshot that exists is affected by
\* any write to that chunk.
GrantOrigin(w) ==
    /\ w.tag = NoTag
    /\ granted' = granted \union {w}
    /\ unsettled' = [s \in DOMAIN views |-> unsettled[s] \ {w.chunk}]
    /\ UNCHANGED <<origin, views>>

GrantSnapshot(w) ==
    /\ w.tag \in DOMAIN views
    /\ granted' = granted \union {w}
    /\ unsettled' = [unsettled EXCEPT ![w.tag] = @ \ {w.chunk}]
    /\ UNCHANGED <<origin, views>>

LandOrigin(w) ==
    /\ w \in granted
    /\ w.tag = NoTag
    /\ granted' = granted \ {w}
    /\ origin' = [origin EXCEPT ![w.chunk] = w.data]
    /\ views' = [s \in DOMAIN views |->
                    IF w.chunk \in unsettled[s]
                    THEN [views[s] EXCEPT ![w.chunk] = w.data]
                    ELSE views[s]]
    /\ unsettled' = [s \in DOMAIN views |-> unsettled[s] \intersect InFlight(granted')]

LandSnapshot(w) ==
    /\ w \in granted
    /\ w.tag \in Tags
    /\ granted' = granted \ {w}
    /\ views' = [s \in DOMAIN views |->
                    IF s = w.tag THEN [views[s] EXCEPT ![w.chunk] = w.data] ELSE views[s]]
    /\ UNCHANGED <<origin, unsettled>>

Next ==
    \/ \E t \in Tags, gone \in SUBSET DOMAIN views : Take(t, gone)
    \/ \E t \in Tags : Drop(t)
    \/ \E w \in Write : GrantOrigin(w) \/ GrantSnapshot(w)
    \/ \E w \in granted : LandOrigin(w) \/ LandSnapshot(w)

Spec == Init /\ [][Next]_vars
==============================================================================
