------------------------------ MODULE MCETree -------------------------------
(* TLC instances of the exception tree. *)
EXTENDS ETree

\* As many chunks of the store for each chunk as it can have exceptions. The
\* tree does not look at their addresses.
PoolOfEach ==
    LET n == Cardinality(Bit)
    IN  [c \in Chunks |-> n * c + 1 .. n * (c + 1)]

\* Larger trees with one exception for each chunk: the snapshots are taken
\* first and only the origin is written, up to the first release.
OneExceptionEach ==
    walk = Idle => \A s \in DOMAIN leaf : \A e \in ToSet(leaf[s].area) :
                      e.share = Bit /\ snapmask = Bit
==============================================================================
