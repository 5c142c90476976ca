---------------------------- MODULE ClientProofs ----------------------------
(***************************************************************************)
(* Proofs about the threads of the kernel client: whatever the order of    *)
(* their steps, a request is in one place and ends once, a read is         *)
(* released once and after its end, and nothing waits in a device that is  *)
(* not ready.                                                              *)
(***************************************************************************)
EXTENDS Client, SequenceTheorems, FiniteSetTheorems, TLAPS

-----------------------------------------------------------------------------
(* Lists whose entries differ. *)

Distinct(s, S) == s \in Seq(S) /\ IsInjective(s)

\* Joining two such lists, of different entries.
LEMMA JoinDistinct ==
    ASSUME NEW S, NEW a, NEW b, Distinct(a, S), Distinct(b, S),
           ToSet(a) \intersect ToSet(b) = {}
    PROVE  Distinct(a \o b, S) /\ ToSet(a \o b) = ToSet(a) \union ToSet(b)
<1> DEFINE j == a \o b
<1>1. a \in Seq(S) /\ b \in Seq(S) /\ Len(a) \in Nat /\ Len(b) \in Nat
  BY DEF Distinct
<1>2. j \in Seq(S) /\ Len(j) = Len(a) + Len(b)
  BY <1>1, ConcatProperties
<1>3. \A i \in 1 .. Len(a) + Len(b) :
        j[i] = IF i <= Len(a) THEN a[i] ELSE b[i - Len(a)]
  BY <1>1, ConcatProperties
<1>4. DOMAIN j = 1 .. Len(a) + Len(b) /\ DOMAIN a = 1 .. Len(a) /\ DOMAIN b = 1 .. Len(b)
  BY <1>1, <1>2
<1> HIDE DEF j
<1>5. \A i \in DOMAIN a : i \in DOMAIN j /\ j[i] = a[i]
  BY <1>1, <1>3, <1>4
<1>6. \A i \in DOMAIN b : i + Len(a) \in DOMAIN j /\ j[i + Len(a)] = b[i]
  <2> SUFFICES ASSUME NEW i \in DOMAIN b
               PROVE  i + Len(a) \in DOMAIN j /\ j[i + Len(a)] = b[i]
    OBVIOUS
  <2>1. i \in Nat /\ i + Len(a) \in 1 .. Len(a) + Len(b) /\ ~(i + Len(a) <= Len(a))
    BY <1>1, <1>4
  <2>2. (i + Len(a)) - Len(a) = i
    BY <1>1, <2>1
  <2> QED
    BY <1>3, <1>4, <2>1, <2>2
<1>7. \A i \in DOMAIN j : \/ i \in DOMAIN a /\ j[i] = a[i]
                          \/ i - Len(a) \in DOMAIN b /\ j[i] = b[i - Len(a)]
  BY <1>1, <1>3, <1>4
<1>8. ToSet(j) = ToSet(a) \union ToSet(b)
  BY <1>5, <1>6, <1>7 DEF ToSet
<1>9. IsInjective(j)
  <2> SUFFICES ASSUME NEW i \in DOMAIN j, NEW k \in DOMAIN j, j[i] = j[k]
               PROVE  i = k
    BY DEF IsInjective
  <2>1. i \in Nat /\ k \in Nat
    BY <1>1, <1>4
  <2>2. \A p \in DOMAIN a, q \in DOMAIN b : a[p] # b[q]
    BY DEF ToSet
  <2>3. CASE i \in DOMAIN a /\ j[i] = a[i] /\ k \in DOMAIN a /\ j[k] = a[k]
    BY <2>3 DEF Distinct, IsInjective
  <2>4. CASE /\ i - Len(a) \in DOMAIN b /\ j[i] = b[i - Len(a)]
             /\ k - Len(a) \in DOMAIN b /\ j[k] = b[k - Len(a)]
    <3>1. i - Len(a) = k - Len(a)
      BY <2>4 DEF Distinct, IsInjective
    <3> QED
      BY <1>1, <2>1, <3>1
  <2> QED
    BY <1>7, <2>2, <2>3, <2>4
<1> QED
  BY <1>2, <1>8, <1>9 DEF Distinct, j

\* A list of one entry.
LEMMA OneDistinct ==
    ASSUME NEW S, NEW r \in S
    PROVE  Distinct(<<r>>, S) /\ ToSet(<<r>>) = {r}
BY DEF Distinct, ToSet, IsInjective

\* Taking the oldest entry, the last one, off such a list.
LEMMA FrontDistinct ==
    ASSUME NEW S, NEW s, Distinct(s, S), s # <<>>
    PROVE  /\ Distinct(Front(s), S)
           /\ Last(s) \in ToSet(s)
           /\ ToSet(Front(s)) = ToSet(s) \ {Last(s)}
<1>1. s \in Seq(S) /\ Len(s) \in Nat /\ Len(s) # 0 /\ DOMAIN s = 1 .. Len(s)
  BY EmptySeq DEF Distinct
<1>2. /\ Front(s) \in Seq(S)
      /\ Len(Front(s)) = Len(s) - 1
      /\ \A i \in 1 .. Len(s) - 1 : Front(s)[i] = s[i]
  <2>1. 1 \in 1 .. Len(s) + 1 /\ Len(s) - 1 \in 1 - 1 .. Len(s)
    BY <1>1
  <2> QED
    BY <1>1, <2>1, SubSeqProperties DEF Front
<1>3. DOMAIN Front(s) = 1 .. Len(s) - 1
  BY <1>1, <1>2
<1>4. IsInjective(Front(s))
  BY <1>1, <1>2, <1>3 DEF Distinct, IsInjective
<1>5. Len(s) \in DOMAIN s /\ Last(s) \in ToSet(s)
  BY <1>1 DEF Last, ToSet
<1>6. \A i \in DOMAIN s : s[i] = Last(s) => i = Len(s)
  BY <1>5 DEF Distinct, IsInjective, Last
<1>7. ToSet(Front(s)) = ToSet(s) \ {Last(s)}
  <2>1. \A i \in DOMAIN Front(s) : i \in DOMAIN s /\ i # Len(s) /\ Front(s)[i] = s[i]
    BY <1>1, <1>2, <1>3
  <2>2. \A i \in DOMAIN s : i # Len(s) => i \in DOMAIN Front(s) /\ Front(s)[i] = s[i]
    BY <1>1, <1>2, <1>3
  <2> QED
    BY <1>5, <1>6, <2>1, <2>2 DEF ToSet, Last
<1> QED
  BY <1>2, <1>4, <1>5, <1>7 DEF Distinct

\* The orders in which a finite set can be moved to a list.
LEMMA OrdersDistinct ==
    ASSUME NEW S, NEW T \in SUBSET S, IsFiniteSet(T), NEW new \in SetToSeqs(T)
    PROVE  Distinct(new, S) /\ ToSet(new) \subseteq T /\ (T = {} => new = <<>>)
<1>1. Cardinality(T) \in Nat
  BY FS_CardinalityType
<1>2. /\ new \in [1 .. Cardinality(T) -> T]
      /\ \A i, j \in 1 .. Cardinality(T) : i # j => new[i] # new[j]
  BY DEF SetToSeqs
<1>3. new \in Seq(S) /\ Len(new) = Cardinality(T)
  <2>1. new \in [1 .. Cardinality(T) -> S]
    BY <1>2
  <2>2. new \in Seq(S)
    BY <1>1, <2>1, SeqDef
  <2> QED
    BY <1>1, <2>1, <2>2, LenProperties
<1>4. IsInjective(new) /\ ToSet(new) \subseteq T
  BY <1>2 DEF IsInjective, ToSet
<1>5. T = {} => new = <<>>
  BY <1>3, FS_EmptySet, EmptySeq
<1> QED
  BY <1>3, <1>4, <1>5 DEF Distinct

\* Moving a finite set, in any order, to the head of a list.
LEMMA MoveDistinct ==
    ASSUME NEW S, NEW T \in SUBSET S, IsFiniteSet(T), NEW new \in SetToSeqs(T),
           NEW s, Distinct(s, S), T \intersect ToSet(s) = {}
    PROVE  /\ Distinct(new \o s, S)
           /\ ToSet(new \o s) \subseteq T \union ToSet(s)
           /\ ToSet(s) \subseteq ToSet(new \o s)
<1>1. Distinct(new, S) /\ ToSet(new) \subseteq T
  BY OrdersDistinct
<1>2. ToSet(new) \intersect ToSet(s) = {}
  BY <1>1
<1>3. Distinct(new \o s, S) /\ ToSet(new \o s) = ToSet(new) \union ToSet(s)
  BY <1>1, <1>2, JoinDistinct
<1> QED
  BY <1>1, <1>3

-----------------------------------------------------------------------------
(* The inductive invariant. *)

\* A read whose release waits, or whose hook waits for its turn, has ended.
HooksEnded == \A r \in ToSet(releases) \union (locked \ io) : ended[r] = 1

IInv ==
    ClientTypeOK /\ CompletedOnce /\ ReleasedOnce /\ HooksEnded /\ QueuedWhileReady

\* The parts that speak of the lists alone.
ListsInv ==
    /\ Distinct(queries, Requests) /\ Distinct(releases, Requests)
    /\ pending \union locked \union io \subseteq Requests
    /\ lazy \in BOOLEAN
    /\ ended \in [Requests -> Nat]
    /\ CompletedOnce /\ ReleasedOnce /\ HooksEnded

\* The parts that speak of the counters.
CountsInv ==
    /\ flags \subseteq {"REPORT", "RECOVER", "READY", "FINISH"}
    /\ sems \in [{"more_work", "recover", "server_in", "server_out"} -> Nat]
    /\ sock \in 0 .. connects
    /\ connects \in 0 .. MaxConnects

\* The inductive invariant by its parts,
LEMMA InvParts == IInv <=> ListsInv /\ CountsInv /\ QueuedWhileReady
BY DEF IInv, ListsInv, CountsInv, ClientTypeOK, CompletedOnce, ReleasedOnce, Distinct

\* and the same after a step.
LEMMA InvPartsNext == IInv' <=> ListsInv' /\ CountsInv' /\ QueuedWhileReady'
BY DEF IInv, ListsInv, CountsInv, ClientTypeOK, CompletedOnce, ReleasedOnce, Distinct

\* Semaphores count upwards from zero.
LEMMA UpStep ==
    ASSUME CountsInv, NEW names, Up(names)
    PROVE  sems' \in [{"more_work", "recover", "server_in", "server_out"} -> Nat]
BY DEF CountsInv, Up

\* A semaphore is taken only when it is above zero.
LEMMA DownStep ==
    ASSUME CountsInv,
           NEW name \in {"more_work", "recover", "server_in", "server_out"}, Down(name)
    PROVE  sems' \in [{"more_work", "recover", "server_in", "server_out"} -> Nat]
BY DEF CountsInv, Down

\* A step that leaves the lists alone.
LEMMA ListsKept ==
    ASSUME ListsInv, UNCHANGED lists
    PROVE  ListsInv'
BY DEF ListsInv, lists, CompletedOnce, ReleasedOnce, HooksEnded, InQueries

\* A step that takes READY only to begin the flush, and leaves the lists alone.
LEMMA QueuesKept ==
    ASSUME QueuedWhileReady, UNCHANGED <<queries, pending>>,
           "READY" \in flags' \/ "READY" \notin flags \/ ct' = "flush",
           ct = "flush" => ct' = "flush"
    PROVE  QueuedWhileReady'
BY DEF QueuedWhileReady

\* ddsnap_create.
LEMMA InitInv == ASSUME Init PROVE IInv
<1>1. /\ Distinct(queries, Requests) /\ Distinct(releases, Requests)
      /\ ToSet(queries) = {} /\ ToSet(releases) = {}
  BY DEF Init, Distinct, IsInjective, ToSet
<1>2. ListsInv
  <2>1. ended \in [Requests -> Nat] /\ \A r \in Requests : ended[r] = 0
    BY DEF Init
  <2>2. pending = {} /\ locked = {} /\ io = {} /\ lazy \in BOOLEAN
    BY DEF Init
  <2>3. CompletedOnce
    BY <1>1, <2>1, <2>2 DEF CompletedOnce, InQueries, Distinct
  <2>4. ReleasedOnce /\ HooksEnded
    BY <1>1, <2>2 DEF ReleasedOnce, HooksEnded, Distinct
  <2> QED
    BY <1>1, <2>1, <2>2, <2>3, <2>4 DEF ListsInv
<1>3. CountsInv
  BY ClientAssumption DEF Init, CountsInv
<1>4. QueuedWhileReady
  BY DEF Init, QueuedWhileReady
<1> QED
  BY <1>2, <1>3, <1>4, InvParts

-----------------------------------------------------------------------------
(* Steps that leave the lists alone. *)

\* A step that leaves the lists alone keeps the invariant when it does
\* not make a device with queued requests unready.
LEMMA QuietStep ==
    ASSUME IInv, UNCHANGED lists, CountsInv',
           "READY" \in flags' \/ "READY" \notin flags \/ ct' = "flush",
           ct = "flush" => ct' = "flush"
    PROVE  IInv'
<1>1. ListsInv /\ QueuedWhileReady
  BY InvParts
<1>2. ListsInv'
  BY <1>1, ListsKept
<1>3. QueuedWhileReady'
  <2>1. UNCHANGED <<queries, pending>>
    BY DEF lists
  <2> QED
    BY <1>1, <2>1, QueuesKept
<1> QED
  BY <1>2, <1>3, InvPartsNext

\* The incoming thread, but for replies.
LEMMA IncomingQuiet ==
    ASSUME IInv, InConnect \/ InConnected \/ InFinished \/ InIdentified
              \/ InError \/ InTake \/ InFlag
    PROVE  IInv'
<1> USE DEF CountsInv
<1>0. CountsInv
  BY InvParts
<1>1. CASE InConnect
  <2>1. /\ UNCHANGED lists
        /\ "READY" \in flags' \/ "READY" \notin flags \/ ct' = "flush"
        /\ ct = "flush" => ct' = "flush"
    BY <1>1 DEF InConnect, InOthers, InTo
  <2>2. CountsInv'
    BY <1>0, <1>1 DEF InConnect, InOthers, InTo
  <2> QED
    BY <2>1, <2>2, QuietStep
<1>2. CASE InConnected
  <2>1. /\ UNCHANGED lists
        /\ "READY" \in flags' \/ "READY" \notin flags \/ ct' = "flush"
        /\ ct = "flush" => ct' = "flush"
    BY <1>2 DEF InConnected, InOthers
  <2>2. CountsInv'
    BY <1>0, <1>2, DownStep DEF InConnected, InOthers
  <2> QED
    BY <2>1, <2>2, QuietStep
<1>3. CASE InFinished
  <2>1. /\ UNCHANGED lists
        /\ "READY" \in flags' \/ "READY" \notin flags \/ ct' = "flush"
        /\ ct = "flush" => ct' = "flush"
    BY <1>3 DEF InFinished, InOthers, InTo
  <2>2. CountsInv'
    BY <1>0, <1>3 DEF InFinished, InOthers, InTo
  <2> QED
    BY <2>1, <2>2, QuietStep
<1>4. CASE InIdentified
  <2>1. /\ UNCHANGED lists
        /\ "READY" \in flags' \/ "READY" \notin flags \/ ct' = "flush"
        /\ ct = "flush" => ct' = "flush"
    BY <1>4 DEF InIdentified, Set
  <2>2. CountsInv'
    BY <1>0, <1>4, UpStep DEF InIdentified, Set
  <2> QED
    BY <2>1, <2>2, QuietStep
<1>5. CASE InError
  <2>1. /\ UNCHANGED lists
        /\ "READY" \in flags' \/ "READY" \notin flags \/ ct' = "flush"
        /\ ct = "flush" => ct' = "flush"
    BY <1>5 DEF InError, InOthers, InTo, ReportFirst, ReportKnown, Set
  <2>2. CountsInv'
    BY <1>0, <1>5, UpStep DEF InError, InOthers, InTo, ReportFirst, ReportKnown, Set
  <2> QED
    BY <2>1, <2>2, QuietStep
<1>6. CASE InTake
  <2>1. /\ UNCHANGED lists
        /\ "READY" \in flags' \/ "READY" \notin flags \/ ct' = "flush"
        /\ ct = "flush" => ct' = "flush"
    BY <1>6 DEF InTake, InOthers, InTo
  <2>2. CountsInv'
    BY <1>0, <1>6, DownStep DEF InTake, InOthers, InTo
  <2> QED
    BY <2>1, <2>2, QuietStep
<1>7. CASE InFlag
  <2>1. /\ UNCHANGED lists
        /\ "READY" \in flags' \/ "READY" \notin flags \/ ct' = "flush"
        /\ ct = "flush" => ct' = "flush"
    BY <1>7 DEF InFlag, InOthers, InTo, Set
  <2>2. CountsInv'
    BY <1>0, <1>7 DEF InFlag, InOthers, InTo, Set
  <2> QED
    BY <2>1, <2>2, QuietStep
<1> QED
  BY <1>1, <1>2, <1>3, <1>4, <1>5, <1>6, <1>7

\* The worker, where it waits and where it sends.
LEMMA WorkerQuiet ==
    ASSUME IInv, WkAwaitRecovery \/ WkResume \/ WkRestart \/ WkSleep
              \/ WkDrain \/ WkOut \/ WkSend \/ WkSendFails \/ WkTake \/ WkFlag
    PROVE  IInv'
<1> USE DEF CountsInv
<1>0. CountsInv
  BY InvParts
<1>1. CASE WkAwaitRecovery
  <2>1. /\ UNCHANGED lists
        /\ "READY" \in flags' \/ "READY" \notin flags \/ ct' = "flush"
        /\ ct = "flush" => ct' = "flush"
    BY <1>1 DEF WkAwaitRecovery, WkOthers
  <2>2. CountsInv'
    BY <1>0, <1>1, DownStep DEF WkAwaitRecovery, WkOthers
  <2> QED
    BY <2>1, <2>2, QuietStep
<1>2. CASE WkResume
  <2>1. /\ UNCHANGED lists
        /\ "READY" \in flags' \/ "READY" \notin flags \/ ct' = "flush"
        /\ ct = "flush" => ct' = "flush"
    BY <1>2 DEF WkResume, WkOthers
  <2>2. CountsInv'
    BY <1>0, <1>2, UpStep DEF WkResume, WkOthers
  <2> QED
    BY <2>1, <2>2, QuietStep
<1>3. CASE WkRestart
  <2>1. /\ UNCHANGED lists
        /\ "READY" \in flags' \/ "READY" \notin flags \/ ct' = "flush"
        /\ ct = "flush" => ct' = "flush"
    BY <1>3 DEF WkRestart, WkOthers
  <2>2. CountsInv'
    BY <1>0, <1>3 DEF WkRestart, WkOthers
  <2> QED
    BY <2>1, <2>2, QuietStep
<1>4. CASE WkSleep
  <2>1. /\ UNCHANGED lists
        /\ "READY" \in flags' \/ "READY" \notin flags \/ ct' = "flush"
        /\ ct = "flush" => ct' = "flush"
    BY <1>4 DEF WkSleep, WkOthers
  <2>2. CountsInv'
    BY <1>0, <1>4, DownStep DEF WkSleep, WkOthers
  <2> QED
    BY <2>1, <2>2, QuietStep
<1>5. CASE WkDrain
  <2>1. /\ UNCHANGED lists
        /\ "READY" \in flags' \/ "READY" \notin flags \/ ct' = "flush"
        /\ ct = "flush" => ct' = "flush"
    BY <1>5 DEF WkDrain, WkOthers
  <2>2. CountsInv'
    <3>1. /\ sems.server_out - 1 \in Nat
          /\ sems.more_work + 1 \in Nat
      BY <1>0, <1>5 DEF WkDrain
    <3>2. sems' \in [{"more_work", "recover", "server_in", "server_out"} -> Nat]
      <4>1. sems' = [[sems EXCEPT !.server_out = @ - 1] EXCEPT !.more_work = @ + 1]
        BY <1>5 DEF WkDrain
      <4> QED
        BY <1>0, <3>1, <4>1
    <3> QED
      BY <1>0, <1>5, <3>2 DEF WkDrain, WkOthers
  <2> QED
    BY <2>1, <2>2, QuietStep
<1>6. CASE WkOut
  <2>1. /\ UNCHANGED lists
        /\ "READY" \in flags' \/ "READY" \notin flags \/ ct' = "flush"
        /\ ct = "flush" => ct' = "flush"
    BY <1>6 DEF WkOut, WkOthers
  <2>2. CountsInv'
    BY <1>0, <1>6, DownStep DEF WkOut, WkOthers
  <2> QED
    BY <2>1, <2>2, QuietStep
<1>7. CASE WkSend
  <2>1. /\ UNCHANGED lists
        /\ "READY" \in flags' \/ "READY" \notin flags \/ ct' = "flush"
        /\ ct = "flush" => ct' = "flush"
    BY <1>7 DEF WkSend, WkOthers
  <2>2. CountsInv'
    BY <1>0, <1>7, UpStep DEF WkSend, WkOthers
  <2> QED
    BY <2>1, <2>2, QuietStep
<1>8. CASE WkSendFails
  <2>1. /\ UNCHANGED lists
        /\ "READY" \in flags' \/ "READY" \notin flags \/ ct' = "flush"
        /\ ct = "flush" => ct' = "flush"
    BY <1>8 DEF WkSendFails, WkOthers, ReportFirst, ReportKnown, Set
  <2>2. CountsInv'
    BY <1>0, <1>8, UpStep DEF WkSendFails, WkOthers, ReportFirst, ReportKnown, Set
  <2> QED
    BY <2>1, <2>2, QuietStep
<1>9. CASE WkTake
  <2>1. /\ UNCHANGED lists
        /\ "READY" \in flags' \/ "READY" \notin flags \/ ct' = "flush"
        /\ ct = "flush" => ct' = "flush"
    BY <1>9 DEF WkTake, WkOthers
  <2>2. CountsInv'
    BY <1>0, <1>9, DownStep DEF WkTake, WkOthers
  <2> QED
    BY <2>1, <2>2, QuietStep
<1>10. CASE WkFlag
  <2>1. /\ UNCHANGED lists
        /\ "READY" \in flags' \/ "READY" \notin flags \/ ct' = "flush"
        /\ ct = "flush" => ct' = "flush"
    BY <1>10 DEF WkFlag, WkOthers, Set
  <2>2. CountsInv'
    BY <1>0, <1>10 DEF WkFlag, WkOthers, Set
  <2> QED
    BY <2>1, <2>2, QuietStep
<1> QED
  BY <1>1, <1>2, <1>3, <1>4, <1>5, <1>6, <1>7, <1>8, <1>9, <1>10

\* The control thread, but for the flush, and the end of the device.
LEMMA ControlQuiet ==
    ASSUME IInv, CtConnect \/ CtIdentify \/ CtGive \/ CtLost \/ CtFinished
              \/ Destroy
    PROVE  IInv'
<1> USE DEF CountsInv
<1>0. CountsInv
  BY InvParts
<1>1. CASE CtConnect
  <2>1. /\ UNCHANGED lists
        /\ "READY" \in flags' \/ "READY" \notin flags \/ ct' = "flush"
        /\ ct = "flush" => ct' = "flush"
    BY <1>1 DEF CtConnect, outside
  <2>2. CountsInv'
    BY <1>0, <1>1, UpStep DEF CtConnect, outside
  <2> QED
    BY <2>1, <2>2, QuietStep
<1>2. CASE CtIdentify
  <2>1. /\ UNCHANGED lists
        /\ "READY" \in flags' \/ "READY" \notin flags \/ ct' = "flush"
        /\ ct = "flush" => ct' = "flush"
    BY <1>2 DEF CtIdentify
  <2>2. CountsInv'
    BY <1>0, <1>2 DEF CtIdentify
  <2> QED
    BY <2>1, <2>2, QuietStep
<1>3. CASE CtGive
  <2>1. /\ UNCHANGED lists
        /\ "READY" \in flags' \/ "READY" \notin flags \/ ct' = "flush"
        /\ ct = "flush" => ct' = "flush"
    BY <1>3 DEF CtGive, outside
  <2>2. CountsInv'
    BY <1>0, <1>3, UpStep DEF CtGive, outside
  <2> QED
    BY <2>1, <2>2, QuietStep
<1>4. CASE CtLost
  <2>1. /\ UNCHANGED lists
        /\ "READY" \in flags' \/ "READY" \notin flags \/ ct' = "flush"
        /\ ct = "flush" => ct' = "flush"
    BY <1>4 DEF CtLost, outside
  <2>2. CountsInv'
    BY <1>0, <1>4 DEF CtLost, outside
  <2> QED
    BY <2>1, <2>2, QuietStep
<1>5. CASE CtFinished
  <2>1. /\ UNCHANGED lists
        /\ "READY" \in flags' \/ "READY" \notin flags \/ ct' = "flush"
        /\ ct = "flush" => ct' = "flush"
    BY <1>5 DEF CtFinished, outside
  <2>2. CountsInv'
    BY <1>0, <1>5 DEF CtFinished, outside
  <2> QED
    BY <2>1, <2>2, QuietStep
<1>6. CASE Destroy
  <2>1. /\ UNCHANGED lists
        /\ "READY" \in flags' \/ "READY" \notin flags \/ ct' = "flush"
        /\ ct = "flush" => ct' = "flush"
    BY <1>6 DEF Destroy, Set, threads
  <2>2. CountsInv'
    BY <1>0, <1>6, UpStep DEF Destroy, Set, threads
  <2> QED
    BY <2>1, <2>2, QuietStep
<1> QED
  BY <1>1, <1>2, <1>3, <1>4, <1>5, <1>6

\* The server and the agent.
LEMMA OutsideQuiet ==
    ASSUME IInv, Connect \/ AgentExits \/ (\E s \in Sockets : Break(s))
              \/ (\E s \in Sockets, r \in Requests : Answer(s, r))
    PROVE  IInv'
<1> USE DEF CountsInv
<1>0. CountsInv
  BY InvParts
<1>1. CASE Connect
  <2>1. /\ UNCHANGED lists
        /\ "READY" \in flags' \/ "READY" \notin flags \/ ct' = "flush"
        /\ ct = "flush" => ct' = "flush"
    BY <1>1 DEF Connect, threads
  <2>2. CountsInv'
    BY <1>0, <1>1, ClientAssumption DEF Connect, threads
  <2> QED
    BY <2>1, <2>2, QuietStep
<1>2. CASE AgentExits
  <2>1. /\ UNCHANGED lists
        /\ "READY" \in flags' \/ "READY" \notin flags \/ ct' = "flush"
        /\ ct = "flush" => ct' = "flush"
    BY <1>2 DEF AgentExits, threads
  <2>2. CountsInv'
    BY <1>0, <1>2 DEF AgentExits, threads
  <2> QED
    BY <2>1, <2>2, QuietStep
<1>3. CASE (\E s \in Sockets : Break(s))
  <2>1. /\ UNCHANGED lists
        /\ "READY" \in flags' \/ "READY" \notin flags \/ ct' = "flush"
        /\ ct = "flush" => ct' = "flush"
    BY <1>3 DEF Break, threads
  <2>2. CountsInv'
    BY <1>0, <1>3 DEF Break, threads
  <2> QED
    BY <2>1, <2>2, QuietStep
<1>4. CASE (\E s \in Sockets, r \in Requests : Answer(s, r))
  <2>1. /\ UNCHANGED lists
        /\ "READY" \in flags' \/ "READY" \notin flags \/ ct' = "flush"
        /\ ct = "flush" => ct' = "flush"
    BY <1>4 DEF Answer, threads
  <2>2. CountsInv'
    BY <1>0, <1>4 DEF Answer, threads
  <2> QED
    BY <2>1, <2>2, QuietStep
<1> QED
  BY <1>1, <1>2, <1>3, <1>4

-----------------------------------------------------------------------------
(* Steps that move requests. *)

\* A set of requests is given back, each of them once.
LEMMA EndsStep ==
    ASSUME ListsInv, NEW rs, Ends(rs)
    PROVE  /\ ended' \in [Requests -> Nat]
           /\ \A r \in Requests : ended'[r] = IF r \in rs THEN ended[r] + 1 ELSE ended[r]
BY DEF ListsInv, Ends

\* What is queued, pending or under way has not ended.
LEMMA OpenNotEnded ==
    ASSUME ListsInv, NEW r \in InQueries \union pending \union io
    PROVE  r \in Requests /\ ended[r] = 0
<1>1. r \in Requests
  BY DEF ListsInv, InQueries, Distinct, ToSet
<1>2. ended[r] \in Nat /\ ended[r] <= 1 /\ ended[r] # 1
  BY <1>1 DEF ListsInv, CompletedOnce
<1> QED
  BY <1>1, <1>2

\* A reply moves a request from pending to a device, or ends it.
LEMMA RepliedStep ==
    ASSUME IInv, NEW r \in Requests, InReplied(r)
    PROVE  IInv'
<1>1. ListsInv /\ CountsInv /\ QueuedWhileReady
  BY InvParts
<1>2. UNCHANGED <<flags, sems, queries, releases, lazy, sock, connects, ct>>
  BY DEF InReplied, threads
<1>3. pending' = pending \ {r}
  BY DEF InReplied
<1>4. CountsInv' /\ QueuedWhileReady'
  BY <1>1, <1>2, <1>3 DEF CountsInv, QueuedWhileReady
<1>5. CASE UNCHANGED <<io, locked, ended>>
  BY <1>1, <1>2, <1>3, <1>4, <1>5, InvPartsNext
     DEF ListsInv, CompletedOnce, ReleasedOnce, HooksEnded, InQueries
<1>6. CASE r \in pending /\ Ends({r}) /\ UNCHANGED <<io, locked>>
  <2>1. ended[r] = 0
    BY <1>1, <1>6, OpenNotEnded
  <2>2. /\ ended' \in [Requests -> Nat]
        /\ \A q \in Requests : ended'[q] = IF q = r THEN 1 ELSE ended[q]
    BY <1>1, <1>6, <2>1, EndsStep
  <2>3. CompletedOnce'
    BY <1>1, <1>2, <1>3, <1>6, <2>2 DEF ListsInv, CompletedOnce, InQueries
  <2>4. HooksEnded'
    <3>1. ToSet(releases) \union (locked \ io) \subseteq Requests
      BY <1>1 DEF ListsInv, Distinct, ToSet
    <3> QED
      BY <1>1, <1>2, <1>6, <2>2, <3>1 DEF ListsInv, HooksEnded
  <2> QED
    BY <1>1, <1>2, <1>3, <1>4, <1>6, <2>2, <2>3, <2>4, InvPartsNext
       DEF ListsInv, ReleasedOnce
<1>7. CASE /\ r \in pending /\ io' = io \union {r} /\ UNCHANGED ended
           /\ locked' = locked \/ locked' = locked \union {r}
  <2>1. ended[r] = 0
    BY <1>1, <1>7, OpenNotEnded
  <2>2. r \notin ToSet(releases) /\ r \notin locked \ io
    BY <1>1, <2>1 DEF ListsInv, HooksEnded
  <2>3. CompletedOnce'
    BY <1>1, <1>2, <1>3, <1>7, <2>1 DEF ListsInv, CompletedOnce, InQueries
  <2>4. ReleasedOnce'
    BY <1>1, <1>2, <1>7, <2>2 DEF ListsInv, ReleasedOnce
  <2>5. HooksEnded'
    BY <1>1, <1>2, <1>7 DEF ListsInv, HooksEnded
  <2> QED
    BY <1>1, <1>2, <1>3, <1>4, <1>7, <2>3, <2>4, <2>5, InvPartsNext DEF ListsInv
<1> QED
  BY <1>5, <1>6, <1>7 DEF InReplied

\* ddsnap_map queues a request or gives it back.
LEMMA MapStep ==
    ASSUME IInv, NEW r \in Requests, Map(r)
    PROVE  IInv'
<1>1. ListsInv /\ CountsInv /\ QueuedWhileReady
  BY InvParts
<1>2. /\ UNCHANGED <<flags, pending, locked, releases, lazy, io, sock, connects, ct>>
      /\ ended[r] = 0 /\ r \notin InQueries \union pending \union io
  BY DEF Map, threads, outside
<1>3. CASE /\ WorkerReady
           /\ queries' = <<r>> \o queries /\ Up({"more_work"}) /\ UNCHANGED ended
  <2>1. /\ Distinct(queries', Requests)
        /\ ToSet(queries') = {r} \union ToSet(queries)
    <3>1. Distinct(<<r>>, Requests) /\ ToSet(<<r>>) = {r}
      BY OneDistinct
    <3>2. Distinct(queries, Requests) /\ {r} \intersect ToSet(queries) = {}
      BY <1>1, <1>2 DEF ListsInv, InQueries
    <3> QED
      BY <1>3, <3>1, <3>2, JoinDistinct
  <2>2. CompletedOnce'
    BY <1>1, <1>2, <1>3, <2>1 DEF ListsInv, CompletedOnce, InQueries, Distinct
  <2>3. ListsInv'
    <3>1. ReleasedOnce' /\ HooksEnded'
      BY <1>1, <1>2, <1>3 DEF ListsInv, ReleasedOnce, HooksEnded
    <3> QED
      BY <1>1, <1>2, <1>3, <2>1, <2>2, <3>1 DEF ListsInv, Distinct
  <2>4. CountsInv'
    BY <1>1, <1>2, <1>3, UpStep DEF CountsInv
  <2>5. QueuedWhileReady'
    BY <1>2, <1>3 DEF QueuedWhileReady, WorkerReady
  <2> QED
    BY <2>3, <2>4, <2>5, InvPartsNext
<1>4. CASE Ends({r}) /\ UNCHANGED <<queries, sems>>
  <2>1. /\ ended' \in [Requests -> Nat]
        /\ \A q \in Requests : ended'[q] = IF q = r THEN 1 ELSE ended[q]
    BY <1>1, <1>2, <1>4, EndsStep
  <2>2. CompletedOnce'
    BY <1>1, <1>2, <1>4, <2>1 DEF ListsInv, CompletedOnce, InQueries
  <2>3. HooksEnded'
    <3>1. ToSet(releases) \union (locked \ io) \subseteq Requests
      BY <1>1 DEF ListsInv, Distinct, ToSet
    <3> QED
      BY <1>1, <1>2, <2>1, <3>1 DEF ListsInv, HooksEnded
  <2>4. ListsInv'
    BY <1>1, <1>2, <1>4, <2>1, <2>2, <2>3 DEF ListsInv, ReleasedOnce
  <2>5. CountsInv' /\ QueuedWhileReady'
    BY <1>1, <1>2, <1>4 DEF CountsInv, QueuedWhileReady
  <2> QED
    BY <2>4, <2>5, InvPartsNext
<1> QED
  BY <1>3, <1>4 DEF Map

\* A device is done: the request ends, and its hook is put up for release.
LEMMA EndIOStep ==
    ASSUME IInv, NEW r \in Requests, EndIO(r)
    PROVE  IInv'
<1>1. ListsInv /\ CountsInv /\ QueuedWhileReady
  BY InvParts
<1>2. /\ r \in io /\ io' = io \ {r} /\ Ends({r})
      /\ UNCHANGED <<flags, queries, pending, lazy, sock, connects, ct>>
  BY DEF EndIO, threads, outside
<1>3. /\ ended[r] = 0
      /\ ended' \in [Requests -> Nat]
      /\ \A q \in Requests : ended'[q] = IF q = r THEN 1 ELSE ended[q]
  <2>1. ended[r] = 0
    BY <1>1, <1>2, OpenNotEnded
  <2> QED
    BY <1>1, <1>2, <2>1, EndsStep
<1>4. r \notin ToSet(releases) /\ ToSet(releases) \union locked \subseteq Requests
  <2>1. \A q \in ToSet(releases) : ended[q] = 1
    BY <1>1 DEF ListsInv, HooksEnded
  <2>2. ToSet(releases) \subseteq Requests
    BY <1>1 DEF ListsInv, Distinct, ToSet
  <2> QED
    BY <1>1, <1>3, <2>1, <2>2 DEF ListsInv
<1>5. CompletedOnce'
  BY <1>1, <1>2, <1>3 DEF ListsInv, CompletedOnce, InQueries
<1>6. CountsInv'
  BY <1>1, <1>2, UpStep DEF EndIO, CountsInv
<1>7. QueuedWhileReady'
  BY <1>1, <1>2 DEF QueuedWhileReady
<1>8. CASE UNCHANGED <<locked, releases>>
  <2>1. ReleasedOnce'
    BY <1>1, <1>2, <1>8 DEF ListsInv, ReleasedOnce
  <2>2. HooksEnded'
    BY <1>1, <1>2, <1>3, <1>4, <1>8 DEF ListsInv, HooksEnded
  <2>3. ListsInv'
    BY <1>1, <1>2, <1>3, <1>5, <1>8, <2>1, <2>2 DEF ListsInv
  <2> QED
    BY <1>6, <1>7, <2>3, InvPartsNext
<1>9. CASE locked' = locked \ {r} /\ releases' = <<r>> \o releases
  <2>1. /\ Distinct(releases', Requests)
        /\ ToSet(releases') = {r} \union ToSet(releases)
    <3>1. Distinct(<<r>>, Requests) /\ ToSet(<<r>>) = {r}
      BY OneDistinct
    <3>2. Distinct(releases, Requests) /\ {r} \intersect ToSet(releases) = {}
      BY <1>1, <1>4 DEF ListsInv
    <3> QED
      BY <1>9, <3>1, <3>2, JoinDistinct
  <2>2. ReleasedOnce'
    BY <1>1, <1>2, <1>9, <2>1 DEF ListsInv, ReleasedOnce, Distinct
  <2>3. HooksEnded'
    BY <1>1, <1>2, <1>3, <1>4, <1>9, <2>1 DEF ListsInv, HooksEnded
  <2>4. ListsInv'
    BY <1>1, <1>2, <1>3, <1>5, <1>9, <2>1, <2>2, <2>3 DEF ListsInv
  <2> QED
    BY <1>6, <1>7, <2>4, InvPartsNext
<1> QED
  BY <1>8, <1>9 DEF EndIO

\* upload_locks, to where it drops the lock.
LEMMA UploadStep ==
    ASSUME IInv, WkUpload
    PROVE  IInv'
<1>1. ListsInv /\ CountsInv /\ QueuedWhileReady
  BY InvParts
<1>2. /\ lazy' = TRUE /\ releases' = <<>> /\ locked' = locked \intersect io
      /\ UNCHANGED <<flags, sems, queries, pending, io, ended, sock, connects, ct>>
  BY DEF WkUpload, WkOthers
<1>3. Distinct(<<>>, Requests) /\ ToSet(<<>>) = {}
  BY DEF Distinct, IsInjective, ToSet
<1>4. CompletedOnce'
  BY <1>1, <1>2 DEF ListsInv, CompletedOnce, InQueries
<1>5. ReleasedOnce' /\ HooksEnded'
  BY <1>2, <1>3 DEF ReleasedOnce, HooksEnded, Distinct
<1>6. ListsInv'
  BY <1>1, <1>2, <1>3, <1>4, <1>5 DEF ListsInv
<1>7. CountsInv' /\ QueuedWhileReady'
  BY <1>1, <1>2 DEF CountsInv, QueuedWhileReady
<1> QED
  BY <1>6, <1>7, InvPartsNext

\* upload_locks, from where it takes the lock again.
LEMMA UploadedStep ==
    ASSUME IInv, WkUploaded
    PROVE  IInv'
<1>1. ListsInv /\ CountsInv /\ QueuedWhileReady
  BY InvParts
<1>2. /\ lazy' = FALSE
      /\ UNCHANGED <<flags, sems, queries, pending, io, ended, sock, connects, ct>>
  BY DEF WkUploaded, WkOthers
<1>3. CompletedOnce'
  BY <1>1, <1>2 DEF ListsInv, CompletedOnce, InQueries
<1>4. CountsInv' /\ QueuedWhileReady'
  BY <1>1, <1>2 DEF CountsInv, QueuedWhileReady
<1>5. CASE UNCHANGED <<releases, locked>>
  <2>1. ListsInv'
    BY <1>1, <1>2, <1>3, <1>5 DEF ListsInv, ReleasedOnce, HooksEnded
  <2> QED
    BY <1>4, <2>1, InvPartsNext
<1>6. CASE /\ \E new \in SetToSeqs(locked \ io) : releases' = new \o releases
           /\ locked' = locked \intersect io
  <2>1. PICK new \in SetToSeqs(locked \ io) : releases' = new \o releases
    BY <1>6
  <2>2. locked \ io \in SUBSET Requests /\ IsFiniteSet(locked \ io)
    BY <1>1, ClientAssumption, FS_Subset DEF ListsInv
  <2>3. /\ Distinct(releases, Requests)
        /\ ToSet(releases) \intersect locked = {} /\ ToSet(releases) \intersect io = {}
    BY <1>1 DEF ListsInv, ReleasedOnce
  <2>4. (locked \ io) \intersect ToSet(releases) = {}
    BY <2>3
  <2>5. /\ Distinct(releases', Requests)
        /\ ToSet(releases') \subseteq (locked \ io) \union ToSet(releases)
    BY <2>1, <2>2, <2>3, <2>4, MoveDistinct
  <2>6. ReleasedOnce'
    BY <1>2, <1>6, <2>3, <2>5 DEF ReleasedOnce, Distinct
  <2>7. HooksEnded'
    BY <1>1, <1>2, <1>6, <2>5 DEF ListsInv, HooksEnded
  <2>8. ListsInv'
    BY <1>1, <1>2, <1>3, <1>6, <2>5, <2>6, <2>7 DEF ListsInv
  <2> QED
    BY <1>4, <2>8, InvPartsNext
<1> QED
  BY <1>5, <1>6 DEF WkUploaded

\* requeue_queries. Without READY there is nothing to requeue.
LEMMA RequeueStep ==
    ASSUME IInv, WkRequeue
    PROVE  IInv'
<1>1. ListsInv /\ CountsInv /\ QueuedWhileReady
  BY InvParts
<1>2. /\ pending' = {} /\ sems' = [sems EXCEPT !.more_work = @ + Cardinality(pending)]
      /\ UNCHANGED <<flags, locked, releases, lazy, io, ended, sock, connects, ct>>
  BY DEF WkRequeue, WkOthers
<1>3. PICK new \in SetToSeqs(pending) : queries' = new \o queries
  BY DEF WkRequeue
<1>4. pending \in SUBSET Requests /\ IsFiniteSet(pending) /\ Cardinality(pending) \in Nat
  BY <1>1, ClientAssumption, FS_Subset, FS_CardinalityType DEF ListsInv
<1>5. Distinct(queries, Requests) /\ pending \intersect ToSet(queries) = {}
  BY <1>1 DEF ListsInv, CompletedOnce, InQueries
<1>6. /\ Distinct(queries', Requests)
      /\ ToSet(queries') \subseteq pending \union ToSet(queries)
  BY <1>3, <1>4, <1>5, MoveDistinct
<1>7. CompletedOnce'
  BY <1>1, <1>2, <1>6 DEF ListsInv, CompletedOnce, InQueries, Distinct
<1>8. ListsInv'
  <2>1. ReleasedOnce' /\ HooksEnded'
    BY <1>1, <1>2 DEF ListsInv, ReleasedOnce, HooksEnded
  <2> QED
    BY <1>1, <1>2, <1>6, <1>7, <2>1 DEF ListsInv
<1>9. CountsInv'
  <2>1. sems.more_work + Cardinality(pending) \in Nat
    BY <1>1, <1>4 DEF CountsInv
  <2> QED
    BY <1>1, <1>2, <2>1 DEF CountsInv
<1>10. QueuedWhileReady'
  <2> SUFFICES ASSUME "READY" \notin flags, ct # "flush"
               PROVE  queries' = <<>> /\ pending' = {}
    BY <1>2 DEF QueuedWhileReady
  <2>1. queries = <<>> /\ new = <<>>
    BY <1>1, <1>4, OrdersDistinct DEF QueuedWhileReady
  <2>2. <<>> \o <<>> = <<>>
    OBVIOUS
  <2> QED
    BY <1>2, <1>3, <2>1, <2>2
<1> QED
  BY <1>8, <1>9, <1>10, InvPartsNext

\* The worker takes the oldest query, or none.
LEMMA QueryStep ==
    ASSUME IInv, WkQuery
    PROVE  IInv'
<1>1. ListsInv /\ CountsInv /\ QueuedWhileReady
  BY InvParts
<1>2. UNCHANGED <<flags, sems, locked, releases, lazy, io, ended, sock, connects, ct>>
  BY DEF WkQuery, WkOthers
<1>3. CountsInv'
  BY <1>1, <1>2 DEF CountsInv
<1>4. CASE UNCHANGED <<pending, queries>>
  <2>1. ListsInv'
    BY <1>1, <1>2, <1>4 DEF ListsInv, CompletedOnce, InQueries, ReleasedOnce, HooksEnded
  <2>2. QueuedWhileReady'
    BY <1>1, <1>2, <1>4 DEF QueuedWhileReady
  <2> QED
    BY <1>3, <2>1, <2>2, InvPartsNext
<1>5. CASE /\ queries # <<>> /\ WorkerReady
           /\ pending' = pending \union {Last(queries)} /\ queries' = Front(queries)
  <2>1. /\ Distinct(Front(queries), Requests)
        /\ Last(queries) \in ToSet(queries)
        /\ ToSet(Front(queries)) = ToSet(queries) \ {Last(queries)}
    BY <1>1, <1>5, FrontDistinct DEF ListsInv
  <2>2. Last(queries) \in Requests /\ ended[Last(queries)] = 0
    BY <1>1, <2>1, OpenNotEnded DEF InQueries
  <2>3. CompletedOnce'
    BY <1>1, <1>2, <1>5, <2>1, <2>2 DEF ListsInv, CompletedOnce, InQueries, Distinct
  <2>4. ReleasedOnce' /\ HooksEnded'
    BY <1>1, <1>2 DEF ListsInv, ReleasedOnce, HooksEnded
  <2>5. ListsInv'
    BY <1>1, <1>2, <1>5, <2>1, <2>2, <2>3, <2>4 DEF ListsInv
  <2>6. QueuedWhileReady'
    BY <1>2, <1>5 DEF QueuedWhileReady, WorkerReady
  <2> QED
    BY <1>3, <2>5, <2>6, InvPartsNext
<1> QED
  BY <1>4, <1>5 DEF WkQuery

\* The worker takes the oldest release, or none.
LEMMA ReleaseStep ==
    ASSUME IInv, WkRelease
    PROVE  IInv'
<1>1. ListsInv /\ CountsInv /\ QueuedWhileReady
  BY InvParts
<1>2. UNCHANGED <<flags, sems, queries, pending, locked, lazy, io, ended, sock,
                  connects, ct>>
  BY DEF WkRelease, WkOthers
<1>3. CountsInv' /\ QueuedWhileReady' /\ CompletedOnce'
  BY <1>1, <1>2 DEF ListsInv, CountsInv, QueuedWhileReady, CompletedOnce, InQueries
<1>4. CASE UNCHANGED releases
  <2>1. ReleasedOnce' /\ HooksEnded'
    BY <1>1, <1>2, <1>4 DEF ListsInv, ReleasedOnce, HooksEnded
  <2> QED
    BY <1>1, <1>2, <1>3, <1>4, <2>1, InvPartsNext DEF ListsInv
<1>5. CASE releases # <<>> /\ releases' = Front(releases)
  <2>1. /\ Distinct(Front(releases), Requests)
        /\ ToSet(Front(releases)) \subseteq ToSet(releases)
    BY <1>1, <1>5, FrontDistinct DEF ListsInv
  <2>2. ReleasedOnce'
    BY <1>1, <1>2, <1>5, <2>1 DEF ListsInv, ReleasedOnce, Distinct
  <2>3. HooksEnded'
    BY <1>1, <1>2, <1>5, <2>1 DEF ListsInv, HooksEnded
  <2> QED
    BY <1>1, <1>2, <1>3, <1>5, <2>1, <2>2, <2>3, InvPartsNext DEF ListsInv
<1> QED
  BY <1>4, <1>5 DEF WkRelease

\* flush_pending_bio.
LEMMA FlushStep ==
    ASSUME IInv, CtFlush \/ CtFlushed
    PROVE  IInv'
<1>1. ListsInv /\ CountsInv /\ QueuedWhileReady
  BY InvParts
<1>2. Distinct(<<>>, Requests) /\ ToSet(<<>>) = {}
  BY DEF Distinct, IsInjective, ToSet
<1>3. CASE CtFlush
  <2>1. /\ queries' = <<>> /\ pending' = {} /\ Ends(InQueries \union pending)
        /\ UNCHANGED <<flags, sems, locked, releases, lazy, io, sock, connects>>
    BY <1>3 DEF CtFlush, outside
  <2>2. \A r \in InQueries \union pending : r \in Requests /\ ended[r] = 0
    BY <1>1, OpenNotEnded
  <2>3. /\ ended' \in [Requests -> Nat]
        /\ \A r \in Requests :
             ended'[r] = IF r \in InQueries \union pending THEN 1 ELSE ended[r]
    BY <1>1, <2>1, <2>2, EndsStep
  <2>4. CompletedOnce'
    BY <1>1, <1>2, <2>1, <2>3 DEF ListsInv, CompletedOnce, InQueries, Distinct
  <2>5. ReleasedOnce'
    BY <1>1, <2>1 DEF ListsInv, ReleasedOnce
  <2>6. HooksEnded'
    <3>1. ToSet(releases) \union (locked \ io) \subseteq Requests
      BY <1>1 DEF ListsInv, Distinct, ToSet
    <3> QED
      BY <1>1, <2>1, <2>3, <3>1 DEF ListsInv, HooksEnded
  <2>7. ListsInv'
    BY <1>1, <1>2, <2>1, <2>3, <2>4, <2>5, <2>6 DEF ListsInv
  <2>8. CountsInv' /\ QueuedWhileReady'
    BY <1>1, <2>1 DEF CountsInv, QueuedWhileReady
  <2> QED
    BY <2>7, <2>8, InvPartsNext
<1>4. CASE CtFlushed
  <2>1. UNCHANGED <<flags, queries, pending, locked, lazy, io, ended, sock, connects>>
    BY <1>4 DEF CtFlushed
  <2>2. releases' = <<>> /\ Up({"more_work"}) /\ ct = "flushed"
    BY <1>4 DEF CtFlushed
  <2>3. ReleasedOnce' /\ HooksEnded'
    BY <1>1, <1>2, <2>1, <2>2 DEF ListsInv, ReleasedOnce, HooksEnded, Distinct
  <2>4. CompletedOnce'
    BY <1>1, <2>1 DEF ListsInv, CompletedOnce, InQueries
  <2>5. ListsInv'
    BY <1>1, <1>2, <2>1, <2>2, <2>3, <2>4 DEF ListsInv
  <2>6. CountsInv'
    BY <1>1, <2>1, <2>2, UpStep DEF CountsInv
  <2>7. QueuedWhileReady'
    BY <1>1, <2>1, <2>2 DEF QueuedWhileReady
  <2> QED
    BY <2>5, <2>6, <2>7, InvPartsNext
<1> QED
  BY <1>3, <1>4

-----------------------------------------------------------------------------
(* The theorems. *)

\* Every step keeps the invariant, and so does a stutter.
LEMMA NextInv == ASSUME IInv, [Next]_vars PROVE IInv'
<1>1. CASE Incoming
  BY <1>1, IncomingQuiet, RepliedStep DEF Incoming
<1>2. CASE Worker
  BY <1>2, WorkerQuiet, UploadStep, UploadedStep, RequeueStep, QueryStep, ReleaseStep
     DEF Worker
<1>3. CASE Control \/ Destroy
  BY <1>3, ControlQuiet, FlushStep DEF Control
<1>4. CASE \E r \in Requests : Map(r) \/ EndIO(r)
  BY <1>4, MapStep, EndIOStep
<1>5. CASE Connect \/ AgentExits
  BY <1>5, OutsideQuiet
<1>6. CASE \E s \in Sockets : Break(s) \/ \E r \in Requests : Answer(s, r)
  BY <1>6, OutsideQuiet
<1>7. CASE UNCHANGED vars
  <2>1. UNCHANGED <<flags, sems, lists, queries, pending, sock, connects, ct>>
    BY <1>7 DEF vars, lists, threads, outside
  <2>2. CountsInv' /\ QueuedWhileReady'
    BY <2>1, InvParts DEF CountsInv, QueuedWhileReady
  <2> QED
    BY <2>1, <2>2, QuietStep
<1> QED
  BY <1>1, <1>2, <1>3, <1>4, <1>5, <1>6, <1>7 DEF Next

\* The invariant holds for any number of requests and connections, breaks at
\* any time, a lost agent and a device destroyed under its threads.
THEOREM ClientInvariant == Spec => []IInv
<1>1. Init => IInv
  BY InitInv
<1>2. IInv /\ [Next]_vars => IInv'
  BY NextInv
<1> QED
  BY <1>1, <1>2, PTL DEF Spec

\* The lists of the device hold requests, its semaphores never go below zero.
THEOREM ClientTyped == Spec => []ClientTypeOK
<1>1. IInv => ClientTypeOK
  BY DEF IInv
<1> QED
  BY <1>1, ClientInvariant, PTL

\* No request is found in two lists, taken up after its end or ended twice.
THEOREM RequestsCompleteOnce == Spec => []CompletedOnce
<1>1. IInv => CompletedOnce
  BY DEF IInv
<1> QED
  BY <1>1, ClientInvariant, PTL

\* A read is released once, and only after its end.
THEOREM ReadsReleasedOnce == Spec => []ReleasedOnce
<1>1. IInv => ReleasedOnce
  BY DEF IInv
<1> QED
  BY <1>1, ClientInvariant, PTL

\* After the flush for a lost agent nothing is left waiting in the device.
THEOREM NothingWaitsUnready == Spec => []QueuedWhileReady
<1>1. IInv => QueuedWhileReady
  BY DEF IInv
<1> QED
  BY <1>1, ClientInvariant, PTL
=============================================================================
