------------------------------- MODULE Client -------------------------------
(***************************************************************************)
(* The threads of a snapshot device in the kernel (dm-ddsnap): "incoming"  *)
(* reads what the server sends, "worker" sends queries and read releases,  *)
(* "control" talks to the agent. They hand the recovery of a connection to *)
(* each other through semaphores and flags, while requests and ends of     *)
(* reads come in from the block layer at any time.                         *)
(*                                                                         *)
(* A step is what a thread does up to the next semaphore, spinlock or      *)
(* socket. The flags are changed one at a time. A socket is the number of  *)
(* the connection it belongs to.                                           *)
(***************************************************************************)
EXTENDS Integers, Sequences, FiniteSets, SequencesExt

CONSTANTS Requests,     \* requests of the block layer, each for one chunk
          MaxConnects   \* bound: connections the agent makes; the last one lasts

ASSUME ClientAssumption == IsFiniteSet(Requests) /\ MaxConnects \in Nat \ {0}

NONE == "none"   \* the worker has no request in hand
Sockets == 1 .. MaxConnects

VARIABLES
    flags,     \* REPORT, RECOVER, READY, FINISH
    sems,      \* more_work, recover, server_in, server_out
    queries,   \* info->queries: the oldest last
    pending,   \* info->pending: sent to the server, or about to be
    locked,    \* info->locked: hooks of reads from the origin
    releases,  \* info->releases: hooks of ended reads
    lazy,      \* info->dont_switch_lists
    io,        \* requests submitted to a device
    ended,     \* requests given back to the block layer: how many times
    sock,      \* info->sock, 0 before the first
    in,        \* incoming: [pc, sock]
    wk,        \* worker: [pc, hand]
    ct,        \* control: its pc
    wire,      \* socket -> what the server sent and incoming has not read
    asked,     \* socket -> queries the server has to answer
    broken,    \* sockets that lost their other end
    needs,     \* NEED_SERVER messages at the agent
    connects,  \* sockets the agent has sent
    agent      \* the agent runs

lists == <<queries, pending, locked, releases, lazy, io, ended>>
threads == <<in, wk, ct>>
outside == <<wire, asked, broken, needs, connects, agent>>
vars == <<flags, sems, lists, sock, threads, outside>>

Running == "FINISH" \notin flags
WorkerRunning == flags \intersect {"FINISH", "RECOVER"} = {}
WorkerReady == WorkerRunning /\ "READY" \in flags

Up(names) == sems' = [n \in DOMAIN sems |-> IF n \in names THEN sems[n] + 1 ELSE sems[n]]

\* Fault: a wait that does not wait.
DownAtOnce(name) == sems' = [sems EXCEPT ![name] = @ - 1]

Down(name) == sems[name] > 0 /\ sems' = [sems EXCEPT ![name] = @ - 1]

Set(f) == flags' = flags \union {f}

Ends(rs) == ended' = [r \in Requests |-> IF r \in rs THEN ended[r] + 1 ELSE ended[r]]

InQueries == ToSet(queries)

-----------------------------------------------------------------------------
(* report_error, of either thread: the first to see the error wakes the    *)
(* worker, takes recover_sem ("take") and sets RECOVER ("flag").           *)

ReportFirst == "REPORT" \notin flags /\ Set("REPORT") /\ Up({"more_work"})
ReportKnown == "REPORT" \in flags /\ UNCHANGED <<flags, sems>>

-----------------------------------------------------------------------------
(* incoming *)

InTo(pc) == in' = [in EXCEPT !.pc = pc]

InOthers == UNCHANGED <<lists, sock, wk, ct, wire, asked, broken, connects, agent>>

\* A message to a dead agent is lost.
InConnect ==
    /\ in.pc = "connect"
    /\ needs' = IF agent THEN needs + 1 ELSE needs
    /\ InTo("wait")
    /\ UNCHANGED <<flags, sems>> /\ InOthers

InConnected ==
    /\ in.pc = "wait"
    /\ Down("server_in")
    /\ in' = [pc |-> "read", sock |-> sock]
    /\ UNCHANGED <<flags, needs>> /\ InOthers

InFinished ==
    /\ in.pc = "read" /\ ~Running
    /\ InTo("out")
    /\ UNCHANGED <<flags, sems, needs>> /\ InOthers

\* Fault: the worker is not let out again.
InIdentifiedQuiet ==
    /\ in.pc = "read" /\ Running
    /\ "IDENTIFY_OK" \in wire[in.sock]
    /\ wire' = [wire EXCEPT ![in.sock] = @ \ {"IDENTIFY_OK"}]
    /\ Set("READY")
    /\ UNCHANGED <<sems, lists, sock, in, wk, ct, asked, broken, needs, connects, agent>>

\* IDENTIFY_OK
InIdentified ==
    /\ in.pc = "read" /\ Running
    /\ "IDENTIFY_OK" \in wire[in.sock]
    /\ wire' = [wire EXCEPT ![in.sock] = @ \ {"IDENTIFY_OK"}]
    /\ Set("READY")
    /\ Up({"server_out"})
    /\ UNCHANGED <<lists, sock, in, wk, ct, asked, broken, needs, connects, agent>>

\* Fault: a reply is taken for a request that is not pending.
InRepliedStale(r) ==
    /\ in.pc = "read" /\ Running
    /\ r \in wire[in.sock]
    /\ wire' = [wire EXCEPT ![in.sock] = @ \ {r}]
    /\ pending' = pending \ {r}
    /\ io' = io \union {r}
    /\ UNCHANGED <<flags, sems, queries, locked, releases, lazy, ended, sock, threads,
                   asked, broken, needs, connects, agent>>

\* replied_rw: the request is failed, or submitted to the store or, hooked, to
\* the origin. A reply to a request that is not pending is dropped.
InReplied(r) ==
    /\ in.pc = "read" /\ Running
    /\ r \in wire[in.sock]
    /\ wire' = [wire EXCEPT ![in.sock] = @ \ {r}]
    /\ pending' = pending \ {r}
    /\ IF r \notin pending THEN UNCHANGED <<io, locked, ended>>
       ELSE \/ Ends({r}) /\ UNCHANGED <<io, locked>>
            \/ io' = io \union {r} /\ UNCHANGED <<locked, ended>>
            \/ io' = io \union {r} /\ locked' = locked \union {r} /\ UNCHANGED ended
    /\ UNCHANGED <<flags, sems, queries, releases, lazy, sock, threads, asked,
                   broken, needs, connects, agent>>

\* socket_error
InError ==
    /\ in.pc = "read" /\ Running
    /\ in.sock \in broken
    /\ \/ ReportFirst /\ InTo("take")
       \/ ReportKnown /\ InTo("connect")
    /\ UNCHANGED needs /\ InOthers

InTake ==
    /\ in.pc = "take"
    /\ Down("recover")
    /\ InTo("flag")
    /\ UNCHANGED <<flags, needs>> /\ InOthers

InFlag ==
    /\ in.pc = "flag"
    /\ Set("RECOVER")
    /\ InTo("connect")
    /\ UNCHANGED <<sems, needs>> /\ InOthers

Incoming ==
    \/ InConnect \/ InConnected \/ InFinished \/ InIdentified
    \/ \E r \in Requests : InReplied(r)
    \/ InError \/ InTake \/ InFlag

-----------------------------------------------------------------------------
(* worker *)

WkTo(pc) == wk' = [wk EXCEPT !.pc = pc]

WkOthers == UNCHANGED <<sock, in, ct, wire, broken, needs, connects, agent>>

WkAwaitRecovery ==
    /\ wk.pc = "recover"
    /\ Down("recover")
    /\ WkTo(IF Running THEN "upload" ELSE "out")
    /\ UNCHANGED <<flags, lists, asked>> /\ WkOthers

\* upload_locks up to the messages: the releases go, and the hooks of reads
\* that have ended. The server ignores what is uploaded.
WkUpload ==
    /\ wk.pc = "upload"
    /\ lazy' = TRUE
    /\ releases' = <<>>
    /\ locked' = locked \intersect io
    /\ WkTo("uploaded")
    /\ UNCHANGED <<flags, sems, queries, pending, io, ended, asked>> /\ WkOthers

\* upload_locks after the messages: reads that have ended meanwhile.
WkUploaded ==
    /\ wk.pc = "uploaded"
    /\ lazy' = FALSE
    /\ IF WorkerReady
       THEN /\ \E new \in SetToSeqs(locked \ io) : releases' = new \o releases
            /\ locked' = locked \intersect io
       ELSE UNCHANGED <<releases, locked>>
    /\ WkTo("requeue")
    /\ UNCHANGED <<flags, sems, queries, pending, io, ended, asked>> /\ WkOthers

\* requeue_queries. In which order depends on the ids.
WkRequeue ==
    /\ wk.pc = "requeue"
    /\ \E new \in SetToSeqs(pending) : queries' = new \o queries
    /\ pending' = {}
    /\ sems' = [sems EXCEPT !.more_work = @ + Cardinality(pending)]
    /\ WkTo("resume")
    /\ UNCHANGED <<flags, locked, releases, lazy, io, ended, asked>> /\ WkOthers

WkResume ==
    /\ wk.pc = "resume"
    /\ flags' = flags \ {"RECOVER", "REPORT"}
    /\ Up({"recover"})
    /\ WkTo("restart")
    /\ UNCHANGED <<lists, asked>> /\ WkOthers

\* The condition of the worker's loop, and what follows when it fails.
WkRestart ==
    /\ wk.pc = "restart"
    /\ WkTo(IF WorkerRunning THEN "sleep"
            ELSE IF "RECOVER" \in flags THEN "drain" ELSE "out")
    /\ UNCHANGED <<flags, sems, lists, asked>> /\ WkOthers

WkSleep ==
    /\ wk.pc = "sleep"
    /\ Down("more_work")
    /\ WkTo("queries")
    /\ UNCHANGED <<flags, lists, asked>> /\ WkOthers

WkDrain ==
    /\ wk.pc = "drain"
    /\ sems.server_out > 0
    /\ sems' = [sems EXCEPT !.server_out = @ - 1, !.more_work = @ + 1]
    /\ WkTo("recover")
    /\ UNCHANGED <<flags, lists, asked>> /\ WkOthers

\* Under pending_lock: the oldest query becomes pending.
WkQuery ==
    /\ wk.pc = "queries"
    /\ IF queries # <<>> /\ WorkerReady
       THEN /\ pending' = pending \union {Last(queries)}
            /\ queries' = Front(queries)
            /\ wk' = [pc |-> "query", hand |-> Last(queries)]
       ELSE WkTo("releases") /\ UNCHANGED <<pending, queries>>
    /\ UNCHANGED <<flags, sems, locked, releases, lazy, io, ended, asked>> /\ WkOthers

\* Under end_io_lock: the oldest release.
WkRelease ==
    /\ wk.pc = "releases"
    /\ IF releases # <<>> /\ WorkerReady
       THEN releases' = Front(releases) /\ wk' = [pc |-> "release", hand |-> NONE]
       ELSE WkTo("restart") /\ UNCHANGED releases
    /\ UNCHANGED <<flags, sems, queries, pending, locked, lazy, io, ended, asked>> /\ WkOthers

\* server_out_sem is taken for a message ...
WkOut ==
    /\ wk.pc \in {"query", "release"}
    /\ Down("server_out")
    /\ WkTo(IF wk.pc = "query" THEN "sendQuery" ELSE "sendRelease")
    /\ UNCHANGED <<flags, lists, asked>> /\ WkOthers

\* ... and given back when the message is out: it may be lost even so.
WkSend ==
    /\ wk.pc \in {"sendQuery", "sendRelease"}
    /\ IF wk.pc = "sendRelease" \/ sock \in broken THEN UNCHANGED asked
       ELSE asked' = [asked EXCEPT ![sock] = @ \union {wk.hand}]
    /\ Up({"server_out"})
    /\ wk' = [pc |-> IF wk.pc = "sendQuery" THEN "queries" ELSE "releases", hand |-> NONE]
    /\ UNCHANGED <<flags, lists>> /\ WkOthers

\* If it is not, server_out_sem stays taken.
WkSendFails ==
    /\ wk.pc \in {"sendQuery", "sendRelease"}
    /\ sock \in broken
    /\ \/ ReportFirst /\ wk' = [pc |-> "take", hand |-> NONE]
       \/ ReportKnown /\ wk' = [pc |-> "recover", hand |-> NONE]
    /\ UNCHANGED <<lists, asked>> /\ WkOthers

WkTake ==
    /\ wk.pc = "take"
    /\ Down("recover")
    /\ WkTo("flag")
    /\ UNCHANGED <<flags, lists, asked>> /\ WkOthers

WkFlag ==
    /\ wk.pc = "flag"
    /\ Set("RECOVER")
    /\ WkTo("recover")
    /\ UNCHANGED <<sems, lists, asked>> /\ WkOthers

Worker ==
    \/ WkAwaitRecovery \/ WkUpload \/ WkUploaded \/ WkRequeue \/ WkResume
    \/ WkRestart \/ WkSleep \/ WkDrain \/ WkQuery \/ WkRelease
    \/ WkOut \/ WkSend \/ WkSendFails \/ WkTake \/ WkFlag

-----------------------------------------------------------------------------
(* control *)

\* CONNECT_SERVER with a socket.
CtConnect ==
    /\ ct = "read" /\ Running
    /\ sock < connects
    /\ sock' = sock + 1
    /\ Up({"server_in"})
    /\ ct' = "identify"
    /\ UNCHANGED <<flags, lists, in, wk, outside>>

\* The server answers an IDENTIFY at once. If it cannot be sent, the thread
\* ends; on a broken socket it may also be lost.
CtIdentify ==
    /\ ct = "identify"
    /\ \/ sock \in broken /\ ct' = "out" /\ UNCHANGED wire
       \/ /\ ct' = "give"
          /\ wire' = IF sock \in broken THEN wire
                     ELSE [wire EXCEPT ![sock] = @ \union {"IDENTIFY_OK"}]
    /\ UNCHANGED <<flags, sems, lists, sock, in, wk, asked, broken, needs, connects, agent>>

CtGive ==
    /\ ct = "give"
    /\ Up({"recover"})
    /\ ct' = "read"
    /\ UNCHANGED <<flags, lists, sock, in, wk, outside>>

\* socket_error: the agent is gone, after what it had sent is read.
CtLost ==
    /\ ct = "read" /\ Running
    /\ ~agent /\ sock = connects
    /\ flags' = flags \ {"READY"}
    /\ ct' = "flush"
    /\ UNCHANGED <<sems, lists, sock, in, wk, outside>>

\* Fault: what the server was asked is not flushed.
CtFlushQueries ==
    /\ ct = "flush"
    /\ Ends(InQueries)
    /\ queries' = <<>>
    /\ ct' = "flushed"
    /\ UNCHANGED <<flags, sems, pending, locked, releases, lazy, io, sock, in, wk, outside>>

\* flush_pending_bio, the lists of requests.
CtFlush ==
    /\ ct = "flush"
    /\ Ends(InQueries \union pending)
    /\ queries' = <<>>
    /\ pending' = {}
    /\ ct' = "flushed"
    /\ UNCHANGED <<flags, sems, locked, releases, lazy, io, sock, in, wk, outside>>

\* flush_pending_bio, the releases; then the server's socket is shut down.
CtFlushed ==
    /\ ct = "flushed"
    /\ releases' = <<>>
    /\ Up({"more_work"})
    /\ broken' = broken \union ({sock} \ {0})
    /\ ct' = "out"
    /\ UNCHANGED <<flags, queries, pending, locked, lazy, io, ended, sock, in, wk,
                   wire, asked, needs, connects, agent>>

CtFinished ==
    /\ ct = "read" /\ ~Running
    /\ ct' = "out"
    /\ UNCHANGED <<flags, sems, lists, sock, in, wk, outside>>

Control ==
    CtConnect \/ CtIdentify \/ CtGive \/ CtLost \/ CtFlush \/ CtFlushed \/ CtFinished

-----------------------------------------------------------------------------
(* The block layer. *)

\* ddsnap_create returns once the device is identified.
Created == "READY" \in flags \/ ct \in {"flush", "flushed", "out"}

\* Fault: the state of the device is not checked again under the lock.
MapUnchecked(r) ==
    /\ Running /\ Created
    /\ ended[r] = 0 /\ r \notin InQueries \union pending \union io
    /\ queries' = <<r>> \o queries /\ Up({"more_work"})
    /\ UNCHANGED <<flags, pending, locked, releases, lazy, io, ended, sock, threads, outside>>

\* ddsnap_map, for a request that is not a read of the origin device.
Map(r) ==
    /\ Running /\ Created
    /\ ended[r] = 0 /\ r \notin InQueries \union pending \union io
    /\ IF WorkerReady
       THEN queries' = <<r>> \o queries /\ Up({"more_work"}) /\ UNCHANGED ended
       ELSE Ends({r}) /\ UNCHANGED <<queries, sems>>
    /\ UNCHANGED <<flags, pending, locked, releases, lazy, io, sock, threads, outside>>

\* Fault: the hook is queued for release and stays on the other list.
EndIOCopied(r) ==
    /\ r \in io
    /\ io' = io \ {r}
    /\ Ends({r})
    /\ IF r \notin locked THEN UNCHANGED <<releases, sems>>
       ELSE releases' = <<r>> \o releases /\ Up({"more_work"})
    /\ UNCHANGED <<flags, queries, pending, locked, lazy, sock, threads, outside>>

\* A device is done with a request; for a hooked one, snapshot_read_end_io.
\* When the device is not ready the hook is freed where it is, on the list;
\* here it can still be read there.
EndIO(r) ==
    /\ r \in io
    /\ io' = io \ {r}
    /\ Ends({r})
    /\ IF r \notin locked THEN UNCHANGED <<locked, releases, sems>>
       ELSE /\ Up({"more_work"})
            /\ IF "READY" \notin flags \/ lazy THEN UNCHANGED <<locked, releases>>
               ELSE locked' = locked \ {r} /\ releases' = <<r>> \o releases
    /\ UNCHANGED <<flags, queries, pending, lazy, sock, threads, outside>>

\* Fault: the worker is left asleep.
DestroyQuiet ==
    /\ Running
    /\ queries = <<>> /\ pending = {} /\ io = {}
    /\ Set("FINISH")
    /\ Up({"server_in", "server_out", "recover"})
    /\ broken' = broken \union ({sock} \ {0})
    /\ UNCHANGED <<lists, sock, threads, wire, asked, needs, connects, agent>>

\* ddsnap_destroy, for a device without requests under way, or one that
\* ddsnap_create gives up: it may be interrupted in its wait for IDENTIFY_OK.
Destroy ==
    /\ Running
    /\ queries = <<>> /\ pending = {} /\ io = {}
    /\ Set("FINISH")
    /\ Up({"server_in", "server_out", "recover", "more_work"})
    /\ broken' = broken \union ({sock} \ {0})
    /\ UNCHANGED <<lists, sock, threads, wire, asked, needs, connects, agent>>

-----------------------------------------------------------------------------
(* The server and the agent. *)

Connect ==
    /\ agent /\ needs > 0 /\ connects < MaxConnects
    /\ needs' = needs - 1
    /\ connects' = connects + 1
    /\ UNCHANGED <<flags, sems, lists, sock, threads, wire, asked, broken, agent>>

Answer(s, r) ==
    /\ s \notin broken
    /\ r \in asked[s]
    /\ asked' = [asked EXCEPT ![s] = @ \ {r}]
    /\ wire' = [wire EXCEPT ![s] = @ \union {r}]
    /\ UNCHANGED <<flags, sems, lists, sock, threads, broken, needs, connects, agent>>

\* The server drops the connection. What it had sent may still be read.
Break(s) ==
    /\ s <= connects /\ s < MaxConnects
    /\ s \notin broken
    /\ broken' = broken \union {s}
    /\ UNCHANGED <<flags, sems, lists, sock, threads, wire, asked, needs, connects, agent>>

AgentExits ==
    /\ agent /\ sock > 0
    /\ agent' = FALSE
    /\ UNCHANGED <<flags, sems, lists, sock, threads, wire, asked, broken, needs, connects>>

-----------------------------------------------------------------------------
\* ddsnap_create: the threads start, the worker in its recovery.
Init ==
    /\ flags = {}
    /\ sems = [more_work |-> 0, recover |-> 0, server_in |-> 0, server_out |-> 0]
    /\ queries = <<>> /\ pending = {} /\ locked = {} /\ releases = <<>>
    /\ lazy = FALSE
    /\ io = {}
    /\ ended = [r \in Requests |-> 0]
    /\ sock = 0
    /\ in = [pc |-> "connect", sock |-> 0]
    /\ wk = [pc |-> "recover", hand |-> NONE]
    /\ ct = "read"
    /\ wire = [s \in Sockets |-> {}]
    /\ asked = [s \in Sockets |-> {}]
    /\ broken = {}
    /\ needs = 0 /\ connects = 0
    /\ agent = TRUE

Next ==
    \/ Incoming \/ Worker \/ Control
    \/ \E r \in Requests : Map(r) \/ EndIO(r)
    \/ Destroy
    \/ Connect \/ AgentExits
    \/ \E s \in Sockets : Break(s) \/ \E r \in Requests : Answer(s, r)

Spec == Init /\ [][Next]_vars

\* Threads and devices go on when they can; semaphores wake waiters in order;
\* the server answers and the agent connects.
FairSpec ==
    /\ Spec
    /\ SF_vars(Incoming) /\ SF_vars(Worker) /\ WF_vars(Control)
    /\ WF_vars(Connect)
    /\ \A r \in Requests : WF_vars(EndIO(r)) /\ \A s \in Sockets : WF_vars(Answer(s, r))

-----------------------------------------------------------------------------
\* Every list holds requests, and counters are counters.
ClientTypeOK ==
    /\ flags \subseteq {"REPORT", "RECOVER", "READY", "FINISH"}
    /\ sems \in [{"more_work", "recover", "server_in", "server_out"} -> Nat]
    /\ queries \in Seq(Requests) /\ releases \in Seq(Requests)
    /\ pending \union locked \union io \subseteq Requests
    /\ lazy \in BOOLEAN
    /\ ended \in [Requests -> Nat]
    /\ sock \in 0 .. connects
    /\ connects \in 0 .. MaxConnects

\* A request is in one place at a time and is given back once, although a
\* recovery sends it again and the first answer may still come, and although
\* the flush for a lost agent takes requests from under the other threads.
CompletedOnce ==
    /\ IsInjective(queries)
    /\ InQueries \intersect (pending \union io) = {}
    /\ pending \intersect io = {}
    /\ \A r \in Requests :
        /\ ended[r] <= 1
        /\ ended[r] = 1 => r \notin InQueries \union pending \union io

\* The release of a read goes out once, and not while the read is under way:
\* it lets the server overwrite the chunk.
ReleasedOnce ==
    /\ ToSet(releases) \intersect (io \union locked) = {}
    /\ IsInjective(releases)

\* Once a device is not ready and has been flushed nothing waits for a server:
\* ddsnap_map, the requeue of a recovery and the flush exclude each other.
QueuedWhileReady ==
    "READY" \notin flags /\ ct # "flush" => queries = <<>> /\ pending = {}

\* When the agent is lost, every request known to the device at the flush
\* comes to an end, whatever the recovery of a connection is at.
AgentLossEnds ==
    \A r \in Requests :
        ct = "flush" /\ r \in InQueries \union pending \union io ~> ended[r] = 1

\* As long as no connection breaks, every queued request ends: the threads wake
\* each other, from the first connection on.
ServedWhenConnected ==
    [](agent /\ broken = {}) => \A r \in Requests : r \in InQueries ~> ended[r] = 1

\* A device that is destroyed while its threads wait for work is destroyed:
\* each of the three is woken and leaves.
DestroyEnds ==
    "FINISH" \in flags /\ in.pc \in {"wait", "read"} /\ wk.pc = "sleep" /\ ct = "read"
        ~> in.pc = "out" /\ wk.pc = "out" /\ ct = "out"

\* Every request that is queued is served once there is a server again.
RequestsServed == []agent => \A r \in Requests : r \in InQueries ~> ended[r] = 1
=============================================================================
