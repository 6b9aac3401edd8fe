--------------------------- MODULE SparseAllReduce ---------------------------
(***************************************************************************)
(* SparseAllReduceOpHandle (framework/details/sparse_all_reduce_op_handle *)
(* .cc): the gradient all-reduce of DGC training.  Each process runs the   *)
(* op on one host thread for its local devices (places_); every device is *)
(* one NCCL rank.  Before the rampup step the op falls back to the dense   *)
(* AllReduceOpHandle::RunImpl; from then on it all-gathers every rank's    *)
(* top-k encoded gradient and decodes it with sparseReduce.                *)
(*                                                                         *)
(* The host only enqueues kernels.  Each device has a compute stream (the *)
(* kernels of the ops before this one, here the one that writes the op's  *)
(* input) and a communication stream (NCCL's), each a FIFO.  A collective  *)
(* kernel completes once it heads the stream of every rank.  Data is       *)
(* abstracted to provenance: a buffer holds the step whose gradient it    *)
(* carries.                                                                *)
(***************************************************************************)
EXTENDS Integers, Sequences, FiniteSets

CONSTANTS
  Procs,              \* trainer processes, one host thread each
  Places,             \* Places[p]: the devices (NCCL ranks) of process p
  Steps,              \* training steps, one run of the op each
  RampupBeginStep,    \* __g_dgc_rampup_begin_step__
  IsEncodedFlag,      \* is_encoded_: the op was built for DGC
  SyncNcclAllReduce   \* FLAGS_sync_nccl_allreduce

Ranks == UNION {Places[p] : p \in Procs}
StepIds == 0..(Steps - 1)

\* A kernel in a stream: what it does and for which step.
Kernels == [op : {"produce", "wait", "allreduce", "allgather", "reduce"},
            step : StepIds]
K(op, s) == [op |-> op, step |-> s]

NoOut == [step |-> -1, from |-> [q \in Ranks |-> -1]]

VARIABLES
  host,      \* per process: where its host thread is
  step,      \* per process: the step being run (also the dgc counter)
  todo,      \* per process: devices whose ncclAllGather is not yet called
  compute,   \* per rank: kernels queued on the compute stream
  comm,      \* per rank: kernels queued on the NCCL stream
  input,     \* per rank: step of the gradient in the op's input var
  gathered,  \* per rank: gather_buff, the step of each rank's part
  out,       \* per rank: the op's output, with the provenance of each part
  buf,       \* per rank: the allocation behind gather_buff
  launched   \* per step: ranks whose collective kernel is enqueued

vars == <<host, step, todo, compute, comm, input, gathered, out, buf, launched>>

Init ==
  /\ host = [p \in Procs |-> "compute"]
  /\ step = [p \in Procs |-> 0]
  /\ todo = [p \in Procs |-> {}]
  /\ compute = [r \in Ranks |-> <<>>]
  /\ comm = [r \in Ranks |-> <<>>]
  /\ input = [r \in Ranks |-> -1]
  /\ gathered = [r \in Ranks |-> [q \in Ranks |-> -1]]
  /\ out = [r \in Ranks |-> NoOut]
  /\ buf = [r \in Ranks |-> "none"]
  /\ launched = [s \in StepIds |-> {}]

\* Append kernel k to stream st of every rank in rs.
Enqueue(st, rs, k) == [r \in DOMAIN st |-> IF r \in rs THEN Append(st[r], k) ELSE st[r]]

-----------------------------------------------------------------------------
(* The host thread of process p.                                           *)

\* Mutant: the training loop runs one step too many.
LaunchComputeOffByOne(p) ==
  /\ host[p] = "compute"
  /\ IF step[p] =< Steps
       THEN /\ compute' = Enqueue(compute, Places[p], K("produce", step[p]))
            /\ host' = [host EXCEPT ![p] = "run"]
       ELSE /\ host' = [host EXCEPT ![p] = "done"]
            /\ UNCHANGED compute
  /\ UNCHANGED <<step, todo, comm, input, gathered, out, buf, launched>>

\* The ops before this one in the step: their kernels, ending with the one
\* that writes this op's input, go to each local compute stream; after the
\* last step the thread is done.
LaunchCompute(p) ==
  /\ host[p] = "compute"
  /\ IF step[p] < Steps
       THEN /\ compute' = Enqueue(compute, Places[p], K("produce", step[p]))
            /\ host' = [host EXCEPT ![p] = "run"]
       ELSE /\ host' = [host EXCEPT ![p] = "done"]
            /\ UNCHANGED compute
  /\ UNCHANGED <<step, todo, comm, input, gathered, out, buf, launched>>

\* IsEncoded: false unless built for DGC; false while the counter is below
\* the rampup step (both read from local_exec_scopes_[0], cast to int).
IsEncoded(p) == IsEncodedFlag /\ ~(step[p] < RampupBeginStep)

\* Mutant: no event wait, the NCCL stream does not wait for compute.
WaitInputVarGeneratedNone(p, st) == st

\* WaitInputVarGenerated: for each local device, record an event on the
\* compute stream and make the NCCL stream wait for it (the two streams of
\* a device are distinct: NCCL contexts own their streams).
WaitInputVarGenerated(p, st) == Enqueue(st, Places[p], K("wait", step[p]))

\* AllReduceOpHandle::RunImpl, the dense fallback: wait for the input, then
\* one grouped ncclAllReduce per local device.
DenseAllReduce(p) ==
  /\ comm' = Enqueue(WaitInputVarGenerated(p, comm), Places[p], K("allreduce", step[p]))
  /\ launched' = [launched EXCEPT ![step[p]] = @ \cup Places[p]]
  /\ host' = [host EXCEPT ![p] = "sync"]
  /\ UNCHANGED <<todo, buf>>

\* RunImplEncoded up to SparseAllReduceFunc: a gather_buff of nranks
\* encodings is allocated per device (kept in allocations), the input wait
\* is enqueued, and the all-gather calls start.
RunImplEncoded(p) ==
  /\ buf' = [r \in Ranks |-> IF r \in Places[p] THEN "live" ELSE buf[r]]
  /\ comm' = WaitInputVarGenerated(p, comm)
  /\ todo' = [todo EXCEPT ![p] = Places[p]]
  /\ host' = [host EXCEPT ![p] = "gather"]
  /\ UNCHANGED launched

\* RunImpl: dense all-reduce unless IsEncoded.
RunImpl(p) ==
  /\ host[p] = "run"
  /\ IF IsEncoded(p) THEN RunImplEncoded(p) ELSE DenseAllReduce(p)
  /\ UNCHANGED <<step, compute, input, gathered, out>>

\* Mutant: every ncclAllGather called on its own, never in a group.
GroupedNever(p) == FALSE

\* all_gather_calls.size() == 1UL: one call is made directly; more are
\* made inside an NCCLGroupGuard.
Grouped(p) == Cardinality(Places[p]) > 1

\* Inside NCCLGroupGuard: every local ncclAllGather is enqueued, and the
\* group launches them together.
GroupedGather(p) ==
  /\ host[p] = "gather"
  /\ Grouped(p)
  /\ todo[p] # {}
  /\ comm' = Enqueue(comm, todo[p], K("allgather", step[p]))
  /\ launched' = [launched EXCEPT ![step[p]] = @ \cup todo[p]]
  /\ todo' = [todo EXCEPT ![p] = {}]
  /\ UNCHANGED <<host, step, compute, input, gathered, out, buf>>

\* A call outside a group.  NCCL may block it until every rank of the
\* collective has been launched.
DirectGather(p, d) ==
  /\ host[p] = "gather"
  /\ ~Grouped(p)
  /\ d \in todo[p]
  /\ comm' = Enqueue(comm, {d}, K("allgather", step[p]))
  /\ launched' = [launched EXCEPT ![step[p]] = @ \cup {d}]
  /\ todo' = [todo EXCEPT ![p] = @ \ {d}]
  /\ \E blocks \in BOOLEAN :
       host' = [host EXCEPT ![p] = IF blocks THEN "blocked" ELSE "gather"]
  /\ UNCHANGED <<step, compute, input, gathered, out, buf>>

\* A blocked call returns once the collective is launched on every rank.
GatherUnblock(p) ==
  /\ host[p] = "blocked"
  /\ launched[step[p]] = Ranks
  /\ host' = [host EXCEPT ![p] = "gather"]
  /\ UNCHANGED <<step, todo, compute, comm, input, gathered, out, buf, launched>>

\* The sparse_reduce_calls: one sparseReduce per device on its NCCL stream.
SparseReduceCalls(p) ==
  /\ host[p] = "gather"
  /\ todo[p] = {}
  /\ comm' = Enqueue(comm, Places[p], K("reduce", step[p]))
  /\ host' = [host EXCEPT ![p] = "sync"]
  /\ UNCHANGED <<step, todo, compute, input, gathered, out, buf, launched>>

\* Mutant: SyncNCCLAllReduce returns without synchronising the streams.
SyncNCCLAllReduceNoWait(p) ==
  /\ host[p] = "sync"
  /\ buf' = [r \in Ranks |-> IF r \in Places[p] /\ buf[r] = "live" THEN "freed" ELSE buf[r]]
  /\ step' = [step EXCEPT ![p] = @ + 1]
  /\ host' = [host EXCEPT ![p] = "compute"]
  /\ UNCHANGED <<todo, compute, comm, input, gathered, out, launched>>

\* SyncNCCLAllReduce: with the flag on, cudaStreamSynchronize on every
\* local NCCL stream.  The op then returns: RunImplEncoded's allocations
\* are released, and the thread goes on to the next step.
SyncNCCLAllReduce(p) ==
  /\ host[p] = "sync"
  /\ SyncNcclAllReduce => \A r \in Places[p] : comm[r] = <<>>
  /\ buf' = [r \in Ranks |-> IF r \in Places[p] /\ buf[r] = "live" THEN "freed" ELSE buf[r]]
  /\ step' = [step EXCEPT ![p] = @ + 1]
  /\ host' = [host EXCEPT ![p] = "compute"]
  /\ UNCHANGED <<todo, compute, comm, input, gathered, out, launched>>

-----------------------------------------------------------------------------
(* The devices.                                                            *)

\* The kernel that writes the op's input for step s.
ExecProduce(r) ==
  /\ compute[r] # <<>>
  /\ input' = [input EXCEPT ![r] = Head(compute[r]).step]
  /\ compute' = [compute EXCEPT ![r] = Tail(@)]
  /\ UNCHANGED <<host, step, todo, comm, gathered, out, buf, launched>>

\* cudaStreamWaitEvent: the NCCL stream passes once the compute stream has
\* run the kernels recorded before the event.
ExecWait(r) ==
  /\ comm[r] # <<>>
  /\ Head(comm[r]).op = "wait"
  /\ input[r] >= Head(comm[r]).step
  /\ comm' = [comm EXCEPT ![r] = Tail(@)]
  /\ UNCHANGED <<host, step, todo, compute, input, gathered, out, buf, launched>>

\* A collective completes when it heads the NCCL stream of every rank: an
\* all-gather fills every gather_buff with every rank's input, an
\* all-reduce writes the sum of every rank's input to every output.
ExecCollective(op, s) ==
  /\ \A r \in Ranks : comm[r] # <<>> /\ Head(comm[r]) = K(op, s)
  /\ comm' = [r \in Ranks |-> Tail(comm[r])]
  /\ IF op = "allgather"
       THEN /\ gathered' = [r \in Ranks |-> input]
            /\ UNCHANGED out
       ELSE /\ out' = [r \in Ranks |-> [step |-> s, from |-> input]]
            /\ UNCHANGED gathered
  /\ UNCHANGED <<host, step, todo, compute, input, buf, launched>>

\* dgc::sparseReduce: decode the nranks encodings in gather_buff into the
\* output.
ExecReduce(r) ==
  /\ comm[r] # <<>>
  /\ Head(comm[r]).op = "reduce"
  /\ out' = [out EXCEPT ![r] = [step |-> Head(comm[r]).step, from |-> gathered[r]]]
  /\ comm' = [comm EXCEPT ![r] = Tail(@)]
  /\ UNCHANGED <<host, step, todo, compute, input, gathered, buf, launched>>

-----------------------------------------------------------------------------

HostThread(p) ==
  \/ LaunchCompute(p)
  \/ RunImpl(p)
  \/ GroupedGather(p)
  \/ \E d \in Places[p] : DirectGather(p, d)
  \/ GatherUnblock(p)
  \/ SparseReduceCalls(p)
  \/ SyncNCCLAllReduce(p)

Device(r) == ExecProduce(r) \/ ExecWait(r) \/ ExecReduce(r)

Collective == \E op \in {"allgather", "allreduce"}, s \in StepIds : ExecCollective(op, s)

Terminated ==
  /\ \A p \in Procs : host[p] = "done"
  /\ \A r \in Ranks : comm[r] = <<>> /\ compute[r] = <<>>
  /\ UNCHANGED vars

Next ==
  \/ \E p \in Procs : HostThread(p)
  \/ \E r \in Ranks : Device(r)
  \/ Collective
  \/ Terminated

\* Host threads and GPU streams make progress whenever they can.
Fairness ==
  /\ \A p \in Procs : WF_vars(HostThread(p))
  /\ \A r \in Ranks : WF_vars(Device(r))
  /\ WF_vars(Collective)

Spec == Init /\ [][Next]_vars /\ Fairness

-----------------------------------------------------------------------------

TypeOK ==
  /\ host \in [Procs -> {"compute", "run", "gather", "blocked", "sync", "done"}]
  /\ step \in [Procs -> 0..Steps]
  /\ \A p \in Procs : todo[p] \subseteq Places[p]
  /\ compute \in [Ranks -> Seq(Kernels)]
  /\ comm \in [Ranks -> Seq(Kernels)]
  /\ input \in [Ranks -> -1..(Steps - 1)]
  /\ gathered \in [Ranks -> [Ranks -> -1..(Steps - 1)]]
  /\ out \in [Ranks -> {NoOut} \cup [step : StepIds, from : [Ranks -> -1..(Steps - 1)]]]
  /\ buf \in [Ranks -> {"none", "live", "freed"}]
  /\ launched \in [StepIds -> SUBSET Ranks]

\* The result of an all-reduce on any device is made of every rank's
\* gradient of that same step: no rank's part is the previous step's (the
\* NCCL stream ran ahead of the compute stream, WaitInputVarGenerated) or
\* the next step's (the input was overwritten before the collective read
\* it).
ReducedFromOneStep ==
  \A r \in Ranks :
    out[r] # NoOut => \A q \in Ranks : out[r].from[q] = out[r].step

\* No all-gather or sparseReduce kernel still queued on a device uses a
\* gather_buff whose allocation RunImplEncoded has already released.
KernelsUseLiveBuffers ==
  \A r \in Ranks : \A i \in DOMAIN comm[r] :
    comm[r][i].op \in {"allgather", "reduce"} => buf[r] = "live"

\* Every host thread finishes every step and every device ends with the
\* last step's result: no rank waits forever on a collective that another
\* rank (or its own host thread) never launches.
AllReduceCompletes ==
  <>(/\ \A p \in Procs : host[p] = "done"
     /\ \A r \in Ranks : out[r].step = Steps - 1)
=============================================================================
