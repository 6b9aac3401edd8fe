# TLA+ models of Paddle's distributed communicator

This directory holds TLA+ models of the gradient-synchronisation layer in
`src/Paddle/paddle/fluid/operators/distributed/communicator.cc`. It also
holds the TLC configurations that check the models. Every definition is
translated from that file. The exception is the code this slice calls but
does not contain (BlockingQueue, ToAbsoluteSection/GetSectionIndex, the RPC
client, the parameter server, the training program). That code is modelled
from `spec.md`, and PROJECT.json marks it `spec_modelled`.

`SparseAllReduce` models a second file,
`src/Paddle/paddle/fluid/framework/details/sparse_all_reduce_op_handle.cc`.
That is the all-reduce op handle of DGC training (Deep Gradient
Compression: each rank sends only its top-k gradient entries). The CUDA
streams, NCCL collectives and `dgc::sparseReduce` it calls are modelled
from their documented behaviour and marked `spec_modelled`.

## 1. Inventory

### Components

| Component | Source | State it keeps | Operations |
|---|---|---|---|
| Lifecycle coordinator | `communicator.cc` 167-179, 329-364, 376-387, 471-497 | `running_`, `send_thread_`, `recv_thread_`, the `communicator_` singleton | `Start`, `Stop`, destructors |
| Async communicator | 69-374 | per-variable `BlockingQueue` (`send_varname_to_queue_`), `send_scope_`, `grad_num_` (atomic), thread pools | `Send(name, scope)`, `SendThread`, `RecvThread`, `Recv`, `RecvAll` |
| Geo communicator | 376-967 | `training_scope_`, `old_scope_`, `delta_scope_`, `pserver_scope_`, `need_push_queue_`, `ids_send_vec_`, `var_list_`, `absolute_section_` | `Send("param_init")`, `Send(sparse ids)`, `SendThread`, `SparseIdsMerge`, `Send/RecvUpdateDense/SparseVars`, `RpcSend`, `RpcRecv` |
| Destination registry | `InitImpl` 69-165, 389-469 | `send_varname_to_ctx_`, `recv_varname_to_ctx_` (RpcContext) | built once at init |
| Bounded queue | header outside the slice | a FIFO with a capacity | blocking `Push`, `Pop`, `Size` |
| Merge engine | `MergeVars`, outside the slice | none (not modelled) | dense sum/average, sparse union-by-row |
| Row-section helpers | outside the slice | none | `ToAbsoluteSection`, `GetSectionIndex` |
| RPC transport and parameter server | outside the slice | server parameter values, requests in flight | `AsyncSendVar`, `AsyncGetVar`, `ParameterSend`, `ParameterRecv` |
| `OpCompatibleMap` | `framework/op_compatible_info.h` | a version table | lookup (declarations only) |
| `SparseAllReduceOpHandle` | `framework/details/sparse_all_reduce_op_handle.cc` | `is_encoded_`, `nranks_`, per-call gather buffers; per device a compute and an NCCL stream | `RunImpl`, `IsEncoded`, `RunImplEncoded`, `WaitInputVarGenerated`, `SparseAllReduceFunc` |

### How the components interact

- **Queues and a shared counter.** Training threads call `Send`. In the
  async strategy, `Send` pushes a copy of the gradient onto that variable's
  bounded queue. In the Geo strategy, `Send` pushes the step's row ids onto
  `need_push_queue_`.
- **Draining.** A background `SendThread` drains the queues and dispatches
  one thread-pool task per variable (async) or per dense variable and per
  sparse split (Geo). It then waits for every task: this is a barrier.
- **Async receive.** The async strategy counts merged sends of the first
  variable in the atomic `grad_num_`. A receive round then runs in one of
  two places. In independent mode, `RecvThread` starts it when
  `grad_num_ > min_send_grad_num_before_recv`. In shared mode, `Recv()` in
  the send loop starts it. The round pulls every receive variable and then
  stores 0 into the counter.
- **Geo tasks.** Each Geo task read-modify-writes the trainer's
  `training_scope_`. The training thread's optimizer writes the same values
  at the same time.
- **Geo RPC.** Dense Geo traffic uses `ParameterSend`/`ParameterRecv`, and
  both wait for completion. Sparse Geo traffic uses the RPC client's
  `AsyncSendVar`/`AsyncGetVar` (`RpcSend`/`RpcRecv`), and nothing waits for
  it. The send request reads the delta variable only when it is
  serialised. The reply is written into `pserver_scope_` whenever it
  arrives.
- **DGC all-reduce.** This is independent of the communicator. Each
  trainer process runs the op on one host thread for all its GPUs. The
  host only enqueues kernels. The NCCL stream of each device must wait for
  the compute stream that wrote the op's input. All ranks must issue the
  same collectives in the same order.

### What is hard

- **Threads.** The training threads, the send thread, the receive thread
  and the pool tasks run concurrently. Their only synchronisation is the
  blocking queues, the task barrier and an atomic counter that is loaded
  and then stored.
- **Unawaited RPCs in Geo's sparse path.** A later flush can overwrite the
  delta variable before the earlier request is serialised. A reconcile can
  read `pserver_scope_` before the reply lands.
- **Thresholds and budgets.** `geo_need_push_nums_`,
  `communicator_max_merge_var_num`, `communicator_send_wait_times` and
  `min_send_grad_num_before_recv` decide when anything is sent. A cycle may
  be abandoned, and `Stop` may come in the middle of one.
- **Row arithmetic.** Absolute row ids become split-local offsets on send
  and absolute ids again on receive. A boundary id must go to the split it
  opens.

### Properties that make each component correct

- **Geo communicator.**
  - No local update is lost: the server value plus every trainer's
    unpushed drift `training - old` accounts for every update.
  - Every computed delta reaches the server exactly once.
  - After a pull, `old` is the value the server held.
  - Every row touched locally stays recorded until it is flushed, and is
    eventually sent.
  - A trainer blocked on a full `need_push_queue_` is released.
  - `Stop` returns.
- **Async communicator.**
  - At most one merge task per variable at a time.
  - A merge never runs on zero gradients.
  - Each queued gradient is merged exactly once.
  - A producer blocked on a full queue is eventually released.
  - The receive cadence follows `grad_num_`.
  - `Stop` ends every thread.
- **Lifecycle.** A second `Stop` is a no-op and the destructor returns,
  with or without a `Stop` before it (spec lines 36 and 82).
- **DGC all-reduce.**
  - Every result combines every rank's gradient of the same step.
  - No kernel uses a released buffer.
  - No rank hangs on a collective.

## 2. Plan

Done:

1. **`RowSections`**. The pure row-partition helpers.
2. **`GeoCommunicator`**. The whole Geo strategy: the training thread
   (optimizer step and `Send`), `Start`, `SendThread`, the flush tasks,
   the unawaited sparse RPCs and `Stop`. `MC_Geo` instantiates it.
3. **`AsyncCommunicator`**. The per-variable bounded queues with blocking
   producers, `SendThread` (the drain loop with its wait budget, the
   `grad_num_` counting and the barrier), `Recv` in shared mode,
   `RecvThread`/`RecvAll` in independent mode, and `Start`/`Stop`.
4. **`AsyncSendSpec`**. The abstract send channel of the async strategy.
   `AsyncCommunicator` is checked to implement it.
5. **`SparseAllReduce`**. The DGC all-reduce op handle, with host threads,
   GPU streams and NCCL collectives.

Still open:

- An abstract specification of the Geo strategy (each local update
  reaches the server exactly once). `GeoCommunicator` would fail to refine
  it exactly where the Geo violation runs fail, so it would add no new
  question while the run budget is spent.
- `Stop` racing a training thread blocked in `Push`, and a second `Start`
  (see section 6).

## 3. Modules

### `RowSections`

- `ToAbsoluteSection` and `GetSectionIndex` come from the spec (4.3),
  because their C++ is outside the slice.
- `LocalRow` translates `SendUpdateSparseVars`' `send_rows` (lines
  768-777).
- `AbsoluteRow` translates `RecvUpdateSparseVars`' `new_rows` (lines
  865-871).
- The module is used by `GeoCommunicator` and has no run of its own. A
  check of `GetSectionIndex` against the spec's split could only compare
  the spec with itself, since the C++ of both helpers is outside the slice.

### `GeoCommunicator`

**State.** Each trainer `t` has its own communicator:

- `training[t]`, `old[t]`: the trainer's `training_scope_` and
  `old_scope_`, one integer per cell. A cell is a dense variable, or one
  row of a sparse variable.
- `delta[t]`, `pserver[t]`: the split variables of `delta_scope_` and
  `pserver_scope_`, as maps from split-local row to value.
- `need_push_queue`, `ids_send_vec`, `wait_times`, `running`: the members
  of the same names.
- `send_pc`: where `SendThread` is.
- `task`: the flush tasks.
- `send_reqs`, `get_reqs`: RPC requests not yet served.
- `train_pc`, `step`, `step_ids`: the training thread.
- `param`: the server's value of every cell.
- `dirty`, `computed`, `updates`, `expect`: history variables used only
  by properties.

**Actions and the code they model.**

| Action | Code |
|---|---|
| `Init` | state after `Send("param_init")` (499-518); `SparseParamInit` is `GeoSgdSparseParamInit` (899-919) |
| `Start` | `Start` (471-482): sets `running_` and starts `SendThread` |
| `TrainStep` | the optimizer step of the training program (spec) |
| `Send` | `Send(sparse_var_names, ...)` (520-552), including the int32 read of the ids tensor (`Int32View`) and `GetSectionIndex` |
| `Stop`, `StopJoin` | `Stop` (484-497): clear `running_`, join `send_thread_` and reset it; called once by the training loop and possibly again |
| `Destroy`, `DestroyJoin` | `~GeoSgdCommunicator` (376-387): clear `running_`, join `send_thread_` if set |
| `LoopTop`, `CollectPop`, `CollectWait`, `CollectEnd`, `FlushDone` | `SendThread` (554-624), one action per branch of the collect loop; `FlushDue` is line 580 |
| `SendUpdateDenseVars`, `RecvUpdateDenseVars`, `RecvWrite` | 649-711 and 786-835 |
| `SendUpdateSparseVars` (with `SparseIdsMerge`), `RecvUpdateSparseVars`, `RecvWrite` | 626-647, 713-784 and 837-897 |
| `Deliver`, `ServeGet` | the RPC transport and the parameter server, outside the slice, modelled from the spec: serving the `AsyncSendVar` that `RpcSend` (929-943) issues by serialising the delta variable as it is then and adding it to the server; answering the `AsyncGetVar` of `RpcRecv` (945-958) into `pserver_scope_` |

**Abstractions.**

- Values are integers. A local step adds 1.
- The float multiply by `1/trainer_nums_` is integer division. Every
  property that follows the deltas uses the same `d` for `old` and for
  the server, as the code does.
- The reconcile of a task has two steps, because the trainer's optimizer
  writes the same tensor without a lock. `Recv…Vars` is the load, up to
  the computed values. `RecvWrite` is the store.
- Dense sends and receives are atomic, because `ParameterSend(…, sync=true)`
  and `ParameterRecv` wait.
- The thread pool is as large as the task set
  (`communicator_thread_pool_size` is 5 and the configurations have at
  most 3 tasks).

### `AsyncCommunicator`

The module covers `communicator.cc` lines 69-374. Gradients are counted,
not valued. `MergeVars` (in `communicator.h`, outside the slice) is not modelled.

| Code | Model |
|---|---|
| `send_varname_to_queue_[v]` | `queue[v]`, a count capped at `QueueSize` |
| `running_`, `grad_num_` | `running`, `grad_num` |
| `send_thread_`, `recv_thread_` | `send_pc`, `recv_pc` |
| a round's `send_task` for `v` | `task[v]` (`merged_var_num`, `wait_times`) |
| training threads calling `Send` | `prod_pc`, `sends`, `step_vars` |

The actions are:

- `Send(p, v)`. A training step runs one send op per gradient variable.
  A SelectedRows gradient with `merge_sparse_grad` off is sent at once by
  the caller. Any other gradient is copied, and the caller then blocks in
  `Push` until the queue has room.
- `LoopTop`. The loop checks `running_`, then starts one task per
  non-empty queue. The sizes are read in one step. Between two reads only
  producers change a queue, and they only make it longer.
- `TaskPop`, `TaskWait` and `TaskSend`. These are the task's loop: pop
  (calling `fetch_add` for the first variable), sleep on a dry queue while
  the budget lasts, then merge and send synchronously.
- `RoundEnd`. The barrier.
- `Recv`, `SendRecvAll` and `SendRecvReset`. Shared mode: load, `RecvAll`,
  then `store(0)`.
- `RecvCheck`, `RecvThreadRecvAll`, `RecvThreadReset` and `RecvExit`.
  The receive thread in independent mode. The load, the pull and the store
  are separate steps, because send tasks run between them.
- `Start`, `Stop` and `StopJoin`. `Stop` is called by the trainer after
  its training threads have made their `MaxSends` send ops, and may be
  called a second time once it returned (`MaxStopCalls = 2`).
- `Destroy` and `DestroyJoin`. `~AsyncCommunicator` (167-179), with or
  without a `Stop` before it.

The lifecycle keeps the `std::thread` handles (`threads`, and `thread` in
the Geo model) as `"null"`, `"joinable"` or `"joined"`. `Start` makes them
joinable, and `Stop` joins and resets them to null. The destructor joins
without resetting. A join returns once its thread has exited
(`JoinReturns`). A join of a thread that was already joined throws
`std::system_error`, and inside the noexcept destructor that is
`std::terminate`. Both are the state `"aborted"`.

History variables: `pushed`, `sent` and `batches` per variable; `since`
counts first-variable pops since the last pull; `pulls` counts pulls.

### `AsyncSendSpec` and the refinement

`AsyncSendSpec` says what the async strategy promises about gradients. A
gradient is either transmitted at once (`TransmitNow`) or accepted into
bounded buffering (`Accept`). Buffered gradients leave in batches
(`TransmitBatch`) of at least 1 and at most `MaxMergeVarNum`. At most
`QueueSize + MaxMergeVarNum` gradients of a variable are buffered.

`AsyncCommunicator` instantiates it as `SendChannel`, with this mapping:

- `pending[v]` is the queue length plus the gradients a running task has
  popped and not yet sent (`InBatch`).
- `transmitted` is `sent`.
- `batches` is `batches`.

`ImplementsSendChannel == SendChannel!Spec` is checked as a temporal
property. A pop is a stutter of the abstract channel. `TaskSend` is one
`TransmitBatch`. A direct sparse send is `TransmitNow`. A push is
`Accept`. The property fails if a task sends an empty batch, if a batch is
larger than the merge limit, if a gradient is sent twice, or if more than
the bound are buffered.

### `SparseAllReduce`

**State.**

- `host[p]`, `step[p]`: where the host thread of process `p` is, and which
  step it runs. The step also stands for the DGC counter that `IsEncoded`
  reads.
- `todo[p]`: the local devices whose `ncclAllGather` is not yet called.
- `compute[r]`, `comm[r]`: the compute stream and the NCCL stream of
  device (rank) `r`, as FIFOs of kernels.
- `input[r]`, `gathered[r]`, `out[r]`: the op's input variable, the
  gather buffer and the output. Each holds the step whose gradient it
  carries, not values.
- `buf[r]`: the allocation behind `gather_buff`, which lives in
  `RunImplEncoded`'s `allocations`.
- `launched[s]`: the ranks whose collective for step `s` is enqueued.

**Actions and the code they model.**

| Action | Code |
|---|---|
| `RunImpl` | `RunImpl` (227-234) with `IsEncoded` (199-225). It calls either `RunImplEncoded` (67-163, with `WaitInputVarGenerated` 46-65) or the dense fallback `DenseAllReduce` (`AllReduceOpHandle::RunImpl`, outside the file) |
| `GroupedGather` | the `NCCLGroupGuard` branch of `SparseAllReduceFunc` (172-177) |
| `DirectGather`, `GatherUnblock` | the single direct call (169-171). NCCL may block an ungrouped call until every rank joins |
| `SparseReduceCalls` | the `sparse_reduce_calls` loop (179-181) |
| `SyncNCCLAllReduce` | `SyncNCCLAllReduce` (184). With the flag on it waits for the local NCCL streams. It then returns from `RunImplEncoded`, which releases `allocations` |
| `LaunchCompute`, `ExecProduce` | the executor's earlier ops of the step: a kernel on the compute stream writes the op's input |
| `ExecWait`, `ExecCollective`, `ExecReduce` | `cudaStreamWaitEvent`, the NCCL collective kernels (they complete once they head every rank's stream), and `dgc::sparseReduce` |

**Abstractions.**

- `GetKValue` and the size checks are not modelled, and neither is the
  content of the top-k encoding. `ReducedFromOneStep` is about where the
  data comes from, which is what stream ordering can get wrong.
- The compute and NCCL streams of a device are distinct, as they are in
  Paddle, where NCCL contexts own their streams. So the equal-streams
  branch of `WaitInputVarGenerated` is not taken.

## 4. Runs

| Run | Config | Expect | What it shows |
|---|---|---|---|
| `geo_core` | `MC_Geo.cfg` | pass | See below. |
| `geo_lost_update` | `MC_Geo_lost_update.cfg` | violation | `LocalUpdatesConserved` fails. A `TrainStep` between the load and the store of the dense reconcile is overwritten. |
| `geo_delta_twice` | `MC_Geo_delta_twice.cfg` | violation | `DeltaDeliveredOnce` fails. The second flush rewrites the split's delta variable (2 → 0) before the first `AsyncSendVar` is serialised, so the server ends at 0 although the deltas sum to 2. |
| `geo_stale_pull` | `MC_Geo_stale_pull.cfg` | violation | `SparseOldIsPulledValue` fails. The reconcile reads `pserver_scope_` while its `AsyncGetVar` is unanswered: the variable is empty on the first flush, so nothing is reconciled. |
| `geo_int32_ids` | `MC_Geo_int32_ids.cfg` | violation | `DirtyRowsTracked` fails. A step looking up ids `<<0, 1>>` records `{0}` (id 0 and the high word 0), so row 1 is lost. |
| `async_shared` | `MC_Async_shared.cfg` | pass | Shared mode: no first-variable pop is erased from `grad_num_` (`SendsSinceLastPullCounted`). A pull follows sends past the threshold (`PullFollowsSends`) and follows any sends (`ParamsPulledAfterSends`). Every queued gradient is sent unless `Stop` comes first (`SentOrStopped`). A producer blocked in `Push` is released while the communicator runs (`ProducerReleased`). The communicator implements `AsyncSendSpec` (`ImplementsSendChannel`). About 39k states. |
| `async_independent` | `MC_Async_independent.cfg` | pass | Independent mode, with the sparse variable sent directly: `RecvThread` pulls only past the threshold (`RecvOnlyAfterThreshold`), and `SentOrStopped` holds. `Stop`'s joins return (`StopReturns`), and the destructor returns after one `Stop`, two or none (`DestructorReturns`). The communicator implements `AsyncSendSpec` with batches of up to 3 (`ImplementsSendChannel`). About 10k states. |
| `async_threshold` | `MC_Async_threshold.cfg` | violation | `RecvOnlyAfterThreshold` fails. Shared-mode `Recv` pulls after a single first-variable pop, although `MinSendGradNum = 1`. |
| `async_starved` | `MC_Async_starved.cfg` | violation | `PullFollowsSends` fails. A pop lands between `RecvAll` and `store(0)`, so `grad_num` ends at 1 while 2 pops happened since the pull. The producers are done and nothing more is ever pulled. |
| `sparse_allreduce` | `MC_SparseAllReduce.cfg` | pass | Process `p1` drives devices `g0` and `g1` (a grouped all-gather). Process `p2` drives `g2` (a direct call). Over 3 steps with rampup at step 1 there is one dense step and two DGC steps. Every result combines every rank's input of the same step (`ReducedFromOneStep`). No queued kernel uses a released `gather_buff` (`KernelsUseLiveBuffers`). Every host thread finishes and every device gets the last step's result (`AllReduceCompletes`). About 1.4k states. |
| `async_first_var` | `MC_Async_first_var.cfg` | violation | `ParamsPulledAfterSends` fails. The first key is the sparse variable, which `Send` sends directly, so `grad_num_` stays 0 and no pull ever happens. |

**`geo_core`** uses one trainer, one dense and one sparse variable, two
one-row splits (every id is a boundary), `PushNums=2`, `WaitTimes=1`,
`MaxSteps=3` and one id per step. This is the only lookup size for which
the int32 read is right; see `geo_int32_ids`. About 185k states. It shows
two things for every interleaving of training, `Send`, the collect loop
(pop, sleep, abandon, flush), the tasks and the transport:

- A sparse row updated since its split last sent stays in a pending ids
  map (`DirtyRowsTracked`).
- Once `Stop` has cleared `running_`, its join on the send thread returns
  (`StopReturns`). The send thread leaves only at the `running_` check of
  the loop head, so an abandoned collect cycle must go back there.
- The destructor returns (`DestructorReturns`), whether it comes after one
  `Stop`, after two, or with no `Stop` at all. It clears `running_` itself,
  and it never joins a thread that `Stop` already joined. The mutant that
  drops `Stop`'s `reset(nullptr)` aborts on the second `Stop` or in the
  destructor.
- A training thread blocked in `Push` on a full `need_push_queue_` is
  released (`TrainerReleased`). With `PushNums=2` and 3 steps, the third
  push finds two maps waiting whenever the send thread has not yet popped.
  The send thread must come back to pop after every flush and every
  abandoned cycle; the mutant whose abandoned cycle leaves the thread
  blocks the trainer for good.

**Why the bounds are enough.**

- `PushNums=2` with 3 steps makes full flushes, abandoned cycles and
  leftovers all reachable.
- `WaitTimes=1` gives both branches of the wait.
- Two one-row splits make every id a boundary.
- The violation runs use the smallest configuration that exhibits each
  defect. Each defect is per trainer, so one trainer suffices.

**`MC_Async_*`** use two training threads, two variables (`a` first,
`b` SelectedRows), one-slot queues (so producers block), merge batch 2,
wait budget 1, threshold 1, and two steps per thread (4 send ops). That
makes four first-variable gradients, so more than the threshold can be
sent after a pull. `async_independent` uses merge batch 3: with 4
gradients of a variable a task can then be left short of a full batch and
spend its wait budget, which `StopReturns` needs to be meaningful.

**Fairness.** Weak fairness is assumed for each trainer's training thread,
send thread, pool tasks and transport. These are OS threads that run
whenever they are enabled (spec 5). The training thread is fair because
the training loop runs to completion and then calls `Stop` once. A second
`Stop` and the destructor (`Teardown`) are not fair, since the trainer
decides whether they happen. The transport
is fair because the spec assumes requests complete. In the async model,
the training threads, each task, the send thread, the receive thread and
the joins in `Stop` and the destructor are weakly fair. `Stop` itself,
its second call and the destructor are not: the trainer may
keep the communicator running as long as it likes. That is why
`SentOrStopped` and the pull properties excuse a stopped communicator. In
`SparseAllReduce`, each host thread, each device's streams and the
collectives are weakly fair, because GPUs run queued kernels whose
dependencies are met. An ungrouped call that NCCL blocks is a separate
state, and only the collective's launch on every rank releases it.

**`MC_SparseAllReduce`** has two processes with two devices and one
device, so both branches of `SparseAllReduceFunc` run. Three steps with
rampup at 1 give a dense step followed by two DGC steps. A stale input
could therefore come from the step before, and a released buffer could
be reused by the next step.

## 5. Findings

See `findings` in PROJECT.json. In short:

- The dense reconcile loses concurrent optimizer updates.
- Unawaited sparse sends can deliver one delta twice and lose another.
- Unawaited sparse pulls reconcile against stale or empty replies.
- `Send` reads the int64 ids tensor as int32 words, which drops every
  other id.
- Shared-mode `Recv` ignores the receive threshold.
- `RecvThread`'s `store(0)` erases counts made during `RecvAll`. The
  receiver can then wait forever.
- The receive cadence counts only `begin()` of an unordered map. If that
  variable is sent directly, no pull ever happens.

## 6. Not modelled

- **Parsing.** `InitImpl`'s parsing of `ProgramDesc` attributes and of the
  `vars_info` strings is input parsing. The models take the resulting
  contexts as constants.
- **Logging.** `VLOG`, the timing with `GetCurrentUS`, and the destructors'
  messages are left out.
- **Crashes.** Crash and restart are not modelled, because nothing is
  persisted by this layer (spec 6). Transport failures are fatal in the
  code (spec 7), so no retry exists to model.
- **`OpCompatibleMap`.** It is a header of declarations for a lookup
  table, with no behaviour here.
- **`SparseAllReduceOpHandle` details.** `GetKValue`, the size checks of
  `RunImplEncoded`, and the top-k encoding itself are data; the model
  keeps only where each buffer's data comes from. The int arithmetic of
  `buf_size` is not modelled. With `FLAGS_sync_nccl_allreduce` off,
  `KernelsUseLiveBuffers` would fail: the gather buffers are released
  while kernels are queued on them. The run keeps the flag's default
  (on). Whether a freed buffer is reused in time depends on the
  allocator, which is outside this code.
- **Geo ids maps left at `Stop`.** `SendThread` leaves at the `running_`
  check without a final flush, so fewer than `PushNums` maps still pending
  at `Stop` never reach the server. The spec promises no final flush, so
  no property states it. While running, a trainer blocked on a full
  `need_push_queue_` is released (`TrainerReleased` in `geo_core`).
- **Merge engine and row-section helpers on their own.** `MergeVars` and
  the C++ of `ToAbsoluteSection`/`GetSectionIndex` are outside the slice.
  A model checked against the spec's definitions would check the spec
  against itself, so `MergeVars` is not modelled and the section helpers
  are used only inside the Geo model.
- **Geo with two trainers.** The `1/trainer_nums_` scaling is integer
  division in the model. With two trainers every +1 delta would become 0,
  so the cross-trainer runs would show nothing. One trainer is checked;
  each Geo defect found is per trainer.
- **`Stop` racing a blocked producer.** The trainer calls `Stop` after its
  training threads have finished their send ops, as the training loop
  does. A `Stop` while a thread is blocked in `Push` would leave that
  thread blocked forever; no run asks this yet.
- **A second `Start`, and an uninitialised communicator.** A second
  `Start` while running resets a joinable `std::thread`, which terminates
  the process. Spec line 36 allows `Start` only from the Initialized state,
  so the model's trainer calls it once. `Start` and `Stop` on a
  communicator whose `communicator_` is null only log, and are not
  modelled.
