--------------------------- MODULE GeoCommunicator ---------------------------
(***************************************************************************)
(* GeoSgdCommunicator (operators/distributed/communicator.cc): each        *)
(* trainer trains locally, records the sparse row ids it touches, and a    *)
(* background send thread flushes every PushNums batches: per dense var    *)
(* and per split of each sparse var a thread-pool task pushes             *)
(* delta = (training - old) / trainer_nums, adds it to old, pulls the      *)
(* server's value and reconciles training += server - old; old = server.  *)
(*                                                                         *)
(* Values are integers; the float scaling by 1/trainer_nums is modelled    *)
(* as \div.  A trainer's own training thread runs concurrently with the   *)
(* tasks that read-modify-write its training values, so a task's          *)
(* reconcile is a load (RecvRead) followed by a store (RecvWrite).        *)
(* Sparse sends and pulls go through RPCClient::AsyncSendVar/AsyncGetVar,  *)
(* which the code never waits on: the request reads the delta variable    *)
(* when it is serialized (Deliver) and the reply lands in pserver_scope_  *)
(* when the server answers (ServeGet).  Dense vars go through              *)
(* ParameterSend/ParameterRecv, which wait, so they are atomic steps.     *)
(***************************************************************************)
EXTENDS Integers, Sequences, FiniteSets, Functions, RowSections

CONSTANTS
  Trainers,     \* trainer processes, one GeoSgdCommunicator each
  DenseVars,    \* var_list_ entries whose is_sparse is False
  SparseVars,   \* var_list_ entries whose is_sparse is True
  Sections,     \* height_sections of every sparse var (rows per split)
  TrainerNums,  \* trainer_nums_
  PushNums,     \* geo_need_push_nums_ (also need_push_queue_'s capacity)
  WaitTimes,    \* FLAGS_communicator_send_wait_times
  MaxSteps,     \* bound: local training steps per trainer
  MaxIds,       \* bound: ids in one step's lookup tensor per sparse var
  InitValue     \* the parameter value every scope starts from

ASSUME /\ TrainerNums \in Nat \ {0}
       /\ PushNums \in Nat \ {0}
       /\ WaitTimes \in Nat
       /\ Sections \in Seq(Nat \ {0}) /\ Sections # <<>>

Splits  == 1..Len(Sections)
Abs     == ToAbsoluteSection(Sections)           \* absolute_section_
Rows    == 0..(SectionHeight(Sections) - 1)
SplitRows(k) == {AbsoluteRow(l, Abs, k) : l \in 0..(Sections[k] - 1)}

\* A cell is one row of a variable; a dense var is a single row 0.
Cells == (DenseVars \X {0}) \cup (SparseVars \X Rows)
\* One thread-pool task per dense var and per split of each sparse var.
Tasks == (DenseVars \X {0}) \cup (SparseVars \X Splits)

\* A SparseIdsMap: per sparse var, per split, the row ids touched.
IdsMaps == [SparseVars -> [Splits -> SUBSET Rows]]
\* The int64 ids tensor one lookup of a step produces.
IdTensors == UNION {[1..n -> Rows] : n \in 1..MaxIds}
NoTask  == [pc |-> "idle", pend |-> <<>>]

VARIABLES
  training, old,        \* training_scope_, old_scope_: [Trainers -> [Cells -> Int]]
  delta,                \* delta_scope_ split vars: local row -> value
  pserver,              \* pserver_scope_ split vars: local row -> value
  param,                \* the parameter server's value of every cell
  need_push_queue,      \* need_push_queue_: Seq(IdsMaps), capacity PushNums
  ids_send_vec,         \* ids_send_vec_: Seq(IdsMaps)
  wait_times,           \* SendThread's wait_times
  running,              \* running_
  send_pc,              \* SendThread: "none", "top", "collect", "flush", "exited"
  task,                 \* per task: pc and the values loaded by RecvRead
  send_reqs, get_reqs,  \* AsyncSendVar / AsyncGetVar calls not yet served
  train_pc, step, step_ids, \* the trainer's training thread
  thread,               \* send_thread_: "null", "joinable", "joined"
  stop_calls,           \* Stop() calls made by the trainer
  dirty,                \* history: sparse cells updated locally, not yet sent
  computed,             \* history: sum of the deltas every task computed
  updates,              \* history: local updates applied, per cell
  expect                \* history: server rows when a sparse pull was issued

geo   == <<training, old, delta, pserver, param>>
queue == <<need_push_queue, ids_send_vec, wait_times, running, send_pc, task>>
rpc   == <<send_reqs, get_reqs>>
train == <<train_pc, step, step_ids, thread, stop_calls>>
hist  == <<dirty, computed, updates, expect>>
vars  == <<geo, queue, rpc, train, hist>>

-----------------------------------------------------------------------------
(* Init: after Send("param_init"): old and the server mirror copy          *)
(* training (GeoSgdDenseParamInit); the split vars of pserver_scope_ do    *)
(* not exist yet, so they read as empty.  Start() has not run yet.        *)
\* GeoSgdSparseParamInit: pserver_scope_ gets a SelectedRows of the var's
\* height with no rows, so a split var read before any reply is empty.
SparseParamInit == [tk \in SparseVars \X Splits |-> <<>>]

Init ==
  /\ training = [t \in Trainers |-> [c \in Cells |-> InitValue]]
  /\ old      = [t \in Trainers |-> [c \in Cells |-> InitValue]]
  /\ delta    = [t \in Trainers |-> [tk \in SparseVars \X Splits |-> <<>>]]
  /\ pserver  = [t \in Trainers |-> SparseParamInit]
  /\ param    = [c \in Cells |-> InitValue]
  /\ need_push_queue = [t \in Trainers |-> <<>>]
  /\ ids_send_vec    = [t \in Trainers |-> <<>>]
  /\ wait_times      = [t \in Trainers |-> 0]
  /\ running  = [t \in Trainers |-> FALSE]
  /\ send_pc  = [t \in Trainers |-> "none"]
  /\ task     = [t \in Trainers |-> [tk \in Tasks |-> NoTask]]
  /\ send_reqs = [t \in Trainers |-> [tk \in SparseVars \X Splits |-> 0]]
  /\ get_reqs  = [t \in Trainers |-> [tk \in SparseVars \X Splits |-> 0]]
  /\ train_pc = [t \in Trainers |-> "init"]
  /\ thread = [t \in Trainers |-> "null"]
  /\ stop_calls = [t \in Trainers |-> 0]
  /\ step     = [t \in Trainers |-> 0]
  /\ step_ids = [t \in Trainers |-> [v \in SparseVars |-> <<>>]]
  /\ dirty    = [t \in Trainers |-> {}]
  /\ computed = [c \in Cells |-> 0]
  /\ updates  = [c \in Cells |-> 0]
  /\ expect   = [t \in Trainers |-> [tk \in SparseVars \X Splits |-> <<>>]]

-----------------------------------------------------------------------------
(* The trainer's training thread.                                          *)

\* One local optimizer step: every dense var and every row the step looked
\* up in each sparse var gets a local update (+1); the trainer then calls
\* Send(sparse_var_names, sparse_var_tables, scope) with the looked-up ids.
TrainStep(t) ==
  /\ train_pc[t] = "train"
  /\ step[t] < MaxSteps
  /\ \E ids \in [SparseVars -> IdTensors] :
       LET touched == (DenseVars \X {0})
                        \cup UNION {{<<v, r>> : r \in Range(ids[v])} : v \in SparseVars}
       IN  /\ training' = [training EXCEPT ![t] =
                             [c \in Cells |-> IF c \in touched THEN @[c] + 1
                                                               ELSE @[c]]]
           /\ updates' = [c \in Cells |-> IF c \in touched THEN updates[c] + 1
                                                           ELSE updates[c]]
           /\ dirty' = [dirty EXCEPT ![t] = @ \cup (touched \ (DenseVars \X {0}))]
           /\ step_ids' = [step_ids EXCEPT ![t] = ids]
  /\ train_pc' = [train_pc EXCEPT ![t] = "push"]
  /\ UNCHANGED <<old, delta, pserver, param, queue, rpc, step, thread,
                 stop_calls, computed, expect>>

\* Send reads the int64 ids tensor through mutable_data<int>: numel() 32-bit
\* words of the same buffer, i.e. the low and high word of the first ids
\* (little-endian).  Every id of the model is below 2^31, so its low word is
\* the id and its high word is 0.
Int32View(ids) ==
  [j \in 1..Len(ids) |-> IF j % 2 = 1 THEN ids[(j + 1) \div 2] ELSE 0]

\* The SparseIdsMap Send builds: each id read goes to the split
\* GetSectionIndex names for it.
IdsTable(ids) ==
  [v \in SparseVars |-> [k \in Splits |->
     {id \in Range(Int32View(ids[v])) : GetSectionIndex(id, Abs) = k}]]

\* Send(sparse ids): push the step's ids map; BlockingQueue::Push blocks
\* while need_push_queue_ holds PushNums maps.
Send(t) ==
  /\ train_pc[t] = "push"
  /\ Len(need_push_queue[t]) < PushNums
  /\ need_push_queue' = [need_push_queue EXCEPT ![t] = Append(@, IdsTable(step_ids[t]))]
  /\ train_pc' = [train_pc EXCEPT ![t] = "train"]
  /\ step' = [step EXCEPT ![t] = @ + 1]
  /\ UNCHANGED <<geo, ids_send_vec, wait_times, running, send_pc, task, rpc,
                 step_ids, thread, stop_calls, hist>>

\* Bound: Stop() calls, the second one repeating the first.
MaxStopCalls == 2

\* std::thread::join() on send_thread_ returns once SendThread has
\* returned; on a thread already joined it throws std::system_error.
JoinReturns(t) == thread[t] = "joinable" => send_pc[t] = "exited"
JoinThrows(t) == thread[t] = "joined"

\* Start(), called before the first training step: set running_ and
\* spawn the send thread.
Start(t) ==
  /\ train_pc[t] = "init"
  /\ running' = [running EXCEPT ![t] = TRUE]
  /\ send_pc' = [send_pc EXCEPT ![t] = "top"]
  /\ thread' = [thread EXCEPT ![t] = "joinable"]
  /\ train_pc' = [train_pc EXCEPT ![t] = "train"]
  /\ UNCHANGED <<geo, need_push_queue, ids_send_vec, wait_times, task, rpc,
                 step, step_ids, stop_calls, hist>>

\* Stop(), called once training is over, and possibly once more after it
\* returned: clear running_, then join the send thread.
Stop(t) ==
  /\ \/ train_pc[t] = "train" /\ step[t] = MaxSteps
     \/ train_pc[t] = "stopped" /\ stop_calls[t] < MaxStopCalls
  /\ running' = [running EXCEPT ![t] = FALSE]
  /\ train_pc' = [train_pc EXCEPT ![t] = "join"]
  /\ stop_calls' = [stop_calls EXCEPT ![t] = @ + 1]
  /\ UNCHANGED <<geo, need_push_queue, ids_send_vec, wait_times, send_pc, task,
                 rpc, step, step_ids, thread, hist>>

\* Mutant: Stop joins the send thread but keeps the handle.
StopJoinNoReset(t) ==
  /\ train_pc[t] = "join"
  /\ JoinReturns(t)
  /\ train_pc' = [train_pc EXCEPT ![t] = IF JoinThrows(t) THEN "aborted"
                                                          ELSE "stopped"]
  /\ thread' = [thread EXCEPT ![t] = IF @ = "null" THEN "null" ELSE "joined"]
  /\ UNCHANGED <<geo, queue, rpc, step, step_ids, stop_calls, hist>>

\* if (send_thread_) { join(); reset(nullptr); }: a second Stop finds the
\* handle null and joins nothing.
StopJoin(t) ==
  /\ train_pc[t] = "join"
  /\ JoinReturns(t)
  /\ train_pc' = [train_pc EXCEPT ![t] = IF JoinThrows(t) THEN "aborted"
                                                          ELSE "stopped"]
  /\ thread' = [thread EXCEPT ![t] = "null"]
  /\ UNCHANGED <<geo, queue, rpc, step, step_ids, stop_calls, hist>>

\* ~GeoSgdCommunicator, at teardown, with or without a Stop before it:
\* running_ = false.
Destroy(t) ==
  /\ \/ train_pc[t] = "train" /\ step[t] = MaxSteps
     \/ train_pc[t] = "stopped"
  /\ running' = [running EXCEPT ![t] = FALSE]
  /\ train_pc' = [train_pc EXCEPT ![t] = "dtor"]
  /\ UNCHANGED <<geo, need_push_queue, ids_send_vec, wait_times, send_pc, task,
                 rpc, step, step_ids, thread, stop_calls, hist>>

\* if (send_thread_) send_thread_->join(); a throw in the noexcept
\* destructor is std::terminate.
DestroyJoin(t) ==
  /\ train_pc[t] = "dtor"
  /\ JoinReturns(t)
  /\ train_pc' = [train_pc EXCEPT ![t] = IF JoinThrows(t) THEN "aborted"
                                                          ELSE "destroyed"]
  /\ UNCHANGED <<geo, queue, rpc, step, step_ids, thread, stop_calls, hist>>

-----------------------------------------------------------------------------
(* GeoSgdCommunicator::SendThread.                                         *)

\* Head of while (running_): wait_times restarts at 0 every iteration.
LoopTop(t) ==
  /\ send_pc[t] = "top"
  /\ IF running[t]
       THEN /\ send_pc' = [send_pc EXCEPT ![t] = "collect"]
            /\ wait_times' = [wait_times EXCEPT ![t] = 0]
       ELSE /\ send_pc' = [send_pc EXCEPT ![t] = "exited"]
            /\ UNCHANGED wait_times
  /\ UNCHANGED <<geo, need_push_queue, ids_send_vec, running, task, rpc, train, hist>>

\* Inner loop, queue non-empty: pop one ids map into ids_send_vec_.
CollectPop(t) ==
  /\ send_pc[t] = "collect"
  /\ Len(ids_send_vec[t]) < PushNums
  /\ need_push_queue[t] # <<>>
  /\ ids_send_vec' = [ids_send_vec EXCEPT ![t] = Append(@, Head(need_push_queue[t]))]
  /\ need_push_queue' = [need_push_queue EXCEPT ![t] = Tail(@)]
  /\ wait_times' = [wait_times EXCEPT ![t] = 0]
  /\ UNCHANGED <<geo, running, send_pc, task, rpc, train, hist>>

\* Mutant: the sleep branch without the wait_times budget check.
CollectWaitUnbounded(t) ==
  /\ send_pc[t] = "collect"
  /\ Len(ids_send_vec[t]) < PushNums
  /\ need_push_queue[t] = <<>>
  /\ wait_times' = [wait_times EXCEPT ![t] = @ + 1]
  /\ UNCHANGED <<geo, need_push_queue, ids_send_vec, running, send_pc, task, rpc,
                 train, hist>>

\* Inner loop, queue empty and wait budget left: sleep 10ms.
CollectWait(t) ==
  /\ send_pc[t] = "collect"
  /\ Len(ids_send_vec[t]) < PushNums
  /\ need_push_queue[t] = <<>>
  /\ wait_times[t] < WaitTimes
  /\ wait_times' = [wait_times EXCEPT ![t] = @ + 1]
  /\ UNCHANGED <<geo, need_push_queue, ids_send_vec, running, send_pc, task, rpc,
                 train, hist>>

\* if (ids_send_vec_.size() >= geo_need_push_nums_)
FlushDue(t) == Len(ids_send_vec[t]) >= PushNums

\* Mutant: ids_send_vec_.clear() at the end of every iteration, flushed or
\* not.
CollectEndClearing(t) ==
  /\ send_pc[t] = "collect"
  /\ \/ Len(ids_send_vec[t]) >= PushNums
     \/ need_push_queue[t] = <<>> /\ wait_times[t] >= WaitTimes
  /\ IF FlushDue(t)
       THEN /\ send_pc' = [send_pc EXCEPT ![t] = "flush"]
            /\ task' = [task EXCEPT ![t] = [tk \in Tasks |-> [NoTask EXCEPT !.pc = "send"]]]
            /\ UNCHANGED ids_send_vec
       ELSE /\ send_pc' = [send_pc EXCEPT ![t] = "top"]
            /\ ids_send_vec' = [ids_send_vec EXCEPT ![t] = <<>>]
            /\ UNCHANGED task
  /\ UNCHANGED <<geo, need_push_queue, wait_times, running, rpc, train, hist>>

\* Mutant: an abandoned cycle goes back to collecting instead of to the
\* running_ check at the loop head.
CollectEndNoBreak(t) ==
  /\ send_pc[t] = "collect"
  /\ \/ Len(ids_send_vec[t]) >= PushNums
     \/ need_push_queue[t] = <<>> /\ wait_times[t] >= WaitTimes
  /\ IF FlushDue(t)
       THEN /\ send_pc' = [send_pc EXCEPT ![t] = "flush"]
            /\ task' = [task EXCEPT ![t] = [tk \in Tasks |-> [NoTask EXCEPT !.pc = "send"]]]
            /\ UNCHANGED wait_times
       ELSE /\ wait_times' = [wait_times EXCEPT ![t] = 0]
            /\ UNCHANGED <<send_pc, task>>
  /\ UNCHANGED <<geo, need_push_queue, ids_send_vec, running, rpc, train, hist>>

\* The inner loop ends (threshold reached, or the wait budget ran out); a
\* due flush dispatches one task per dense var and per sparse split,
\* otherwise the cycle is abandoned with ids_send_vec_ kept.
\* Mutant: an abandoned collect cycle leaves SendThread instead of going
\* back to the loop head.
CollectEndExit(t) ==
  /\ send_pc[t] = "collect"
  /\ \/ Len(ids_send_vec[t]) >= PushNums
     \/ need_push_queue[t] = <<>> /\ wait_times[t] >= WaitTimes
  /\ IF FlushDue(t)
       THEN /\ send_pc' = [send_pc EXCEPT ![t] = "flush"]
            /\ task' = [task EXCEPT ![t] = [tk \in Tasks |-> [NoTask EXCEPT !.pc = "send"]]]
       ELSE /\ send_pc' = [send_pc EXCEPT ![t] = "exited"]
            /\ UNCHANGED task
  /\ UNCHANGED <<geo, need_push_queue, ids_send_vec, wait_times, running, rpc,
                 train, hist>>

CollectEnd(t) ==
  /\ send_pc[t] = "collect"
  /\ \/ Len(ids_send_vec[t]) >= PushNums
     \/ need_push_queue[t] = <<>> /\ wait_times[t] >= WaitTimes
  /\ IF FlushDue(t)
       THEN /\ send_pc' = [send_pc EXCEPT ![t] = "flush"]
            /\ task' = [task EXCEPT ![t] = [tk \in Tasks |-> [NoTask EXCEPT !.pc = "send"]]]
       ELSE /\ send_pc' = [send_pc EXCEPT ![t] = "top"]
            /\ UNCHANGED task
  /\ UNCHANGED <<geo, need_push_queue, ids_send_vec, wait_times, running, rpc,
                 train, hist>>

\* task_f.wait() on every task, then ids_send_vec_.clear().
FlushDone(t) ==
  /\ send_pc[t] = "flush"
  /\ \A tk \in Tasks : task[t][tk].pc = "done"
  /\ ids_send_vec' = [ids_send_vec EXCEPT ![t] = <<>>]
  /\ task' = [task EXCEPT ![t] = [tk \in Tasks |-> NoTask]]
  /\ send_pc' = [send_pc EXCEPT ![t] = "top"]
  /\ UNCHANGED <<geo, need_push_queue, wait_times, running, rpc, train, hist>>

-----------------------------------------------------------------------------
(* The thread-pool tasks of one flush.                                     *)

SetPc(t, tk, pc) == [task EXCEPT ![t][tk].pc = pc]

\* Delta of one cell: (training - old) * (1 / trainer_nums).
DeltaOf(t, c) == (training[t][c] - old[t][c]) \div TrainerNums

\* SendUpdateDenseVars: delta = (training - old) / trainer_nums,
\* old += delta, ParameterSend waits until the server has it.
SendUpdateDenseVars(t, v) ==
  LET c == <<v, 0>>  d == DeltaOf(t, c)
  IN  /\ task[t][c].pc = "send"
      /\ old' = [old EXCEPT ![t][c] = @ + d]
      /\ param' = [param EXCEPT ![c] = @ + d]
      /\ computed' = [computed EXCEPT ![c] = @ + d]
      /\ task' = SetPc(t, c, "recv")
      /\ UNCHANGED <<training, delta, pserver, need_push_queue, ids_send_vec,
                     wait_times, running, send_pc, rpc, train, dirty, updates, expect>>

\* RecvUpdateDenseVars, up to the load of training: ParameterRecv waits for
\* the server value z; the task computes training + (z - old) and old = z.
RecvUpdateDenseVars(t, v) ==
  LET c == <<v, 0>>  z == param[c]
  IN  /\ task[t][c].pc = "recv"
      /\ task' = [task EXCEPT ![t][c] =
                    [pc |-> "write",
                     pend |-> [x \in {c} |-> <<training[t][c] + (z - old[t][c]), z>>]]]
      /\ UNCHANGED <<geo, need_push_queue, ids_send_vec, wait_times, running,
                     send_pc, rpc, train, hist>>

\* SparseIdsMerge: the union, over the batches of ids_send_vec_, of the ids
\* recorded for this split.
SparseIdsMerge(vec, v, k) == UNION {vec[i][v][k] : i \in DOMAIN vec}

\* SendUpdateSparseVars + RpcSend: per merged id, delta = (training - old)
\* / trainer_nums and old += delta; the delta var of the split holds the
\* deltas at the split-local rows; AsyncSendVar is issued and not waited on.
SendUpdateSparseVars(t, v, k) ==
  LET tk  == <<v, k>>
      ids == SparseIdsMerge(ids_send_vec[t], v, k)
      sent == {<<v, r>> : r \in ids}
  IN  /\ task[t][tk].pc = "send"
      /\ old' = [old EXCEPT ![t] = [c \in Cells |->
                   IF c \in sent THEN @[c] + DeltaOf(t, c) ELSE @[c]]]
      /\ computed' = [c \in Cells |->
                   IF c \in sent THEN computed[c] + DeltaOf(t, c) ELSE computed[c]]
      /\ delta' = [delta EXCEPT ![t][tk] =
                   [l \in {LocalRow(r, Abs, k) : r \in ids} |->
                      DeltaOf(t, <<v, AbsoluteRow(l, Abs, k)>>)]]
      /\ send_reqs' = [send_reqs EXCEPT ![t][tk] = @ + 1]
      /\ dirty' = [dirty EXCEPT ![t] = @ \ sent]
      /\ task' = SetPc(t, tk, "recv")
      /\ UNCHANGED <<training, pserver, param, need_push_queue, ids_send_vec,
                     wait_times, running, send_pc, get_reqs, train, updates, expect>>

\* RpcRecv + RecvUpdateSparseVars, up to the load of training: AsyncGetVar
\* is issued and not waited on; the rows then present in the split var of
\* pserver_scope_ are reconciled: training += z - old, old = z.
RecvUpdateSparseVars(t, v, k) ==
  LET tk == <<v, k>>
      z  == pserver[t][tk]
      rows == {<<v, AbsoluteRow(l, Abs, k)>> : l \in DOMAIN z}
      zOf(c) == z[LocalRow(c[2], Abs, k)]
  IN  /\ task[t][tk].pc = "recv"
      /\ get_reqs' = [get_reqs EXCEPT ![t][tk] = @ + 1]
      /\ task' = [task EXCEPT ![t][tk] =
                    [pc |-> "write",
                     pend |-> [c \in rows |-> <<training[t][c] + (zOf(c) - old[t][c]), zOf(c)>>]]]
      /\ expect' = [expect EXCEPT ![t][tk] =
                    [l \in 0..(Sections[k] - 1) |-> param[<<v, AbsoluteRow(l, Abs, k)>>]]]
      /\ UNCHANGED <<geo, need_push_queue, ids_send_vec, wait_times, running,
                     send_pc, send_reqs, train, dirty, computed, updates>>

\* The stores of the reconcile (blas VADD into training, copy into old).
RecvWrite(t, tk) ==
  LET pend == task[t][tk].pend
  IN  /\ task[t][tk].pc = "write"
      /\ training' = [training EXCEPT ![t] = [c \in Cells |->
                        IF c \in DOMAIN pend THEN pend[c][1] ELSE @[c]]]
      /\ old' = [old EXCEPT ![t] = [c \in Cells |->
                   IF c \in DOMAIN pend THEN pend[c][2] ELSE @[c]]]
      /\ task' = [task EXCEPT ![t][tk] = [pc |-> "done", pend |-> <<>>]]
      /\ UNCHANGED <<delta, pserver, param, need_push_queue, ids_send_vec,
                     wait_times, running, send_pc, rpc, train, hist>>

-----------------------------------------------------------------------------
(* The RPC transport and the parameter server (outside this slice).        *)

\* An AsyncSendVar request is serialized from the delta var as it is now
\* and the server adds it to its rows.
Deliver(t, tk) ==
  LET d == delta[t][tk]
      k == tk[2]
  IN  /\ send_reqs[t][tk] > 0
      /\ param' = [c \in Cells |->
                     IF c[1] = tk[1] /\ c[2] \in {AbsoluteRow(l, Abs, k) : l \in DOMAIN d}
                     THEN param[c] + d[LocalRow(c[2], Abs, k)] ELSE param[c]]
      /\ send_reqs' = [send_reqs EXCEPT ![t][tk] = @ - 1]
      /\ UNCHANGED <<training, old, delta, pserver, queue, get_reqs, train, hist>>

\* The server answers an AsyncGetVar with every row of the split.
ServeGet(t, tk) ==
  LET k == tk[2]
  IN  /\ get_reqs[t][tk] > 0
      /\ pserver' = [pserver EXCEPT ![t][tk] =
                       [l \in 0..(Sections[k] - 1) |-> param[<<tk[1], AbsoluteRow(l, Abs, k)>>]]]
      /\ get_reqs' = [get_reqs EXCEPT ![t][tk] = @ - 1]
      /\ UNCHANGED <<training, old, delta, param, queue, send_reqs, train, hist>>

-----------------------------------------------------------------------------
SparseTasks == SparseVars \X Splits

\* The training loop calls Stop once, then the joins run; a second Stop
\* and the teardown are up to the trainer (Teardown).
TrainingThread(t) == Start(t) \/ TrainStep(t) \/ Send(t)
                       \/ (Stop(t) /\ stop_calls[t] = 0) \/ StopJoin(t)
                       \/ DestroyJoin(t)
Teardown(t) == Stop(t) \/ Destroy(t)
SendThread(t) == LoopTop(t) \/ CollectPop(t) \/ CollectWait(t) \/ CollectEnd(t)
                   \/ FlushDone(t)
PoolTasks(t) ==
  \/ \E v \in DenseVars : SendUpdateDenseVars(t, v) \/ RecvUpdateDenseVars(t, v)
  \/ \E v \in SparseVars, k \in Splits :
       SendUpdateSparseVars(t, v, k) \/ RecvUpdateSparseVars(t, v, k)
  \/ \E tk \in Tasks : RecvWrite(t, tk)
Transport(t) == \E tk \in SparseTasks : Deliver(t, tk) \/ ServeGet(t, tk)

\* Every communicator is destroyed (or its process aborted) and the
\* transport is idle: the run is over.
Terminated ==
  /\ \A t \in Trainers : train_pc[t] \in {"destroyed", "aborted"}
  /\ \A t \in Trainers, tk \in SparseTasks : send_reqs[t][tk] = 0 /\ get_reqs[t][tk] = 0
  /\ UNCHANGED vars

Next ==
  \/ \E t \in Trainers : TrainingThread(t) \/ SendThread(t) \/ PoolTasks(t)
                           \/ Transport(t) \/ Teardown(t)
  \/ Terminated

\* Every thread keeps running while it can; the transport eventually
\* serves every request.
Fairness == \A t \in Trainers :
              /\ WF_vars(TrainingThread(t))
              /\ WF_vars(SendThread(t))
              /\ WF_vars(PoolTasks(t))
              /\ WF_vars(Transport(t))

Spec == Init /\ [][Next]_vars /\ Fairness

-----------------------------------------------------------------------------
(* Properties.                                                             *)

TypeOK ==
  /\ training \in [Trainers -> [Cells -> Int]]
  /\ old \in [Trainers -> [Cells -> Int]]
  /\ param \in [Cells -> Int]
  /\ need_push_queue \in [Trainers -> Seq(IdsMaps)]
  /\ \A t \in Trainers : Len(need_push_queue[t]) =< PushNums
  /\ ids_send_vec \in [Trainers -> Seq(IdsMaps)]
  /\ wait_times \in [Trainers -> 0..WaitTimes]
  /\ running \in [Trainers -> BOOLEAN]
  /\ send_pc \in [Trainers -> {"none", "top", "collect", "flush", "exited"}]
  /\ \A t \in Trainers, tk \in Tasks :
        task[t][tk].pc \in {"idle", "send", "recv", "write", "done"}
  /\ send_reqs \in [Trainers -> [SparseTasks -> Nat]]
  /\ get_reqs \in [Trainers -> [SparseTasks -> Nat]]
  /\ train_pc \in [Trainers -> {"init", "train", "push", "join", "stopped",
                                "dtor", "destroyed", "aborted"}]
  /\ thread \in [Trainers -> {"null", "joinable", "joined"}]
  /\ stop_calls \in [Trainers -> 0..MaxStopCalls]
  /\ step \in [Trainers -> 0..MaxSteps]
  /\ step_ids \in [Trainers -> [SparseVars -> {<<>>} \cup IdTensors]]
  /\ dirty \in [Trainers -> SUBSET (SparseVars \X Rows)]

\* The ids of sparse var v that trainer t has recorded and not yet flushed:
\* in the step being pushed, in need_push_queue_ and in ids_send_vec_.
PendingIds(t, v) ==
  LET batches == {need_push_queue[t][i] : i \in DOMAIN need_push_queue[t]}
                   \cup {ids_send_vec[t][i] : i \in DOMAIN ids_send_vec[t]}
  IN  UNION {b[v][k] : b \in batches, k \in Splits}
        \cup (IF train_pc[t] = "push" THEN Range(step_ids[t][v]) ELSE {})

\* Whatever the interleaving of the training thread's Send calls with the
\* send thread's collect loop (popping, waiting, abandoning a cycle without
\* flushing, clearing after a flush), a sparse row the trainer updated
\* since its split last sent a delta is still recorded in a pending ids
\* map, so a later flush will push its drift.
DirtyRowsTracked ==
  \A t \in Trainers : \A c \in dirty[t] : c[2] \in PendingIds(t, c[1])

\* Stop returns: once Stop has cleared running_, the join on the send
\* thread completes, whatever collect cycle or flush the thread was in.
StopReturns ==
  \A t \in Trainers : (train_pc[t] = "join") ~> (train_pc[t] = "stopped")

\* A training thread blocked in need_push_queue_->Push on a full queue
\* (PushNums maps waiting) is released: the send thread keeps coming back
\* to pop, even after collect cycles it abandoned on a dry queue.
TrainerReleased ==
  \A t \in Trainers : (train_pc[t] = "push") ~> (train_pc[t] = "train")

\* The destructor returns, after one Stop, two, or none: it clears running_
\* itself, so SendThread leaves its loop, and it never joins the thread a
\* Stop already joined (a throw there terminates the trainer process).
DestructorReturns ==
  \A t \in Trainers : (train_pc[t] = "dtor") ~> (train_pc[t] = "destroyed")

\* Dense vars: the server value plus every trainer's unpushed drift
\* (training - old) accounts for every local update; the reconcile
\* training += server - old must not lose a concurrent optimizer step.
LocalUpdatesConserved ==
  \A c \in DenseVars \X {0} :
     param[c] + SumFunction([t \in Trainers |-> training[t][c] - old[t][c]])
       = InitValue + updates[c]

\* Once the transport is idle, the server holds exactly the deltas the
\* trainers computed and added to old: every sparse delta reaches it once.
DeltaDeliveredOnce ==
  (\A t \in Trainers, tk \in SparseTasks : send_reqs[t][tk] = 0)
    => \A c \in Cells : param[c] = InitValue + computed[c]

\* When a sparse split's task has finished, old holds, for every row of the
\* split, the server's value at the time the task pulled it (spec 3: old
\* must equal the server's value immediately after a successful pull).
SparseOldIsPulledValue ==
  \A t \in Trainers, tk \in SparseTasks :
     task[t][tk].pc = "done" =>
        \A r \in SplitRows(tk[2]) :
           old[t][<<tk[1], r>>] = expect[t][tk][LocalRow(r, Abs, tk[2])]
=============================================================================
