-------------------------- MODULE AsyncCommunicator --------------------------
(***************************************************************************)
(* AsyncCommunicator (operators/distributed/communicator.cc 69-374).       *)
(* Training threads push gradient copies onto a bounded queue per send     *)
(* variable; the send thread dispatches, per round, one thread-pool task   *)
(* per non-empty queue, which pops up to MaxMergeVarNum gradients (with a  *)
(* budget of SendWaitTimes 10ms sleeps while the queue is dry), merges     *)
(* and sends them; pops of the first variable of send_varname_to_queue_   *)
(* are counted in the atomic grad_num_.  After the round's barrier, Recv() *)
(* pulls every receive variable if grad_num_ > 0 (shared mode); in         *)
(* independent mode RecvThread does so when grad_num_ exceeds              *)
(* MinSendGradNum.  Both then store 0 into grad_num_.                      *)
(*                                                                         *)
(* Gradients are counted, not valued; MergeVars is not modelled.  A       *)
(* receive round (RecvAll: parallel ParameterRecv, then wait-all) is one   *)
(* step; the load of grad_num_ before it and the store after it are their  *)
(* own steps, since pool tasks fetch_add in between.                       *)
(***************************************************************************)
EXTENDS Integers, FiniteSets, Functions

CONSTANTS
  Producers,              \* training threads calling Send
  Vars,                   \* send_varname_to_ctx_ keys
  FirstVar,               \* send_varname_to_queue_.begin()->first
  SparseVars,             \* Vars whose gradient is SelectedRows
  MergeSparseGrad,        \* FLAGS_communicator_merge_sparse_grad
  IndependentRecvThread,  \* FLAGS_communicator_independent_recv_thread
  QueueSize,              \* FLAGS_communicator_send_queue_size
  MaxMergeVarNum,         \* FLAGS_communicator_max_merge_var_num
  SendWaitTimes,          \* FLAGS_communicator_send_wait_times
  MinSendGradNum,         \* FLAGS_communicator_min_send_grad_num_before_recv
  MaxSends                \* bound: Send calls per producer

ASSUME /\ FirstVar \in Vars /\ SparseVars \subseteq Vars
       /\ MergeSparseGrad \in BOOLEAN /\ IndependentRecvThread \in BOOLEAN
       /\ QueueSize \in Nat \ {0} /\ MaxMergeVarNum \in Nat \ {0}
       /\ SendWaitTimes \in Nat /\ MinSendGradNum \in Nat /\ MaxSends \in Nat

None == "none"
NoTask == [pc |-> "idle", merged |-> 0, wait_times |-> 0]

VARIABLES
  queue,        \* send_varname_to_queue_: gradients queued per var
  running,      \* running_
  main_pc,      \* the trainer's main thread: "init", "started", "join",
                \* "stopped", "dtor", "destroyed", "aborted"
  threads,      \* send_thread_, recv_thread_: "null", "joinable", "joined"
  stop_calls,   \* Stop() calls made by the trainer
  send_pc,      \* SendThread: "none", "top", "tasks", "recv", "recv_all", "exited"
  recv_pc,      \* RecvThread: "none", "top", "recv_all", "reset", "exited"
  task,         \* the send task of each var in the current round
  grad_num,     \* grad_num_
  prod_pc,      \* per producer: None, or the var whose Send is in progress
  sends,        \* per producer: Send calls made
  step_vars,    \* per producer: vars already sent in its current step
  pushed,       \* history: gradients handed to Send, per var
  sent,         \* history: gradients merged and sent, per var
  batches,      \* history: merged sends (MergeVars + ParameterSend), per var
  since,        \* history: FirstVar gradients sent since the last pull
  pulls         \* history: receive rounds that pulled

trainer == <<main_pc, threads, stop_calls>>
comm == <<queue, running, trainer, send_pc, recv_pc, task, grad_num>>
prod == <<prod_pc, sends, step_vars>>
hist == <<pushed, sent, batches, since, pulls>>
vars == <<comm, prod, hist>>

Init ==
  /\ queue = [v \in Vars |-> 0]
  /\ running = FALSE
  /\ main_pc = "init"
  /\ threads = [th \in {"send", "recv"} |-> "null"]
  /\ stop_calls = 0
  /\ send_pc = "none"
  /\ recv_pc = "none"
  /\ task = [v \in Vars |-> NoTask]
  /\ grad_num = 0
  /\ prod_pc = [p \in Producers |-> None]
  /\ sends = [p \in Producers |-> 0]
  /\ step_vars = [p \in Producers |-> {}]
  /\ pushed = [v \in Vars |-> 0]
  /\ sent = [v \in Vars |-> 0]
  /\ batches = [v \in Vars |-> 0]
  /\ since = 0
  /\ pulls = 0

Idle(p) == prod_pc[p] = None

-----------------------------------------------------------------------------
(* Training threads: Send(var_name, scope), lines 269-289.                 *)

\* A training step runs one send op per gradient var, in any order.
\* A SelectedRows gradient with merge_sparse_grad off is sent synchronously
\* by the caller; any other gradient is copied and queued (next action).
Send(p, v) ==
  /\ Idle(p) /\ sends[p] < MaxSends /\ v \notin step_vars[p]
  /\ sends' = [sends EXCEPT ![p] = @ + 1]
  /\ step_vars' = [step_vars EXCEPT ![p] =
                     IF @ \cup {v} = Vars THEN {} ELSE @ \cup {v}]
  /\ IF v \in SparseVars /\ ~MergeSparseGrad
       THEN /\ pushed' = [pushed EXCEPT ![v] = @ + 1]
            /\ sent' = [sent EXCEPT ![v] = @ + 1]
            /\ UNCHANGED prod_pc
       ELSE /\ prod_pc' = [prod_pc EXCEPT ![p] = v]
            /\ UNCHANGED <<pushed, sent>>
  /\ UNCHANGED <<comm, batches, since, pulls>>

\* Mutant: a push that does not wait for room in the queue.
PushUnbounded(p) ==
  LET v == prod_pc[p] IN
  /\ ~Idle(p)
  /\ queue' = [queue EXCEPT ![v] = @ + 1]
  /\ pushed' = [pushed EXCEPT ![v] = @ + 1]
  /\ prod_pc' = [prod_pc EXCEPT ![p] = None]
  /\ UNCHANGED <<running, trainer, send_pc, recv_pc, task, grad_num,
                 sends, step_vars, sent, batches, since, pulls>>

\* Mutant: Push blocks one item short of the queue's capacity.
PushTight(p) ==
  LET v == prod_pc[p] IN
  /\ ~Idle(p)
  /\ queue[v] < QueueSize - 1
  /\ queue' = [queue EXCEPT ![v] = @ + 1]
  /\ pushed' = [pushed EXCEPT ![v] = @ + 1]
  /\ prod_pc' = [prod_pc EXCEPT ![p] = None]
  /\ UNCHANGED <<running, trainer, send_pc, recv_pc, task, grad_num,
                 sends, step_vars, sent, batches, since, pulls>>

\* queue->Push(tmp_grad_var): blocks while the queue holds QueueSize items.
Push(p) ==
  LET v == prod_pc[p] IN
  /\ ~Idle(p)
  /\ queue[v] < QueueSize
  /\ queue' = [queue EXCEPT ![v] = @ + 1]
  /\ pushed' = [pushed EXCEPT ![v] = @ + 1]
  /\ prod_pc' = [prod_pc EXCEPT ![p] = None]
  /\ UNCHANGED <<running, trainer, send_pc, recv_pc, task, grad_num,
                 sends, step_vars, sent, batches, since, pulls>>

-----------------------------------------------------------------------------
(* SendThread, lines 181-252.                                              *)

\* Mutant: a queue is only served once it holds more than one gradient.
LoopTopGt1 ==
  /\ send_pc = "top"
  /\ IF running
       THEN /\ task' = [v \in Vars |->
                          IF queue[v] > 1 THEN [NoTask EXCEPT !.pc = "run"]
                          ELSE NoTask]
            /\ send_pc' = "tasks"
       ELSE /\ send_pc' = "exited" /\ UNCHANGED task
  /\ UNCHANGED <<queue, running, trainer, recv_pc, grad_num, prod, hist>>

\* Mutant: a send task for every var, its queue empty or not.
LoopTopAll ==
  /\ send_pc = "top"
  /\ IF running
       THEN /\ task' = [v \in Vars |-> [NoTask EXCEPT !.pc = "run"]]
            /\ send_pc' = "tasks"
       ELSE /\ send_pc' = "exited" /\ UNCHANGED task
  /\ UNCHANGED <<queue, running, trainer, recv_pc, grad_num, prod, hist>>

\* while (running_): enqueue one send task per non-empty queue.  The sizes
\* are read in one step; between two reads only producers touch the queues.
LoopTop ==
  /\ send_pc = "top"
  /\ IF running
       THEN /\ task' = [v \in Vars |->
                          IF queue[v] > 0 THEN [NoTask EXCEPT !.pc = "run"]
                          ELSE NoTask]
            /\ send_pc' = "tasks"
       ELSE /\ send_pc' = "exited" /\ UNCHANGED task
  /\ UNCHANGED <<queue, running, trainer, recv_pc, grad_num, prod, hist>>

\* The task's loop body when its queue is not empty: Pop, and
\* grad_num_.fetch_add(1) for the first var of send_varname_to_queue_.
TaskPop(v) ==
  /\ task[v].pc = "run" /\ task[v].merged < MaxMergeVarNum
  /\ queue[v] > 0
  /\ queue' = [queue EXCEPT ![v] = @ - 1]
  /\ task' = [task EXCEPT ![v].merged = @ + 1, ![v].wait_times = 0]
  /\ IF v = FirstVar THEN grad_num' = grad_num + 1 ELSE UNCHANGED grad_num
  /\ since' = IF v = FirstVar THEN since + 1 ELSE since
  /\ UNCHANGED <<running, trainer, send_pc, recv_pc, prod, pushed, sent,
                 batches, pulls>>

\* Mutant: the sleep without wait_times++.
TaskWaitNoCount(v) ==
  /\ task[v].pc = "run" /\ task[v].merged < MaxMergeVarNum
  /\ queue[v] = 0 /\ task[v].wait_times < SendWaitTimes
  /\ task' = task
  /\ UNCHANGED <<queue, running, trainer, send_pc, recv_pc, grad_num, prod,
                 hist>>

\* The queue is dry and the wait budget not spent: sleep 10ms.
TaskWait(v) ==
  /\ task[v].pc = "run" /\ task[v].merged < MaxMergeVarNum
  /\ queue[v] = 0 /\ task[v].wait_times < SendWaitTimes
  /\ task' = [task EXCEPT ![v].wait_times = @ + 1]
  /\ UNCHANGED <<queue, running, trainer, send_pc, recv_pc, grad_num, prod,
                 hist>>

\* The loop ends (merged MaxMergeVarNum, or the budget spent on a dry
\* queue): MergeVars into send_scope_ and the synchronous ParameterSend.
TaskSend(v) ==
  /\ task[v].pc = "run"
  /\ \/ task[v].merged = MaxMergeVarNum
     \/ queue[v] = 0 /\ task[v].wait_times >= SendWaitTimes
  /\ sent' = [sent EXCEPT ![v] = @ + task[v].merged]
  /\ batches' = [batches EXCEPT ![v] = @ + 1]
  /\ task' = [task EXCEPT ![v].pc = "done"]
  /\ UNCHANGED <<queue, running, trainer, send_pc, recv_pc, grad_num, prod,
                 pushed, since, pulls>>

\* Mutant: Recv() without waiting on the futures of the round's tasks.
RoundEndNoBarrier ==
  /\ send_pc = "tasks"
  /\ task' = [v \in Vars |-> IF task[v].pc = "run" THEN task[v] ELSE NoTask]
  /\ send_pc' = IF IndependentRecvThread THEN "top" ELSE "recv"
  /\ UNCHANGED <<queue, running, trainer, recv_pc, grad_num, prod, hist>>

\* Mutant: the round ends without calling Recv().
RoundEndNoRecv ==
  /\ send_pc = "tasks"
  /\ \A v \in Vars : task[v].pc # "run"
  /\ task' = [v \in Vars |-> NoTask]
  /\ send_pc' = "top"
  /\ UNCHANGED <<queue, running, trainer, recv_pc, grad_num, prod, hist>>

\* task_f.wait() on every future, then Recv(), which returns at once in
\* independent mode.
RoundEnd ==
  /\ send_pc = "tasks"
  /\ \A v \in Vars : task[v].pc # "run"
  /\ task' = [v \in Vars |-> NoTask]
  /\ send_pc' = IF IndependentRecvThread THEN "top" ELSE "recv"
  /\ UNCHANGED <<queue, running, trainer, recv_pc, grad_num, prod, hist>>

\* RecvAll, lines 305-327: returns at once once running_ is false; else
\* runs ParameterRecv for every receive variable and waits for them all.
RecvAll ==
  IF running THEN pulls' = pulls + 1 /\ since' = 0
             ELSE UNCHANGED <<pulls, since>>

\* Recv in shared mode, lines 296-302: load grad_num_; if positive, RecvAll.
Recv ==
  /\ send_pc = "recv"
  /\ send_pc' = IF grad_num > 0 THEN "recv_all" ELSE "top"
  /\ UNCHANGED <<queue, running, trainer, recv_pc, task, grad_num, prod, hist>>

SendRecvAll ==
  /\ send_pc = "recv_all"
  /\ RecvAll
  /\ send_pc' = "reset"
  /\ UNCHANGED <<queue, running, trainer, recv_pc, task, grad_num, prod,
                 pushed, sent, batches>>

\* grad_num_.store(0) after RecvAll returns.
SendRecvReset ==
  /\ send_pc = "reset"
  /\ grad_num' = 0
  /\ send_pc' = "top"
  /\ UNCHANGED <<queue, running, trainer, recv_pc, task, prod, hist>>

-----------------------------------------------------------------------------
(* RecvThread (independent mode), lines 254-267.  The 10ms sleep while     *)
(* grad_num_ is at most the threshold changes no state and is left out.    *)

\* Mutant: the threshold compared with >=.
RecvCheckGe ==
  /\ recv_pc = "top" /\ running
  /\ grad_num >= MinSendGradNum
  /\ recv_pc' = "recv_all"
  /\ UNCHANGED <<queue, running, trainer, send_pc, task, grad_num, prod, hist>>

RecvCheck ==
  /\ recv_pc = "top" /\ running
  /\ grad_num > MinSendGradNum
  /\ recv_pc' = "recv_all"
  /\ UNCHANGED <<queue, running, trainer, send_pc, task, grad_num, prod, hist>>

RecvThreadRecvAll ==
  /\ recv_pc = "recv_all"
  /\ RecvAll
  /\ recv_pc' = "reset"
  /\ UNCHANGED <<queue, running, trainer, send_pc, task, grad_num, prod,
                 pushed, sent, batches>>

RecvThreadReset ==
  /\ recv_pc = "reset"
  /\ grad_num' = 0
  /\ recv_pc' = "top"
  /\ UNCHANGED <<queue, running, trainer, send_pc, task, prod, hist>>

RecvExit ==
  /\ recv_pc = "top" /\ ~running
  /\ recv_pc' = "exited"
  /\ UNCHANGED <<queue, running, trainer, send_pc, task, grad_num, prod, hist>>

-----------------------------------------------------------------------------
(* Start, Stop (lines 329-364) and ~AsyncCommunicator (167-179), called  *)
(* by the trainer's main thread: Start once, Stop once its training       *)
(* threads have made their sends, possibly Stop a second time, and the    *)
(* destructor when the process tears the communicator down.               *)

\* The training threads have made all their send ops.
TrainingDone == \A p \in Producers : Idle(p) /\ sends[p] = MaxSends

\* Bound: Stop() calls, the second one repeating the first.
MaxStopCalls == 2

\* std::thread::join() returns once the thread has left its function; on a
\* thread that was already joined it throws std::system_error instead.
JoinReturns(th, pc) == threads[th] = "joinable" => pc = "exited"
JoinThrows == \E th \in {"send", "recv"} : threads[th] = "joined"

Start ==
  /\ main_pc = "init"
  /\ running' = TRUE
  /\ send_pc' = "top"
  /\ recv_pc' = IF IndependentRecvThread THEN "top" ELSE "none"
  /\ threads' = [send |-> "joinable",
                 recv |-> IF IndependentRecvThread THEN "joinable" ELSE "null"]
  /\ main_pc' = "started"
  /\ UNCHANGED <<queue, stop_calls, task, grad_num, prod, hist>>

\* running_ = false; the joins follow in StopJoin.
Stop ==
  /\ \/ main_pc = "started" /\ TrainingDone
     \/ main_pc = "stopped" /\ stop_calls < MaxStopCalls
  /\ running' = FALSE
  /\ main_pc' = "join"
  /\ stop_calls' = stop_calls + 1
  /\ UNCHANGED <<queue, threads, send_pc, recv_pc, task, grad_num, prod, hist>>

\* Mutant: Stop joins the threads but keeps the handles.
StopJoinNoReset ==
  /\ main_pc = "join"
  /\ JoinReturns("send", send_pc) /\ JoinReturns("recv", recv_pc)
  /\ main_pc' = IF JoinThrows THEN "aborted" ELSE "stopped"
  /\ threads' = [th \in {"send", "recv"} |->
                   IF threads[th] = "null" THEN "null" ELSE "joined"]
  /\ UNCHANGED <<queue, running, stop_calls, send_pc, recv_pc, task, grad_num,
                 prod, hist>>

\* if (send_thread_) { join(); reset(nullptr); }, then the same for
\* recv_thread_.  A second Stop finds both handles null and joins nothing.
StopJoin ==
  /\ main_pc = "join"
  /\ JoinReturns("send", send_pc) /\ JoinReturns("recv", recv_pc)
  /\ main_pc' = IF JoinThrows THEN "aborted" ELSE "stopped"
  /\ threads' = [th \in {"send", "recv"} |-> "null"]
  /\ UNCHANGED <<queue, running, stop_calls, send_pc, recv_pc, task, grad_num,
                 prod, hist>>

\* ~AsyncCommunicator: running_ = false, whether or not Stop ran.
Destroy ==
  /\ \/ main_pc = "started" /\ TrainingDone
     \/ main_pc = "stopped"
  /\ running' = FALSE
  /\ main_pc' = "dtor"
  /\ UNCHANGED <<queue, threads, stop_calls, send_pc, recv_pc, task, grad_num,
                 prod, hist>>

\* if (send_thread_) send_thread_->join(); the same for recv_thread_.  A
\* throw here, in a noexcept destructor, is std::terminate.
DestroyJoin ==
  /\ main_pc = "dtor"
  /\ JoinReturns("send", send_pc) /\ JoinReturns("recv", recv_pc)
  /\ main_pc' = IF JoinThrows THEN "aborted" ELSE "destroyed"
  /\ UNCHANGED <<queue, running, threads, stop_calls, send_pc, recv_pc, task,
                 grad_num, prod, hist>>

-----------------------------------------------------------------------------
Producer(p) == (\E v \in Vars : Send(p, v)) \/ Push(p)
SendTask(v) == TaskPop(v) \/ TaskWait(v) \/ TaskSend(v)
SendThread == LoopTop \/ RoundEnd \/ Recv \/ SendRecvAll \/ SendRecvReset
RecvThread == RecvCheck \/ RecvThreadRecvAll \/ RecvThreadReset \/ RecvExit

\* The communicator is destroyed (or the process aborted): nothing is left.
Terminated ==
  /\ main_pc \in {"destroyed", "aborted"}
  /\ UNCHANGED vars

Next ==
  \/ \E p \in Producers : Producer(p)
  \/ \E v \in Vars : SendTask(v)
  \/ SendThread
  \/ RecvThread
  \/ Start \/ Stop \/ StopJoin \/ Destroy \/ DestroyJoin
  \/ Terminated

\* Threads are scheduled fairly: a training thread runs its MaxSends send
\* ops, and a blocked Push resumes once the queue has room; a join returns
\* once its thread has exited.  The trainer need not call Stop nor tear
\* the communicator down.
Fairness ==
  /\ \A p \in Producers : WF_vars(Producer(p))
  /\ \A v \in Vars : WF_vars(SendTask(v))
  /\ WF_vars(SendThread)
  /\ WF_vars(RecvThread)
  /\ WF_vars(StopJoin)
  /\ WF_vars(DestroyJoin)

Spec == Init /\ [][Next]_vars /\ Fairness

-----------------------------------------------------------------------------
TypeOK ==
  /\ queue \in [Vars -> 0..QueueSize]
  /\ running \in BOOLEAN
  /\ main_pc \in {"init", "started", "join", "stopped", "dtor", "destroyed",
                 "aborted"}
  /\ threads \in [{"send", "recv"} -> {"null", "joinable", "joined"}]
  /\ stop_calls \in 0..MaxStopCalls
  /\ send_pc \in {"none", "top", "tasks", "recv", "recv_all", "reset", "exited"}
  /\ recv_pc \in {"none", "top", "recv_all", "reset", "exited"}
  /\ task \in [Vars -> [pc : {"idle", "run", "done"},
                        merged : 0..MaxMergeVarNum,
                        wait_times : 0..SendWaitTimes]]
  /\ grad_num \in Nat
  /\ prod_pc \in [Producers -> Vars \cup {None}]
  /\ sends \in [Producers -> 0..MaxSends]
  /\ step_vars \in [Producers -> SUBSET Vars]
  /\ pushed \in [Vars -> Nat] /\ sent \in [Vars -> Nat] /\ batches \in [Vars -> Nat]
  /\ since \in Nat /\ pulls \in Nat

\* Every gradient of the first var that a send task popped after the last
\* receive round pulled is still counted in grad_num_: the store(0) after
\* RecvAll never erases a fetch_add it did not precede.
SendsSinceLastPullCounted == running => since =< grad_num

\* A receive round pulls only once more than MinSendGradNum gradients of
\* the first var were sent since the previous pull (the spec's threshold,
\* FLAGS_communicator_min_send_grad_num_before_recv).
RecvOnlyAfterThreshold ==
  [][pulls' > pulls => since > MinSendGradNum]_vars

MaxPushes == MaxSends * Cardinality(Producers)

\* Once more than MinSendGradNum gradients of the first var were sent
\* since the last pull, a receive round pulls again, unless the
\* communicator is stopped first.
PullFollowsSends ==
  \A k \in 0..MaxPushes :
    (since > MinSendGradNum /\ pulls = k) ~> (pulls > k \/ ~running)

\* Every gradient handed to Send is merged and sent, unless the
\* communicator is stopped first.
SentOrStopped ==
  \A v \in Vars, n \in 1..MaxPushes :
    (pushed[v] >= n) ~> (sent[v] >= n \/ ~running)

SentTotal == SumFunction(sent)

\* Once more than MinSendGradNum gradients of any vars were sent, the
\* parameters are pulled at least once, unless the communicator is stopped
\* first (the counter is meant to drive the receive cadence).
ParamsPulledAfterSends ==
  (SentTotal > MinSendGradNum /\ pulls = 0) ~> (pulls > 0 \/ ~running)

\* Once the communicator runs, a training thread blocked in queue->Push is
\* eventually released: the send loop keeps draining the queue it waits on.
ProducerReleased ==
  \A p \in Producers : (~Idle(p) /\ running) ~> Idle(p)

\* Stop returns: once running_ is cleared, the send thread (after its
\* round's tasks spend their wait budget) and the receive thread both
\* leave their loops, so both joins finish.
StopReturns == (main_pc = "join") ~> (main_pc = "stopped")

\* The destructor returns, whether the trainer called Stop before it (once
\* or twice) or not at all: it clears running_ itself, so the loops leave,
\* and it never joins a std::thread that Stop already joined (a throw in
\* the destructor terminates the process).
DestructorReturns == (main_pc = "dtor") ~> (main_pc = "destroyed")

-----------------------------------------------------------------------------
(* Refinement: AsyncCommunicator implements AsyncSendSpec.  A gradient is   *)
(* pending from the Push that queues it until the TaskSend of the batch a  *)
(* task popped it into; a pop moves it between the two and is a stutter.   *)

InBatch(v) == IF task[v].pc = "run" THEN task[v].merged ELSE 0

SendChannel == INSTANCE AsyncSendSpec
                 WITH pending <- [v \in Vars |-> queue[v] + InBatch(v)],
                      transmitted <- sent,
                      batches <- batches

\* Every behaviour of the communicator is one the abstract send channel
\* allows: no gradient is sent twice or lost from buffering, no merged
\* send is empty (MergeVars reads vars[0]) or larger than
\* max_merge_var_num, and buffering stays bounded.
ImplementsSendChannel == SendChannel!Spec
=============================================================================
