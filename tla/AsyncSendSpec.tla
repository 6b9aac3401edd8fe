---------------------------- MODULE AsyncSendSpec ----------------------------
(***************************************************************************)
(* What the async strategy promises about gradients (spec 4.2 and 5):     *)
(* Send either transmits a gradient at once (a SelectedRows gradient when  *)
(* sparse merging is off) or accepts it into bounded buffering for its     *)
(* var; buffered gradients leave in merged batches, each of at least one   *)
(* and at most MaxMergeVarNum gradients of one var.  At most QueueSize     *)
(* gradients wait in the queue and MaxMergeVarNum more in a batch being    *)
(* assembled.  Gradients are counted; which one goes in which batch is     *)
(* left open.                                                              *)
(***************************************************************************)
EXTENDS Naturals

CONSTANTS Vars, QueueSize, MaxMergeVarNum

VARIABLES
  pending,      \* per var: gradients accepted and not yet transmitted
  transmitted,  \* per var: gradients the server was sent
  batches       \* per var: merged sends of buffered gradients

vars == <<pending, transmitted, batches>>

Capacity == QueueSize + MaxMergeVarNum

Init ==
  /\ pending = [v \in Vars |-> 0]
  /\ transmitted = [v \in Vars |-> 0]
  /\ batches = [v \in Vars |-> 0]

Accept(v) ==
  /\ pending[v] < Capacity
  /\ pending' = [pending EXCEPT ![v] = @ + 1]
  /\ UNCHANGED <<transmitted, batches>>

TransmitNow(v) ==
  /\ transmitted' = [transmitted EXCEPT ![v] = @ + 1]
  /\ UNCHANGED <<pending, batches>>

\* One merged send: a non-empty batch, no larger than the merge limit.
TransmitBatch(v, n) ==
  /\ n \in 1..MaxMergeVarNum
  /\ n =< pending[v]
  /\ pending' = [pending EXCEPT ![v] = @ - n]
  /\ transmitted' = [transmitted EXCEPT ![v] = @ + n]
  /\ batches' = [batches EXCEPT ![v] = @ + 1]

Next ==
  \E v \in Vars :
    \/ Accept(v)
    \/ TransmitNow(v)
    \/ \E n \in 1..MaxMergeVarNum : TransmitBatch(v, n)

Spec == Init /\ [][Next]_vars
=============================================================================
