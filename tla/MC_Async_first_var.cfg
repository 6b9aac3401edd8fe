\* The first var of send_varname_to_queue_ is SelectedRows and, with
\* merge_sparse_grad off, sent by the caller instead of being queued.
CONSTANTS
  Producers = {p1, p2}
  Vars = {a, b}
  FirstVar = b
  SparseVars = {b}
  MergeSparseGrad = FALSE
  IndependentRecvThread = FALSE
  QueueSize = 1
  MaxMergeVarNum = 2
  SendWaitTimes = 1
  MinSendGradNum = 1
  MaxSends = 4
SPECIFICATION Spec
PROPERTIES ParamsPulledAfterSends
