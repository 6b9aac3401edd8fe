\* Independent mode: RecvThread receives once grad_num_ passes the
\* threshold; b is SelectedRows and sent by the caller (merge_sparse_grad off).
CONSTANTS
  Producers = {p1, p2}
  Vars = {a, b}
  FirstVar = a
  SparseVars = {b}
  MergeSparseGrad = FALSE
  IndependentRecvThread = TRUE
  QueueSize = 1
  MaxMergeVarNum = 3
  SendWaitTimes = 1
  MinSendGradNum = 1
  MaxSends = 4
SPECIFICATION Spec

PROPERTIES RecvOnlyAfterThreshold SentOrStopped StopReturns ImplementsSendChannel DestructorReturns
