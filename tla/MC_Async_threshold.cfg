\* Shared mode against the spec's receive threshold.
CONSTANTS
  Producers = {p1, p2}
  Vars = {a, b}
  FirstVar = a
  SparseVars = {b}
  MergeSparseGrad = TRUE
  IndependentRecvThread = FALSE
  QueueSize = 1
  MaxMergeVarNum = 2
  SendWaitTimes = 1
  MinSendGradNum = 1
  MaxSends = 4
SPECIFICATION Spec
PROPERTIES RecvOnlyAfterThreshold
