\* Independent mode: sends counted during a receive round are lost.
CONSTANTS
  Producers = {p1, p2}
  Vars = {a, b}
  FirstVar = a
  SparseVars = {b}
  MergeSparseGrad = TRUE
  IndependentRecvThread = TRUE
  QueueSize = 1
  MaxMergeVarNum = 2
  SendWaitTimes = 1
  MinSendGradNum = 1
  MaxSends = 4
SPECIFICATION Spec
PROPERTIES PullFollowsSends
