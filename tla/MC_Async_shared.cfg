\* Shared mode: the send thread receives after each round.  Both vars go
\* through queues; one gradient slot per queue so producers block.
CONSTANTS
  Producers = {p1, p2}
  Vars = {a, b}
  FirstVar = a
  SparseVars = {b}
  MergeSparseGrad = TRUE
  IndependentRecvThread = FALSE
  QueueSize = 1
  MaxMergeVarNum = 2
  SendWaitTimes = 1
  MinSendGradNum = 1
  MaxSends = 4
SPECIFICATION Spec
INVARIANTS TypeOK SendsSinceLastPullCounted
PROPERTIES PullFollowsSends SentOrStopped ParamsPulledAfterSends ProducerReleased ImplementsSendChannel
