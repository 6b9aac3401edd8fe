\* Three steps with rampup at step 1: step 0 takes the dense fallback,
\* steps 1 and 2 the encoded all-gather.  Three ranks over two processes.
CONSTANTS
  p1 = p1
  p2 = p2
  g0 = g0
  g1 = g1
  g2 = g2
  Procs <- MCProcs
  Places <- MCPlaces
  Steps = 3
  RampupBeginStep = 1
  IsEncodedFlag = TRUE
  SyncNcclAllReduce = TRUE
SPECIFICATION Spec
INVARIANT TypeOK
INVARIANT ReducedFromOneStep
INVARIANT KernelsUseLiveBuffers
PROPERTY AllReduceCompletes
