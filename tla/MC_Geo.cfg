CONSTANTS
  Trainers = {t1}
  DenseVars = {w}
  SparseVars = {emb}
  Sections <- MCSections
  TrainerNums = 1
  PushNums = 2
  WaitTimes = 1
  MaxSteps = 3
  MaxIds = 1
  InitValue = 0
SPECIFICATION Spec
INVARIANT TypeOK
INVARIANT DirtyRowsTracked
PROPERTY StopReturns
PROPERTY DestructorReturns
PROPERTY TrainerReleased
