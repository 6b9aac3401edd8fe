CONSTANTS
  Trainers = {t1}
  DenseVars = {}
  SparseVars = {emb}
  Sections <- MCSections1
  TrainerNums = 1
  PushNums = 1
  WaitTimes = 1
  MaxSteps = 2
  MaxIds = 1
  InitValue = 0
SPECIFICATION Spec
INVARIANT SparseOldIsPulledValue
