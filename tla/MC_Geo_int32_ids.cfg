CONSTANTS
  Trainers = {t1}
  DenseVars = {}
  SparseVars = {emb}
  Sections <- MCSections
  TrainerNums = 1
  PushNums = 1
  WaitTimes = 1
  MaxSteps = 1
  MaxIds = 2
  InitValue = 0
SPECIFICATION Spec
INVARIANT DirtyRowsTracked
