CONSTANTS
  Evaluator = {scheduler}
  Resumer = {t1}
  Path = {1, 2, 3}
  DefaultPath = 3
  Stats <- MCStats
  Nets <- MCNets
  MinRuns = 2
  MaxRuns = 4
  MaxWaiting = 1
  MaxActions = 3
SPECIFICATION Spec
INVARIANTS
  TypeOK
  PauseJudgesNewRuns
  LogTellsState
