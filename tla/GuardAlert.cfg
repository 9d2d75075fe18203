CONSTANTS
  Evaluator = {scheduler}
  Resumer = {t1}
  Path = {1, 2, 3}
  DefaultPath = 3
  Stats <- MCStats
  Nets <- MCNets
  MinRuns = 1
  MaxRuns = 2
  MaxWaiting = 0
  MaxActions = 2
SPECIFICATION Spec
PROPERTY PauseIsAlerted
