CONSTANTS
  Evaluator = {scheduler}
  Resumer = {t1}
  Path = {1, 2, 3}
  DefaultPath = 3
  Stats <- MCStats
  Nets <- MCNets
  MinRuns = 1
  MaxRuns = 4
  MaxWaiting = 1
  MaxActions = 2
SPECIFICATION Spec
PROPERTY NoRunWhilePaused
