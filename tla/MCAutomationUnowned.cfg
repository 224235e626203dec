SPECIFICATION Spec
CONSTANTS
  w1 = w1
  w2 = w2
  NoWorker = NoWorker
  Workers = {w1, w2}
  MaxTime = 2
  Limits = {0}
  MaxEdits = 0
  MaxFaults = 1
SYMMETRY WorkerSymmetry
INVARIANT ClosedIsUnowned
CHECK_DEADLOCK FALSE
