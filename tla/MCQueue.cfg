SPECIFICATION Spec
CONSTANTS
  m1 = m1
  m2 = m2
  w1 = w1
  w2 = w2
  w3 = w3
  Msg = {m1, m2}
  Worker = {w1, w2}
  Nobody = Nobody
  Batch = 2
  ClaimTimeout = 1
  Schedule <- MCSchedule3
  Overrun = FALSE
  MaxFaults = 2
SYMMETRY MCSymmetry
INVARIANTS
  DisjointBatches
  AttemptsMatchLog
PROPERTIES
  KeepsPromise
