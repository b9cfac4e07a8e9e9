SPECIFICATION FairSpec
CONSTANTS
  m1 = m1
  m2 = m2
  w1 = w1
  w2 = w2
  w3 = w3
  Msg = {m1}
  Worker = {w1, w2, w3}
  Nobody = Nobody
  Batch = 1
  ClaimTimeout = 1
  Schedule <- MCSchedule2
  Overrun = TRUE
  MaxFaults = 1
INVARIANTS
  AttemptsWithinSchedule
  StatusHasEvidence
  RetryableHasBody
PROPERTIES
  EveryMessageSettles
