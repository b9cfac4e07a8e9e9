SPECIFICATION ServiceSpec
CONSTANTS
  m1 = m1
  m2 = m2
  c1 = c1
  c2 = c2
  t1 = t1
  t2 = t2
  Msg = {m1, m2}
  Worker = {w1}
  Nobody = Nobody
  Batch = 1
  ClaimTimeout = 0
  Schedule <- MCSchedule1
  Overrun = FALSE
  MaxFaults = 0
  Caller = {c1, c2}
  Tenant = {t1, t2}
  Everyone = Everyone
  Key = {k1}
  Address = {a1}
  MaxEntries = 2
SYMMETRY MCSymmetry
INVARIANTS
  OneMessagePerKey
  AnswersAgree
  SuppressedIsExplained
PROPERTIES
  QueueIsQueue
