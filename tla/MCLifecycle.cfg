SPECIFICATION LifecycleSpec
CONSTANTS
  m1 = m1
  m2 = m2
  t1 = t1
  t2 = t2
  Msg = {m1, m2}
  Worker = {w1}
  Nobody = Nobody
  Batch = 1
  ClaimTimeout = 0
  Schedule <- MCSchedule1
  Overrun = FALSE
  MaxFaults = 1
  Caller = {c1}
  Tenant = {t1, t2}
  Everyone = Everyone
  Key = {k1}
  Address = {a1}
  MaxEntries = 2
  Post = {p1}
  Grace = 0
  MaxLag = 0
  Notification <- MCNotification
  MaxCopies = 2
  MaxReportFaults = 1
SYMMETRY MCSymmetry
CONSTRAINT MCBound
INVARIANTS
  NoMailToKnownDead
PROPERTIES
  ReportsUnderneath
CHECK_DEADLOCK FALSE
