SPECIFICATION JudgingOnly
CONSTANTS
  p1 = p1
  p2 = p2
  r1 = r1
  r2 = r2
  c1 = c1
  c2 = c2
  d1 = d1
  d2 = d2
  j1 = j1
  j2 = j2
  j3 = j3
  Poller = {p1, p2}
  MaxMail = 2
  Report = {r1, r2}
  Garbled = Garbled
  Other = Other
  Carries <- MCCarries
  PollBatch = 1
  MaxPollFaults = 1
  Checker = {c1, c2}
  Subject = {d1}
  Records = 2
  Recheck = 0
  Revalidate = 1
  MaxChanges = 3
  MaxCheckFaults = 1
  Job = {j1, j2, j3}
  JobBatch = 1
  MaxWakeFaults = 1
  MaxAnswer = 2
  MaxRecords = 4
  DmarcTags <- MCDmarcTags
INVARIANTS
  DownwardDriftIsSeen
CHECK_DEADLOCK FALSE
