SPECIFICATION ConsoleSpec
CONSTANTS
  ann = ann
  bob = bob
  q1 = q1
  q2 = q2
  Identity = {ann, bob}
  Request = {q1, q2}
  MaxGrants = 4
  Allowlist = {ann}
  TokenSet = FALSE
  k1 = k1
  k2 = k2
  v1 = v1
  v2 = v2
  Kid = {k1, k2}
  Visit = {v1, v2}
  MaxKeyFaults = 1
  MaxLines = 6
  WindowDays = 5
  MinDaily = 2
  SpikeMultiple = 2
  MinHistoryDays = 3
  MaxDaily = 4
  MaxId = 3
  MaxStamp = 2
  DefaultPage = 1
  MaxPage = 2
  SqlLimit = 4
  t1 = t1
  t2 = t2
  c1 = c1
  Tab = {t1, t2}
  Call = {c1}
  MaxIssued = 3
  MaxSessionFaults = 1
  shop = shop
  d1 = d1
  d2 = d2
  e1 = e1
  e2 = e2
  s1 = s1
  Account = {shop}
  Domain = {d1, d2}
  Editor = {e1, e2}
  Submission = {s1}
  MaxListed = 2
  MaxKeys = 2
  MaxBindings = 3
INVARIANTS
  ConsoleTypeOK
  SpentIsReplaced
  HistoryChains
  MailsAreExplained
  BurstsHideNothing
  EveryRowOnce
  AllowlistStaysClosed
  PublishedKeyIsAccepted
  EachByItsOwnBlock
PROPERTIES
  AnAdminRemains
  EveryRequestIsAnswered
CHECK_DEADLOCK FALSE
