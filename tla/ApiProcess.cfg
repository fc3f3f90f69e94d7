SPECIFICATION ApiSpec
CONSTANTS
  Sessions = {s1}
  Reads = {r1, r2}
  Logouts = {l1}
  TTL = 1
  Retention = 1
  MaxTime = 2
  MaxFaults = 1
  None = none
  c1 = c1 c2 = c2 c3 = c3 x1 = x1 x2 = x2
  p1 = p1 p2 = p2 p3 = p3 m1 = m1 m2 = m2 y1 = y1 y2 = y2
  Clients = {c1, c2, c3}
  Digests = {x1, x2}
  DigestOf <- MCDigestOf
  Limit <- MCLimit
  RateWindow = 2
  MaxKeys = 2
  BypassLife = 2
  MaxClock = 3
  MaxOverrun = 1
  Boots = {p1, p2, p3}
  Models = {m1, m2}
  Prices = {y1, y2}
  ConfigOf <- MCConfigOf
  MaxBootFaults = 3
  Candidates = 2
  RateRetries = 1
  FaultRetries = 1
  RereadLimit = 1
  MaxRunFaults = 5
  l1 = l1 l2 = l2
  AyahCount <- MCAyahCount
  Stored <- MCStored
  LabelRows <- MCLabelRows
  SubQueries = 2
  CallerQuery = 1
  HitLimit = 1
  ScopeCap = 2
  LabelCap = 1
  NeighbourCap = 1
  Radius = 1
  ChainsOf <- MCChainsOf
  ChildCap = 1
  ChainCap = 1
  CallerK = 1
  d1 = d1 d2 = d2 d3 = d3 d4 = d4
  Versions <- MCVersions
  VersesOf <- MCVerses
  Contexts <- MCContexts
  Texts <- MCTexts
  ReadBound = 1
  RowBound = 1
  MaxRowWrites = 1
  e1 = e1 e2 = e2 e3 = e3
  Labels = {e1, e2, e3}
  TypeOf <- MCTypeOf
  IdentityOf <- MCIdentityOf
  Fixtures <- MCFixtures
  HeldOuts <- MCHeldOuts
  RequiredTags <- MCTags
  Sizes = {2, 3}
  RetryBudget = 1
  CostCap = 1
CHECK_DEADLOCK FALSE
INVARIANTS ApiTypeOK SignedOutIsDead ServedIsLogged LimitIsMeant MirrorReportsHold TraceTellsTheRun AssertionsAreVetted SearchesAreReconstructible ContextTellsItsCuts CitationsAreHonest GreenIsEarned LedgerAgreesWithReport
PROPERTIES SignedOutReadsNothing RetentionIsKept BootsToServe
