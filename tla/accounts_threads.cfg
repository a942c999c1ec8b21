SPECIFICATION ComplianceSpec
CONSTANTS
  sav = sav
  fd = fd
  NoAccount = NoAccount
  Account = {sav, fd}
  Thread = {t1, t2}
  Kind <- MCKind
  Opening <- MCOpening
  Rate <- MCRate
  RateUnit = 6
  PenaltyUnit = 3
  MinBalance <- MCMinBalance
  DailyLimit <- MCDailyLimit
  Amounts = {1, 3, 5}
  DayLength = 1
  UtcOffset = 0
  MaxClock = 1
  MaxRequests = 3
  AmlThreshold = 4
  CtrThreshold = 3
  Reviewer = {u1, u2}
  Notes = {n1, NoNotes}
  NoNotes = NoNotes
  Null = Null
  MaxReviews = 3
SYMMETRY Symmetry
INVARIANTS
  ComplianceTypeOK
  FloorsKept
  LimitsShadowThresholds
  ReviewsWhole
