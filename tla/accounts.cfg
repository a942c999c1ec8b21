SPECIFICATION Spec
CONSTANTS
  sav = sav
  cur = cur
  fd = fd
  NoAccount = NoAccount
  Account = {sav, fd}
  Thread = {t1, t2}
  Kind <- MCKind
  Opening <- MCOpening
  Rate <- MCRate
  RateUnit = 6
  PenaltyUnit = 3
  MinBalance <- MCMinBalance
  DailyLimit <- MCDailyLimit
  Amounts = {1, 2}
  DayLength = 2
  UtcOffset = 0
  MaxClock = 4
  MaxRequests = 4
SYMMETRY ThreadSymmetry
INVARIANTS
  TypeOK
  BooksBalance
  CounterTracksSpending
  DailyLimitKept
PROPERTY
  ImplementsLedger
