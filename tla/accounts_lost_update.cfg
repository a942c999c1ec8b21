SPECIFICATION Spec
CONSTANTS
  sav = sav
  cur = cur
  fd = fd
  NoAccount = NoAccount
  Account = {sav, fd}
  Thread = {t1, t2}
  Kind <- MCKind
  Opening <- MCOpening
  Rate <- MCRate
  RateUnit = 6
  PenaltyUnit = 3
  MinBalance <- MCMinBalance
  DailyLimit <- MCDailyLimit
  Amounts = {1}
  DayLength = 1
  UtcOffset = 0
  MaxClock = 0
  MaxRequests = 2
INVARIANTS
  NoPostingLost
