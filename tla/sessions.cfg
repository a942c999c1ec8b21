SPECIFICATION FairSpec
CONSTANTS
  Request = {r1, r2, r3}
  Account <- MCAccount
  Loan <- MCLoan
  Deployment <- All
INVARIANTS
  TypeOK
  AllOrNothing
  CirclesHaveABatch
  StallsTimeOut
PROPERTY
  EveryRequestAnswered
