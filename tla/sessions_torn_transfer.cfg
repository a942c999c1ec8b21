SPECIFICATION Spec
CONSTANTS
  Request = {r1, r2}
  Account <- MCAccount
  Loan <- MCLoan
  Deployment <- Sqlite
INVARIANT
  AnsweredTransfersWhole
