SPECIFICATION Spec
CONSTANTS
  acc = acc
  NoLoan = NoLoan
  Loan = {l1}
  Account = {acc}
  Thread = {t1, t2}
  Linked <- MCLinked
  Principal = 4
  Tenure = 2
  Schedule <- ScheduleOfTwo
  MinBalance = 1
  Opening = 2
  MaxBalance = 2
  MaxRequests = 4
INVARIANTS
  DisbursedOnce
