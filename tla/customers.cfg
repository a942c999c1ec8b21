SPECIFICATION Spec
CONSTANTS
  NoCustomer = NoCustomer
  User = {u1, u2}
  NoUser = NoUser
  Customer = {c1, c2}
  NationalId = {n1, n2}
  Email = {e1, e2}
  Account = {a1}
  Loan = {l1}
  Thread = {t1, t2}
  MaxRequests = 6
SYMMETRY Symmetric
INVARIANTS
  TypeOK
  OneRowPerPerson
  NoOrphans
  TrailExplainsKyc
PROPERTIES
  TrailOnlyGrows
  VerifiedNotReverted
  OnlyVerifiedServed
