SPECIFICATION Spec
CONSTANTS
  NoCustomer = NoCustomer
  User = {u1, u2}
  NoUser = NoUser
  Customer = {c1}
  NationalId = {n1}
  Email = {e1}
  Account = {a1}
  Loan = {l1}
  Thread = {t1}
  MaxRequests = 3
PROPERTY
  AuditImmutable
