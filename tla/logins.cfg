SPECIFICATION Spec
CONSTANTS
  NoUser = NoUser
  User = {u1, u2}
  Thread = {t1, t2}
  MaxAttempts = 2
  Lockout = 2
  TokenLife = 1
  MaxClock = 4
  MaxRequests = 5
SYMMETRY Symmetry
INVARIANTS
  TypeOK
  FewRecentFailures
PROPERTIES
  RefusedForFailures
  LockLasts
  LockedOut
