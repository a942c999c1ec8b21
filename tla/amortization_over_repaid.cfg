SPECIFICATION Spec
CONSTANT Cases <- RealCase
INVARIANTS
  PrincipalsSumUp
