SPECIFICATION Spec
CONSTANT Cases <- SmallCases
INVARIANTS
  TypeOK
  EmiCoversInterest
  LastNotOverEmi
  RepaidInFull
PROPERTY
  DebtFalls
