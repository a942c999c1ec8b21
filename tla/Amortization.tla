---------------------------- MODULE Amortization ----------------------------
(***************************************************************************)
(* calculate_emi and calculate_amortization_schedule (utils/interest_calc):*)
(* the loop that splits every installment of a loan into interest and      *)
(* principal, one month a step.  Rates are fractions num/den a month; the  *)
(* code's floats give the same paise (int() truncates the product, ceil()  *)
(* rounds the EMI up).                                                     *)
(***************************************************************************)
EXTENDS Integers

CONSTANT
  Cases           \* the calls: principal p, monthly rate num/den, tenure n
                  \*   and the emi that calculate_emi returned for them

ASSUME CasesAssumption ==
  Cases \subseteq [p : Nat \ {0}, num : Nat, den : Nat \ {0}, n : Nat \ {0},
                   emi : Nat]

VARIABLES
  case,           \* the call that is served
  i,              \* the months that are in the schedule
  balance,        \* what is still owed after them
  repaid,         \* the sum of their principal components
  last            \* the last entry: its amount and principal component

vars == <<case, i, balance, repaid, last>>

-----------------------------------------------------------------------------
\* calculate_emi

CeilDiv(a, b) == (a + b - 1) \div b

Power(base, exponent) ==
  LET pow[k \in 0 .. exponent] == IF k = 0 THEN 1 ELSE base * pow[k - 1]
  IN pow[exponent]

\* Mutant of Emi: the installment is rounded down.
EmiRoundedDown(p, num, den, n) ==
  IF num = 0 THEN p \div n
  ELSE LET grown == Power(den + num, n)
           flat == Power(den, n)
       IN (p * num * grown) \div (den * (grown - flat))

\* P * r * (1+r)^n / ((1+r)^n - 1), rounded up, with r = num / den.
Emi(p, num, den, n) ==
  IF num = 0 THEN CeilDiv(p, n)
  ELSE LET grown == Power(den + num, n)
           flat == Power(den, n)
       IN CeilDiv(p * num * grown, den * (grown - flat))

-----------------------------------------------------------------------------
\* calculate_amortization_schedule

Init ==
  /\ case \in Cases
  /\ i = 0
  /\ balance = case.p
  /\ repaid = 0
  /\ last = [amount |-> 0, principal |-> 0]

\* Mutants of the two operators below: interest is rounded up, and a balance
\* that was paid more than once stays negative.
InterestRoundedUp == CeilDiv(balance * case.num, case.den)

NotClamped(b, principal) == b - principal

\* interest_component
MonthInterest == (balance * case.num) \div case.den

\* balance_after_paise: what is left, and 0 when more was taken.
Remaining(b, principal) == IF b < principal THEN 0 ELSE b - principal

\* Mutant of Installment: the whole installment is taken off the balance.
InstallmentOffBalance ==
  /\ i + 1 < case.n
  /\ last' = [amount |-> case.emi, principal |-> case.emi - MonthInterest]
  /\ balance' = Remaining(balance, case.emi)
  /\ repaid' = repaid + case.emi - MonthInterest
  /\ i' = i + 1
  /\ UNCHANGED case

\* An installment of emi; the last one clears what is left instead.
Installment ==
  LET principal == case.emi - MonthInterest
  IN /\ i + 1 < case.n
     /\ last' = [amount |-> case.emi, principal |-> principal]
     /\ balance' = Remaining(balance, principal)
     /\ repaid' = repaid + principal
     /\ i' = i + 1
     /\ UNCHANGED case

LastInstallment ==
  /\ i + 1 = case.n
  /\ last' = [amount |-> balance + MonthInterest, principal |-> balance]
  /\ balance' = 0
  /\ repaid' = repaid + balance
  /\ i' = i + 1
  /\ UNCHANGED case

\* The schedule is returned.
Returned == i = case.n /\ UNCHANGED vars

Next == Installment \/ LastInstallment \/ Returned

Spec == Init /\ [][Next]_vars

-----------------------------------------------------------------------------
\* Properties.

\* Every variable keeps its type, and no more is owed than was lent.
TypeOK ==
  /\ case \in Cases
  /\ i \in 0 .. case.n
  /\ balance \in 0 .. case.p
  /\ repaid \in Int
  /\ last \in [amount : Int, principal : Int]

\* The agreed installment is more than the interest on the whole principal,
\* whatever the roundings.
EmiCovers(c) == c.p * c.num < c.emi * c.den

EmiCoversInterest == EmiCovers(case)

\* No month leaves the borrower owing as much as before: until the debt is
\* gone an installment is more than the month's interest.
DebtFalls ==
  [][balance > 0 => balance' < balance]_vars

\* "Always round up to avoid underpayment" (interest_calc.py:68): the roundings
\* of all the months never leave a last installment above the agreed one.
LastNotOverEmi == i = case.n => last.amount <= case.emi

\* Nothing is forgiven: at the end the debt is gone, and the principal parts of
\* the installments make up at least what was lent, whatever was clamped.
RepaidInFull == i = case.n => balance = 0 /\ repaid >= case.p

\* "Principal components should sum close to original principal" within 100
\* paise (tests/test_loans.py:254).
PrincipalsSumUp == i = case.n => repaid - case.p <= 100 /\ case.p - repaid <= 100
=============================================================================
