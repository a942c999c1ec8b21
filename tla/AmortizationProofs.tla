------------------------- MODULE AmortizationProofs -------------------------
(***************************************************************************)
(* Theorems about Amortization, for any principals, rates and tenures:     *)
(* the installment of calculate_emi pays a loan off, so that the balance   *)
(* falls in every month, nothing is forgiven, and the last installment is  *)
(* not above the agreed one, whatever the roundings.                       *)
(***************************************************************************)
EXTENDS Amortization, WellFoundedInduction, TLAPS

-----------------------------------------------------------------------------
\* Arithmetic on products and quotients.

LEMMA Monotone ==
  ASSUME NEW a \in Int, NEW b \in Int, NEW k \in Nat, a <= b
  PROVE  a * k <= b * k
<1>1. (b - a) * k >= 0
  BY SMT
<1>2. (b - a) * k = b * k - a * k
  BY SMT
<1> QED BY <1>1, <1>2, SMT

LEMMA Cancel ==
  ASSUME NEW a \in Int, NEW b \in Int, NEW k \in Nat \ {0}, a * k <= b * k
  PROVE  a <= b
<1> SUFFICES ASSUME a >= b + 1 PROVE FALSE
  OBVIOUS
<1>1. (b + 1) * k <= a * k
  BY Monotone
<1>2. (b + 1) * k = b * k + k
  BY SMT
<1>3. a * k \in Int /\ b * k \in Int
  BY SMT
<1> QED BY <1>1, <1>2, <1>3, SMT

LEMMA NatProduct ==
  ASSUME NEW a \in Nat, NEW b \in Nat
  PROVE  a * b \in Nat /\ (a > 0 /\ b > 0 => a * b > 0)
BY SMT

LEMMA Quotient ==
  ASSUME NEW a \in Nat, NEW d \in Nat \ {0}
  PROVE  a \div d \in Nat /\ (a \div d) * d <= a /\ a < (a \div d + 1) * d
<1> DEFINE q == a \div d
           r == a % d
<1>1. q \in Int /\ r \in 0 .. d - 1 /\ a = d * q + r
  BY SMT
<1> HIDE DEF q, r
<1>2. q >= 0
  <2> SUFFICES ASSUME q + 1 <= 0 PROVE FALSE
    BY <1>1
  <2>1. (q + 1) * d <= 0 * d
    BY <1>1, Monotone
  <2>2. (q + 1) * d = d * q + d /\ 0 * d = 0
    BY <1>1, SMT
  <2> QED BY <1>1, <2>1, <2>2, SMT
<1>3. q * d = d * q /\ (q + 1) * d = d * q + d
  BY <1>1, SMT
<1>4. d * q \in Int
  BY <1>1, SMT
<1> QED BY <1>1, <1>2, <1>3, <1>4, SMT DEF q

\* A quotient is below any bound whose product with the divisor is above the
\* dividend.
LEMMA QuotientBounded ==
  ASSUME NEW a \in Nat, NEW d \in Nat \ {0}, NEW m \in Int, a < m * d
  PROVE  a \div d < m /\ a \div d >= 0
<1>1. a \div d \in Nat /\ (a \div d) * d <= a
  BY Quotient
<1> DEFINE q == a \div d
<1>2. q \in Nat /\ q * d <= a
  BY <1>1
<1> HIDE DEF q
<1> SUFFICES ASSUME m <= q PROVE FALSE
  BY <1>2 DEF q
<1>3. m * d <= q * d
  BY <1>2, Monotone
<1>4. m * d \in Int /\ q * d \in Int
  BY <1>2, SMT
<1> QED BY <1>2, <1>3, <1>4

LEMMA CeilDivCovers ==
  ASSUME NEW a \in Nat, NEW d \in Nat \ {0}
  PROVE  CeilDiv(a, d) \in Nat /\ a <= CeilDiv(a, d) * d
<1> DEFINE q == (a + d - 1) \div d
<1>1. a + d - 1 \in Nat
  BY SMT
<1>2. q \in Nat /\ a + d - 1 < (q + 1) * d
  BY <1>1, Quotient
<1> HIDE DEF q
<1>3. (q + 1) * d = q * d + d /\ q * d \in Int
  BY <1>2, SMT
<1>4. a <= q * d
  BY <1>2, <1>3, SMT
<1> QED BY <1>2, <1>4 DEF CeilDiv, q

-----------------------------------------------------------------------------
\* Induction, on the set of the numbers that a statement holds for, and what
\* it gives about Power.

LEMMA SetInduction ==
  ASSUME NEW T, 0 \in T, \A n \in Nat : n \in T => n + 1 \in T
  PROVE  Nat \subseteq T
<1> DEFINE Less == {s \in Nat \X Nat : s[1] < s[2]}
           Rest == Nat \ T
<1> SUFFICES ASSUME Rest # {} PROVE FALSE
  OBVIOUS
<1>1. IsWellFoundedOn(Less, Nat)
  BY NatLessThanWellFounded DEF OpToRel
<1>2. \A m, n \in Nat : m < n => <<m, n>> \in Less
  OBVIOUS
<1>3. Rest \subseteq Nat
  OBVIOUS
<1>4. PICK n \in Rest : \A m \in Rest : <<m, n>> \notin Less
  <2> HIDE DEF Less, Rest
  <2> QED BY <1>1, <1>3, WFMin, Zenon
<1>5. n \in Nat /\ n # 0
  OBVIOUS
<1>6. n - 1 \in Nat /\ n - 1 < n /\ (n - 1) + 1 = n
  BY <1>5
<1>7. n - 1 \notin Rest
  BY <1>2, <1>4, <1>5, <1>6
<1> QED BY <1>4, <1>6, <1>7

\* g holds the powers of b up to the n-th.
PowersTo(g, b, n) == g = [k \in 0 .. n |-> IF k = 0 THEN 1 ELSE b * g[k - 1]]

LEMMA PowersExist ==
  ASSUME NEW b, NEW n \in Nat
  PROVE  \E g : PowersTo(g, b, n)
<1> DEFINE T == {m \in Nat : \E g : PowersTo(g, b, m)}
<1>1. 0 \in T
  <2> DEFINE g == [k \in 0 .. 0 |-> 1]
  <2>1. PowersTo(g, b, 0)
    BY DEF PowersTo
  <2> QED BY <2>1
<1>2. ASSUME NEW m \in Nat, m \in T PROVE m + 1 \in T
  <2>1. PICK g : PowersTo(g, b, m)
    BY <1>2
  <2> DEFINE h == [k \in 0 .. m + 1 |-> IF k = 0 THEN 1 ELSE b * g[k - 1]]
  <2>2. \A k \in 0 .. m : h[k] = g[k]
    BY <2>1 DEF PowersTo
  <2>3. \A k \in 0 .. m + 1 : k # 0 => k - 1 \in 0 .. m
    OBVIOUS
  <2>4. \A k \in 0 .. m + 1 : h[k] = IF k = 0 THEN 1 ELSE b * h[k - 1]
    BY <2>2, <2>3
  <2>5. PowersTo(h, b, m + 1)
    <3>1. h = [k \in 0 .. m + 1 |-> h[k]]
      OBVIOUS
    <3> HIDE DEF h
    <3> QED BY <2>4, <3>1, Zenon DEF PowersTo
  <2> HIDE DEF h
  <2> QED BY <2>5
<1> QED BY <1>1, <1>2, SetInduction

LEMMA PowersAgree ==
  ASSUME NEW b \in Nat, NEW n \in Nat, NEW m \in Nat, NEW g, NEW h,
         PowersTo(g, b, n), PowersTo(h, b, m)
  PROVE  \A k \in Nat : k <= n /\ k <= m => g[k] = h[k] /\ g[k] \in Nat
<1> DEFINE T == {k \in Nat : k <= n /\ k <= m => g[k] = h[k] /\ g[k] \in Nat}
<1>1. 0 \in T
  BY DEF PowersTo
<1>2. ASSUME NEW k \in Nat, k \in T PROVE k + 1 \in T
  <2> SUFFICES ASSUME k + 1 <= n, k + 1 <= m
               PROVE  g[k + 1] = h[k + 1] /\ g[k + 1] \in Nat
    OBVIOUS
  <2>1. g[k] = h[k] /\ g[k] \in Nat
    BY <1>2
  <2>2. k + 1 \in 0 .. n /\ k + 1 \in 0 .. m /\ k + 1 # 0 /\ (k + 1) - 1 = k
    OBVIOUS
  <2>3. g[k + 1] = b * g[k] /\ h[k + 1] = b * h[k]
    BY <2>2 DEF PowersTo
  <2> QED BY <2>1, <2>3, NatProduct
<1> QED BY <1>1, <1>2, SetInduction

\* Power computes what its name says.
LEMMA PowerRecursion ==
  ASSUME NEW b \in Nat
  PROVE  /\ Power(b, 0) = 1
         /\ \A n \in Nat : Power(b, n) \in Nat /\ Power(b, n + 1) = b * Power(b, n)
<1> DEFINE pow(n) == CHOOSE g : PowersTo(g, b, n)
<1>1. ASSUME NEW n \in Nat PROVE PowersTo(pow(n), b, n)
  BY PowersExist, Zenon
<1>2. ASSUME NEW n \in Nat PROVE Power(b, n) = pow(n)[n]
  BY DEF Power, PowersTo
<1> HIDE DEF pow
<1>3. Power(b, 0) = 1
  BY <1>1, <1>2 DEF PowersTo
<1>4. ASSUME NEW n \in Nat
      PROVE  Power(b, n) \in Nat /\ Power(b, n + 1) = b * Power(b, n)
  <2>1. PowersTo(pow(n), b, n) /\ PowersTo(pow(n + 1), b, n + 1)
    BY <1>1
  <2>2. pow(n)[n] = pow(n + 1)[n] /\ pow(n)[n] \in Nat
    BY <2>1, PowersAgree
  <2>3. pow(n + 1)[n + 1] = b * pow(n + 1)[n]
    <3>1. n + 1 \in 0 .. n + 1 /\ n + 1 # 0 /\ (n + 1) - 1 = n
      OBVIOUS
    <3> QED BY <2>1, <3>1 DEF PowersTo
  <2> QED BY <1>2, <2>2, <2>3
<1> QED BY <1>3, <1>4

\* Powers of different bases part.
LEMMA PowersPart ==
  ASSUME NEW b \in Nat \ {0}, NEW c \in Nat, b < c
  PROVE  \A n \in Nat : /\ Power(b, n) \in Nat \ {0} /\ Power(c, n) \in Nat \ {0}
                        /\ Power(b, n) <= Power(c, n)
                        /\ n > 0 => Power(b, n) < Power(c, n)
<1> DEFINE T == {n \in Nat : /\ Power(b, n) \in Nat \ {0} /\ Power(c, n) \in Nat \ {0}
                             /\ Power(b, n) <= Power(c, n)
                             /\ n > 0 => Power(b, n) < Power(c, n)}
<1>1. 0 \in T
  <2>1. Power(b, 0) = 1 /\ Power(c, 0) = 1
    BY PowerRecursion
  <2> QED BY <2>1
<1>2. ASSUME NEW n \in Nat, n \in T PROVE n + 1 \in T
  <2> DEFINE f == Power(b, n)
             g == Power(c, n)
  <2>1. f \in Nat \ {0} /\ g \in Nat \ {0} /\ f <= g
    BY <1>2
  <2>2. Power(b, n + 1) = b * f /\ Power(c, n + 1) = c * g
    BY PowerRecursion
  <2> HIDE DEF f, g
  <2>3. f * b <= g * b /\ g * (b + 1) <= g * c
    <3>1. (b + 1) * g <= c * g
      BY <2>1, Monotone
    <3>2. (b + 1) * g = g * (b + 1) /\ c * g = g * c
      BY <2>1, SMT
    <3> QED BY <2>1, <3>1, <3>2, Monotone
  <2>4. /\ g * (b + 1) = g * b + g /\ f * b = b * f /\ g * c = c * g
        /\ g * b \in Nat /\ f * b \in Nat /\ g * c \in Nat
    BY <2>1, SMT
  <2>5. b * f < c * g /\ b * f \in Nat \ {0} /\ c * g \in Nat \ {0}
    BY <2>1, <2>3, <2>4, NatProduct
  <2>6. n + 1 \in Nat
    OBVIOUS
  <2> QED BY <2>2, <2>5, <2>6
<1> QED BY <1>1, <1>2, SetInduction

-----------------------------------------------------------------------------
\* The installment that calculate_emi computes.

\* What p grows to at the rate num / den in n months is not more than what n
\* installments of e do.
PaidOffBy(p, num, den, n, e) ==
  IF num = 0 THEN p <= e * n
  ELSE p * num * Power(den + num, n) <= e * den * (Power(den + num, n) - Power(den, n))

LEMMA EmiPaysOff ==
  ASSUME NEW p \in Nat \ {0}, NEW num \in Nat, NEW den \in Nat \ {0}, NEW n \in Nat \ {0}
  PROVE  /\ Emi(p, num, den, n) \in Nat
         /\ PaidOffBy(p, num, den, n, Emi(p, num, den, n))
         /\ p * num < Emi(p, num, den, n) * den
<1> DEFINE e == Emi(p, num, den, n)
<1>1. CASE num = 0
  <2>1. e = CeilDiv(p, n)
    BY <1>1 DEF Emi
  <2>2. e \in Nat /\ p <= e * n
    BY <2>1, CeilDivCovers
  <2> HIDE DEF e
  <2>3. e # 0
    BY <2>2
  <2>4. e * den > 0 /\ p * num = 0
    BY <1>1, <2>2, <2>3, NatProduct
  <2> QED BY <1>1, <2>2, <2>4 DEF PaidOffBy, e
<1>2. CASE num # 0
  <2> DEFINE g == Power(den + num, n)
             f == Power(den, n)
  <2>1. f \in Nat \ {0} /\ g \in Nat \ {0} /\ f < g
    <3>1. den < den + num /\ den + num \in Nat /\ n > 0
      BY <1>2
    <3> QED BY <3>1, PowersPart
  <2>2. e = CeilDiv(p * num * g, den * (g - f))
    BY <1>2 DEF Emi
  <2> HIDE DEF e, f, g
  <2>3. /\ p * num \in Nat \ {0} /\ p * num * g \in Nat
        /\ g - f \in Nat \ {0} /\ den * (g - f) \in Nat \ {0}
    <3>1. p * num \in Nat \ {0} /\ g - f \in Nat \ {0}
      BY <1>2, <2>1, NatProduct
    <3> QED BY <2>1, <3>1, NatProduct
  <2>4. e \in Nat /\ p * num * g <= e * (den * (g - f))
    BY <2>2, <2>3, CeilDivCovers
  <2>5. e * (den * (g - f)) = e * den * (g - f)
    BY <2>1, <2>4, SMT
  <2>6. p * num < e * den
    <3> SUFFICES ASSUME e * den <= p * num PROVE FALSE
      BY <2>3, <2>4, SMT
    <3>1. e * den * (g - f) <= p * num * (g - f)
      BY <2>3, <2>4, Monotone, NatProduct
    <3>2. p * num * (g - f) = p * num * g - p * num * f /\ p * num * f > 0
      <4> DEFINE q == p * num
      <4>1. q \in Nat \ {0}
        BY <2>3
      <4> HIDE DEF q
      <4>2. q * (g - f) = q * g - q * f /\ q * f > 0
        BY <2>1, <4>1, SMT
      <4> QED BY <4>2 DEF q
    <3>3. p * num * f \in Int
      BY <2>1, <2>3, NatProduct
    <3> QED BY <2>3, <2>4, <2>5, <3>1, <3>2, <3>3
  <2> QED BY <1>2, <2>4, <2>5, <2>6 DEF PaidOffBy, e, f, g
<1> QED BY <1>1, <1>2

\* One month of a loan that e pays off leaves one that e pays off in the rest.
LEMMA PaidOffStep ==
  ASSUME NEW b \in Nat, NEW e \in Nat, NEW interest \in Nat,
         NEW num \in Nat \ {0}, NEW den \in Nat \ {0},
         NEW f \in Nat, NEW g \in Nat, f <= g,
         interest * den <= b * num,
         b * num * ((den + num) * g) <= e * den * ((den + num) * g - den * f)
  PROVE  Remaining(b, e - interest) * num * g <= e * den * (g - f)
<1> DEFINE r == Remaining(b, e - interest)
<1>1. e * den \in Nat /\ num * g \in Nat /\ g - f \in Nat
  BY NatProduct
<1>2. CASE b < e - interest
  <2>1. r = 0
    BY <1>2 DEF Remaining
  <2>2. r * num * g = 0
    BY <2>1, SMT
  <2>3. e * den * (g - f) \in Nat
    BY <1>1, NatProduct
  <2> QED BY <2>2, <2>3
<1>3. CASE ~(b < e - interest)
  <2> DEFINE x == b * (den + num) - e * den
             y == r * num * g
             z == e * den * (g - f)
  <2>1. r = b - e + interest /\ r \in Nat
    BY <1>3 DEF Remaining
  <2> HIDE DEF r
  <2>2. r * den <= x /\ r * den \in Int /\ x \in Int
    <3>1. r * den = b * den - e * den + interest * den
      BY <2>1, SMT
    <3>2. b * (den + num) = b * den + b * num
      BY SMT
    <3>3. b * den \in Int /\ b * num \in Int /\ interest * den \in Int
      BY NatProduct
    <3> QED BY <1>1, <3>1, <3>2, <3>3
  <2>3. (r * den) * (num * g) <= x * (num * g)
    BY <1>1, <2>2, Monotone
  <2>4. (r * den) * (num * g) = y * den
    BY <2>1, SMT
  <2>5. x * (num * g) = b * num * ((den + num) * g) - e * den * (num * g)
    BY SMT
  <2>6. e * den * ((den + num) * g - den * f) - e * den * (num * g) = z * den
    BY SMT
  <2>7. /\ b * num * ((den + num) * g) \in Int /\ e * den * (num * g) \in Int
        /\ e * den * ((den + num) * g - den * f) \in Int
    BY SMT
  <2>8. y \in Int /\ z \in Int
    BY <2>1, SMT
  <2> HIDE DEF x, y, z
  <2>9. y * den <= z * den
    BY <2>3, <2>4, <2>5, <2>6, <2>7, <2>8, SMT
  <2>10. y <= z
    BY <2>8, <2>9, Cancel
  <2> QED BY <2>10 DEF r, y, z
<1> QED BY <1>2, <1>3

-----------------------------------------------------------------------------
\* An installment that covers the interest on the whole principal repays some
\* of any balance up to the principal.
LEMMA InterestBelowEmi ==
  ASSUME TypeOK, \A c \in Cases : EmiCovers(c)
  PROVE  /\ MonthInterest \in Nat
         /\ case.emi \in Nat
         /\ MonthInterest < case.emi
<1>1. /\ case.p \in Nat /\ case.num \in Nat /\ case.den \in Nat \ {0}
      /\ case.emi \in Nat /\ case.n \in Nat
      /\ balance \in 0 .. case.p
  BY CasesAssumption DEF TypeOK
<1>2. case.p * case.num < case.emi * case.den
  BY DEF TypeOK, EmiCovers
<1>3. \A b, p, k \in Nat : b <= p => b * k <= p * k /\ b * k \in Nat
  BY SMT
<1>4. balance \in Nat /\ balance <= case.p
  BY <1>1
<1>5. balance * case.num <= case.p * case.num /\ balance * case.num \in Nat
  BY <1>1, <1>3, <1>4
<1>6. /\ case.p * case.num \in Int /\ case.emi * case.den \in Int
      /\ (balance * case.num) \div case.den \in Int
  BY <1>1, <1>5, SMT
<1>7. balance * case.num < case.emi * case.den
  BY <1>2, <1>5, <1>6
<1>8. /\ (balance * case.num) \div case.den < case.emi
      /\ (balance * case.num) \div case.den >= 0
  BY QuotientBounded, <1>1, <1>5, <1>7
<1> QED BY <1>1, <1>6, <1>8 DEF MonthInterest

\* One month: the types are kept, and a balance that was there falls.
LEMMA MonthStep ==
  ASSUME TypeOK, \A c \in Cases : EmiCovers(c), Installment \/ LastInstallment
  PROVE  TypeOK' /\ (balance > 0 => balance' < balance)
<1>1. /\ MonthInterest \in Nat /\ case.emi \in Nat
      /\ MonthInterest < case.emi
  BY InterestBelowEmi
<1>2. /\ case \in Cases /\ case.p \in Nat /\ case.n \in Nat
      /\ balance \in 0 .. case.p /\ i \in 0 .. case.n /\ repaid \in Int
  BY CasesAssumption DEF TypeOK
<1>3. ASSUME Installment PROVE TypeOK' /\ (balance > 0 => balance' < balance)
  <2> DEFINE principal == case.emi - MonthInterest
  <2>1. principal \in Nat /\ principal > 0
    BY <1>1
  <2>2. /\ i + 1 < case.n /\ i' = i + 1 /\ case' = case
        /\ last' = [amount |-> case.emi, principal |-> principal]
        /\ balance' = Remaining(balance, principal)
        /\ repaid' = repaid + principal
    BY <1>3 DEF Installment
  <2> HIDE DEF principal
  <2>3. balance' \in 0 .. case.p /\ (balance > 0 => balance' < balance)
    BY <1>2, <2>1, <2>2 DEF Remaining
  <2>4. last' \in [amount : Int, principal : Int]
    BY <1>1, <2>1, <2>2
  <2>5. i' \in 0 .. case.n /\ repaid' \in Int
    BY <1>2, <2>1, <2>2
  <2> QED BY <1>2, <2>2, <2>3, <2>4, <2>5 DEF TypeOK
<1>4. ASSUME LastInstallment PROVE TypeOK' /\ (balance > 0 => balance' < balance)
  <2>1. /\ i + 1 = case.n /\ i' = i + 1 /\ case' = case
        /\ last' = [amount |-> balance + MonthInterest, principal |-> balance]
        /\ balance' = 0
        /\ repaid' = repaid + balance
    BY <1>4 DEF LastInstallment
  <2>2. last' \in [amount : Int, principal : Int]
    BY <1>1, <1>2, <2>1
  <2>3. i' \in 0 .. case.n /\ repaid' \in Int /\ balance' \in 0 .. case.p
    BY <1>2, <2>1
  <2> QED BY <1>2, <2>1, <2>2, <2>3 DEF TypeOK
<1> QED BY <1>3, <1>4


-----------------------------------------------------------------------------
\* The theorems are about schedules whose installment is calculate_emi's.

EmisComputed == \A c \in Cases : c.emi = Emi(c.p, c.num, c.den, c.n)

LEMMA EmisCover == EmisComputed => \A c \in Cases : EmiCovers(c)
<1> SUFFICES ASSUME EmisComputed, NEW c \in Cases PROVE EmiCovers(c)
  OBVIOUS
<1>1. c.p \in Nat \ {0} /\ c.num \in Nat /\ c.den \in Nat \ {0} /\ c.n \in Nat \ {0}
  BY CasesAssumption
<1>2. c.p * c.num < Emi(c.p, c.num, c.den, c.n) * c.den
  BY <1>1, EmiPaysOff
<1> QED BY <1>2 DEF EmisComputed, EmiCovers

\* What is owed is what the installments that are left pay off, none of it was
\* forgotten, and the last installment is the one that was agreed or less.
OnSchedule == PaidOffBy(balance, case.num, case.den, case.n - i, case.emi)

ScheduleInv ==
  /\ TypeOK
  /\ OnSchedule
  /\ balance + repaid >= case.p
  /\ i = case.n => balance = 0
  /\ LastNotOverEmi

LEMMA CaseTypes ==
  ASSUME TypeOK
  PROVE  /\ case \in Cases /\ case.p \in Nat \ {0} /\ case.num \in Nat
         /\ case.den \in Nat \ {0} /\ case.n \in Nat \ {0} /\ case.emi \in Nat
         /\ balance \in Nat /\ i \in Nat /\ i <= case.n /\ repaid \in Int
BY CasesAssumption DEF TypeOK

LEMMA ScheduleInit ==
  ASSUME EmisComputed, Init
  PROVE  ScheduleInv
<1>1. TypeOK
  BY CasesAssumption DEF Init, TypeOK
<1>2. /\ case \in Cases /\ case.p \in Nat \ {0} /\ case.num \in Nat
      /\ case.den \in Nat \ {0} /\ case.n \in Nat \ {0} /\ case.emi \in Nat
  BY <1>1, CaseTypes
<1>3. PaidOffBy(case.p, case.num, case.den, case.n, Emi(case.p, case.num, case.den, case.n))
  BY <1>2, EmiPaysOff
<1>4. PaidOffBy(case.p, case.num, case.den, case.n, case.emi)
  BY <1>2, <1>3 DEF EmisComputed
<1>5. balance = case.p /\ i = 0 /\ case.n - i = case.n /\ repaid = 0
  BY <1>2 DEF Init
<1>6. OnSchedule
  BY <1>4, <1>5 DEF OnSchedule
<1> QED BY <1>1, <1>2, <1>5, <1>6 DEF ScheduleInv, LastNotOverEmi

\* What a month's interest is at most.
LEMMA InterestTruncated ==
  ASSUME TypeOK
  PROVE  MonthInterest \in Nat /\ MonthInterest * case.den <= balance * case.num
<1>1. balance \in Nat /\ case.num \in Nat /\ case.den \in Nat \ {0}
  BY CaseTypes
<1>2. balance * case.num \in Nat
  BY <1>1, NatProduct
<1> QED BY <1>1, <1>2, Quotient DEF MonthInterest

LEMMA InstallmentOnSchedule ==
  ASSUME TypeOK, OnSchedule, Installment
  PROVE  OnSchedule'
<1> DEFINE p == case.num
           d == case.den
           e == case.emi
           m == case.n - i - 1
<1>1. /\ p \in Nat /\ d \in Nat \ {0} /\ e \in Nat /\ balance \in Nat
      /\ m \in Nat /\ m + 1 = case.n - i
  BY CaseTypes DEF Installment
<1>2. MonthInterest \in Nat /\ MonthInterest * d <= balance * p
  BY InterestTruncated
<1>3. /\ balance' = Remaining(balance, e - MonthInterest)
      /\ case' = case /\ (case.n - i)' = m
  BY CaseTypes DEF Installment
<1>4. PaidOffBy(balance, p, d, m + 1, e)
  BY <1>1 DEF OnSchedule
<1>5. OnSchedule' <=> PaidOffBy(Remaining(balance, e - MonthInterest), p, d, m, e)
  BY <1>3 DEF OnSchedule
<1> HIDE DEF p, d, e, m
<1>6. CASE p = 0
  <2>1. balance <= e * (m + 1) /\ e * (m + 1) = e * m + e /\ e * m \in Nat
    BY <1>1, <1>4, <1>6, SMT DEF PaidOffBy
  <2>2. MonthInterest = 0
    <3>1. MonthInterest * d <= 0 * d
      BY <1>1, <1>2, <1>6, SMT
    <3> QED BY <1>1, <1>2, <3>1, Cancel
  <2>3. Remaining(balance, e - MonthInterest) <= e * m
    BY <1>1, <2>1, <2>2 DEF Remaining
  <2> QED BY <1>5, <1>6, <2>3 DEF PaidOffBy
<1>7. CASE p # 0
  <2> DEFINE f == Power(d, m)
             g == Power(d + p, m)
  <2>1. f \in Nat /\ g \in Nat /\ f <= g
    <3>1. d < d + p /\ d + p \in Nat
      BY <1>1, <1>7
    <3> QED BY <1>1, <3>1, PowersPart
  <2>2. Power(d, m + 1) = d * f /\ Power(d + p, m + 1) = (d + p) * g
    <3>1. d \in Nat /\ d + p \in Nat /\ m \in Nat
      BY <1>1
    <3> QED BY <3>1, PowerRecursion
  <2>3. balance * p * Power(d + p, m + 1)
          <= e * d * (Power(d + p, m + 1) - Power(d, m + 1))
    BY <1>4, <1>7 DEF PaidOffBy
  <2> HIDE DEF f, g
  <2>4. balance * p * ((d + p) * g) <= e * d * ((d + p) * g - d * f)
    BY <2>2, <2>3
  <2>5. Remaining(balance, e - MonthInterest) * p * g <= e * d * (g - f)
    BY <1>1, <1>2, <1>7, <2>1, <2>4, PaidOffStep
  <2> QED BY <1>5, <1>7, <2>5 DEF PaidOffBy, f, g
<1> QED BY <1>6, <1>7

\* The last installment is what is owed with its interest.
LEMMA LastOnSchedule ==
  ASSUME TypeOK, OnSchedule, LastInstallment
  PROVE  balance + MonthInterest <= case.emi
<1> DEFINE p == case.num
           d == case.den
           e == case.emi
           q == MonthInterest
<1>1. p \in Nat /\ d \in Nat \ {0} /\ e \in Nat /\ balance \in Nat /\ case.n - i = 1
  BY CaseTypes DEF LastInstallment
<1>2. q \in Nat /\ q * d <= balance * p
  BY InterestTruncated
<1>3. PaidOffBy(balance, p, d, 1, e)
  BY <1>1 DEF OnSchedule
<1> HIDE DEF p, d, e, q
<1>4. CASE p = 0
  <2>1. balance <= e
    BY <1>1, <1>3, <1>4 DEF PaidOffBy
  <2>2. q * d <= 0 * d
    BY <1>1, <1>2, <1>4, SMT
  <2>3. q <= 0
    BY <1>1, <1>2, <2>2, Cancel
  <2> QED BY <1>1, <1>2, <2>1, <2>3 DEF e, q
<1>5. CASE p # 0
  <2>1. Power(d, 1) = d /\ Power(d + p, 1) = d + p
    <3>1. /\ Power(d, 0) = 1 /\ Power(d, 0 + 1) = d * Power(d, 0)
          /\ Power(d + p, 0) = 1 /\ Power(d + p, 0 + 1) = (d + p) * Power(d + p, 0)
      <4>1. d \in Nat /\ d + p \in Nat
        BY <1>1
      <4> QED BY <4>1, PowerRecursion
    <3> QED BY <1>1, <3>1
  <2>2. balance * p * (d + p) <= e * d * (d + p - d)
    BY <1>1, <1>3, <1>5, <2>1 DEF PaidOffBy
  <2>3. /\ balance * p * (d + p) = (balance * (d + p)) * p
        /\ e * d * (d + p - d) = (e * d) * p
        /\ balance * (d + p) \in Int /\ e * d \in Int
    BY <1>1, SMT
  <2>4. balance * (d + p) <= e * d
    BY <1>1, <1>5, <2>2, <2>3, Cancel
  <2>5. /\ balance * (d + p) = balance * d + balance * p
        /\ (balance + q) * d = balance * d + q * d
        /\ balance * d \in Int /\ balance * p \in Int /\ q * d \in Int
    BY <1>1, <1>2, SMT
  <2>6. (balance + q) * d <= e * d
    BY <1>2, <2>3, <2>4, <2>5
  <2> QED BY <1>1, <1>2, <2>6, Cancel DEF e, q
<1> QED BY <1>4, <1>5

LEMMA ScheduleStep ==
  ASSUME EmisComputed, ScheduleInv, Installment \/ LastInstallment
  PROVE  ScheduleInv'
<1>1. TypeOK'
  BY EmisCover, MonthStep DEF ScheduleInv
<1>2. /\ case.p \in Nat /\ case.n \in Nat \ {0} /\ case.emi \in Nat
      /\ balance \in Nat /\ i \in Nat /\ repaid \in Int
  BY CaseTypes DEF ScheduleInv
<1>3. CASE Installment
  <2>1. OnSchedule'
    BY <1>3, InstallmentOnSchedule DEF ScheduleInv
  <2>2. i' # case'.n
    BY <1>2, <1>3 DEF Installment
  <2>3. balance' + repaid' >= case'.p
    BY <1>2, <1>3, InterestTruncated DEF ScheduleInv, Installment, Remaining
  <2> QED BY <1>1, <2>1, <2>2, <2>3 DEF ScheduleInv, LastNotOverEmi
<1>4. CASE LastInstallment
  <2>1. /\ case' = case /\ i' = case.n /\ balance' = 0 /\ repaid' = repaid + balance
        /\ last' = [amount |-> balance + MonthInterest, principal |-> balance]
    BY <1>4 DEF LastInstallment
  <2>2. OnSchedule'
    <3>1. /\ (case.n - i)' = 0 /\ case.num \in Nat /\ case.den \in Nat
          /\ case.den + case.num \in Nat
      BY <1>2, <2>1, CaseTypes DEF ScheduleInv
    <3>2. Power(case.den + case.num, 0) = 1 /\ Power(case.den, 0) = 1
      BY <3>1, PowerRecursion
    <3>3. 0 <= case.emi * 0 /\ 0 * case.num * 1 <= case.emi * case.den * (1 - 1)
      BY <1>2, <3>1, SMT
    <3>4. PaidOffBy(0, case.num, case.den, 0, case.emi)
      BY <3>2, <3>3 DEF PaidOffBy
    <3> QED BY <2>1, <3>1, <3>4 DEF OnSchedule
  <2>3. last'.amount <= case.emi
    BY <1>4, <2>1, LastOnSchedule DEF ScheduleInv
  <2>4. balance' + repaid' >= case'.p
    BY <1>2, <2>1 DEF ScheduleInv
  <2> QED BY <1>1, <2>1, <2>2, <2>3, <2>4 DEF ScheduleInv, LastNotOverEmi
<1> QED BY <1>3, <1>4

LEMMA ScheduleAlways ==
  ASSUME EmisComputed
  PROVE  Spec => []ScheduleInv
<1>1. Init => ScheduleInv
  BY ScheduleInit
<1>2. ScheduleInv /\ [Next]_vars => ScheduleInv'
  <2> SUFFICES ASSUME ScheduleInv, [Next]_vars PROVE ScheduleInv'
    OBVIOUS
  <2>1. CASE Installment \/ LastInstallment
    BY <2>1, ScheduleStep
  <2>2. CASE UNCHANGED vars
    BY <2>2 DEF ScheduleInv, TypeOK, OnSchedule, LastNotOverEmi, vars
  <2> QED BY <2>1, <2>2 DEF Next, Returned
<1> QED BY <1>1, <1>2, PTL DEF Spec

\* In every month the balance lies between nothing and the principal.
THEOREM BalanceBounded ==
  ASSUME EmisComputed
  PROVE  Spec => []TypeOK
<1>1. ScheduleInv => TypeOK
  BY DEF ScheduleInv
<1> QED BY <1>1, ScheduleAlways, PTL

\* Whatever the principal, the rate and the tenure, the installment that
\* calculate_emi computes is more than the interest on the whole principal.
THEOREM EmiAlwaysCovers ==
  ASSUME EmisComputed
  PROVE  Spec => []EmiCoversInterest
<1>1. ScheduleInv => EmiCoversInterest
  BY EmisCover DEF ScheduleInv, TypeOK, EmiCoversInterest
<1> QED BY <1>1, ScheduleAlways, PTL

\* No month leaves the borrower owing as much as before.
THEOREM DebtAlwaysFalls ==
  ASSUME EmisComputed
  PROVE  Spec => DebtFalls
<1>1. TypeOK /\ [Next]_vars => [balance > 0 => balance' < balance]_vars
  BY EmisCover, MonthStep DEF Next, Returned
<1>2. Spec => []TypeOK
  BY BalanceBounded
<1> QED BY <1>1, <1>2, PTL DEF Spec, DebtFalls

\* The roundings of all the months, each in the borrower's favour, never leave a
\* last installment above the agreed one, for any principal, rate and tenure.
THEOREM LastNeverOverEmi ==
  ASSUME EmisComputed
  PROVE  Spec => []LastNotOverEmi
<1>1. ScheduleInv => LastNotOverEmi
  BY DEF ScheduleInv
<1> QED BY <1>1, ScheduleAlways, PTL

\* The schedule collects at least what was lent.
THEOREM AlwaysRepaidInFull ==
  ASSUME EmisComputed
  PROVE  Spec => []RepaidInFull
<1>1. ScheduleInv => RepaidInFull
  BY CaseTypes DEF ScheduleInv, RepaidInFull
<1> QED BY <1>1, ScheduleAlways, PTL
=============================================================================
