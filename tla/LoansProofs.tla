----------------------------- MODULE LoansProofs -----------------------------
(***************************************************************************)
(* Theorems about Loans, for any loans, accounts, threads, schedules and   *)
(* bounds.                                                                 *)
(***************************************************************************)
EXTENDS Loans, AccountTableProofs, WellFoundedInduction, TLAPS

-----------------------------------------------------------------------------
\* Rows of the loans table.

LEMMA FlushLoanIsRow ==
  ASSUME NEW cur \in LoanRow, NEW old \in LoanRow, NEW new \in LoanRow
  PROVE  FlushLoan(cur, old, new) \in LoanRow
BY DEF LoanRow, FlushLoan

\* When nothing was committed since the load, the UPDATE leaves exactly what
\* the handler computed.
LEMMA FlushLoanUnmoved ==
  ASSUME NEW old \in LoanRow, NEW new \in LoanRow
  PROVE  FlushLoan(old, old, new) = new
BY DEF LoanRow, FlushLoan

LEMMA SetLoanStatus ==
  ASSUME NEW r \in LoanRow, NEW s \in LoanStatus
  PROVE  /\ [r EXCEPT !.status = s] \in LoanRow
         /\ [r EXCEPT !.status = s].status = s
BY DEF LoanRow

LEMMA SetOutstanding ==
  ASSUME NEW r \in LoanRow, NEW i \in Int
  PROVE  /\ [r EXCEPT !.outstanding = i] \in LoanRow
         /\ [r EXCEPT !.outstanding = i].status = r.status
BY DEF LoanRow

LEMMA SetEmisPaid ==
  ASSUME NEW r \in LoanRow, NEW k \in Nat
  PROVE  /\ [r EXCEPT !.emisPaid = k] \in LoanRow
         /\ [r EXCEPT !.emisPaid = k].status = r.status
         /\ [r EXCEPT !.emisPaid = k].outstanding = r.outstanding
BY DEF LoanRow

LEMMA NoLoanRowIsRow == NoLoanRow \in LoanRow
BY DEF NoLoanRow, LoanRow, LoanStatus

\* A payment leaves a row, CLOSED or in the status that it had.
LEMMA AfterPaymentIsRow ==
  ASSUME NEW r \in LoanRow, NEW n \in 1 .. Tenure
  PROVE  /\ AfterPayment(r, n) \in LoanRow
         /\ AfterPayment(r, n).status \in {"CLOSED", r.status}
<1>1. /\ r.emisPaid + 1 \in Nat
      /\ r.outstanding - Schedule[n].principal \in Int
  BY LoansAssumption DEF LoanRow
<1>2. "CLOSED" \in LoanStatus /\ 0 \in Int
  BY DEF LoanStatus
<1> DEFINE p == [r EXCEPT !.emisPaid = @ + 1]
           c == [p EXCEPT !.status = "CLOSED"]
           d == p.outstanding - Schedule[n].principal
<1>3. p \in LoanRow /\ p.status = r.status /\ p.outstanding = r.outstanding
  BY <1>1, SetEmisPaid
<1>4. CASE r.emisPaid + 1 >= Tenure
  <2>1. AfterPayment(r, n) = [c EXCEPT !.outstanding = 0]
    BY <1>4, Zenon DEF AfterPayment
  <2>2. c \in LoanRow /\ c.status = "CLOSED"
    BY <1>2, <1>3, SetLoanStatus, Zenon
  <2> HIDE DEF c
  <2>3. /\ [c EXCEPT !.outstanding = 0] \in LoanRow
        /\ [c EXCEPT !.outstanding = 0].status = "CLOSED"
    BY <1>2, <2>2, SetOutstanding, Zenon
  <2> QED BY <2>1, <2>3, Zenon
<1>5. CASE ~(r.emisPaid + 1 >= Tenure)
  <2>1. AfterPayment(r, n) = [p EXCEPT !.outstanding = d]
    BY <1>5, Zenon DEF AfterPayment
  <2>2. d \in Int
    BY <1>1, <1>3
  <2> HIDE DEF p, d
  <2>3. /\ [p EXCEPT !.outstanding = d] \in LoanRow
        /\ [p EXCEPT !.outstanding = d].status = r.status
    BY <1>3, <2>2, SetOutstanding, Zenon
  <2> QED BY <2>1, <2>3, Zenon
<1> QED BY <1>4, <1>5

-----------------------------------------------------------------------------
\* Type correctness and balances, under any interleaving: what a thread has
\* loaded of an account is not negative either, so neither is what it writes.

BalanceInv ==
  /\ TypeOK
  /\ NeverNegative
  /\ \A t \in Thread : seenRow[t].balance >= 0

LEMMA BalanceInit == Init => BalanceInv
<1> SUFFICES ASSUME Init PROVE BalanceInv
  OBVIOUS
<1>1. row \in [Account -> Row]
  BY LoansAssumption DEF Init, Row, Status
<1>2. /\ loan \in [Loan -> LoanRow] /\ seenLoan \in [Thread -> LoanRow]
      /\ seenRow \in [Thread -> Row]
  BY NoRowIsRow, NoLoanRowIsRow DEF Init
<1>3. 0 \in 0 .. Tenure /\ {} \in SUBSET (1 .. Tenure)
  BY LoansAssumption
<1>4. /\ paid \in [Loan -> SUBSET (1 .. Tenure)]
      /\ seenEmi \in [Thread -> 0 .. Tenure]
  BY <1>3, Zenon DEF Init
<1>5. contended \subseteq Loan
  BY DEF Init
<1>6. TypeOK
  BY <1>1, <1>2, <1>4, <1>5 DEF Init, TypeOK, PC
<1>7. NeverNegative
  BY LoansAssumption DEF Init, NeverNegative
<1>8. \A t \in Thread : seenRow[t].balance >= 0
  BY DEF Init, NoRow
<1> QED BY <1>6, <1>7, <1>8 DEF BalanceInv

\* The steps that load rows change no table.
LEMMA BalanceLoad ==
  ASSUME BalanceInv, NEW t \in Thread,
         \/ LoadApplicant(t) \/ LoadLoan(t) \/ LoadForDisbursement(t)
         \/ LoadEmi(t) \/ LoadForPayment(t)
  PROVE  BalanceInv'
<1> USE LoansAssumption DEF BalanceInv, NeverNegative, TypeOK, PC, tables
<1>1. CASE LoadApplicant(t)
  BY <1>1 DEF LoadApplicant, Arrive
<1>2. CASE LoadLoan(t)
  BY <1>2 DEF LoadLoan, Arrive
<1>3. CASE LoadForDisbursement(t)
  BY <1>3 DEF LoadForDisbursement
<1>4. CASE LoadEmi(t)
  BY <1>4 DEF LoadEmi, Unpaid
<1>5. CASE LoadForPayment(t)
  BY <1>5 DEF LoadForPayment
<1> QED BY <1>1, <1>2, <1>3, <1>4, <1>5

\* A thread that answers forgets what it loaded; the tables are left to show.
LEMMA BalanceAnswer ==
  ASSUME BalanceInv, NEW t \in Thread, Answer(t),
         loan' \in [Loan -> LoanRow],
         paid' \in [Loan -> SUBSET (1 .. Tenure)],
         row' \in [Account -> Row],
         disbursed' \in [Loan -> Nat], collected' \in [Loan -> Nat],
         \A a \in Account : row'[a].balance >= 0
  PROVE  BalanceInv'
<1>1. 0 \in 0 .. Tenure
  BY LoansAssumption
<1>2. seenEmi' \in [Thread -> 0 .. Tenure]
  BY <1>1 DEF BalanceInv, TypeOK, Answer
<1>3. /\ seenRow' \in [Thread -> Row] /\ seenLoan' \in [Thread -> LoanRow]
      /\ \A u \in Thread : seenRow'[u].balance >= 0
  BY NoRowIsRow, NoLoanRowIsRow DEF BalanceInv, TypeOK, Answer, NoRow
<1>4. /\ pc' \in [Thread -> PC] /\ subject' \in [Thread -> Loan \cup {NoLoan}]
      /\ \A u \in Thread : pc'[u] # "idle" => subject'[u] \in Loan
  BY DEF BalanceInv, TypeOK, Answer, PC
<1>5. served' \in Nat /\ contended' \subseteq Loan
  BY DEF BalanceInv, TypeOK, Answer
<1> QED BY <1>2, <1>3, <1>4, <1>5 DEF BalanceInv, TypeOK, NeverNegative

\* The UPDATE of one account's row by a handler that keeps it from below zero.
LEMMA BalanceFlush ==
  ASSUME BalanceInv, NEW a \in Account, NEW old \in Row, NEW new \in Row,
         new.balance >= 0, row' = [row EXCEPT ![a] = Flush(row[a], old, new)]
  PROVE  row' \in [Account -> Row] /\ \A c \in Account : row'[c].balance >= 0
<1> DEFINE r == Flush(row[a], old, new)
<1>1. row \in [Account -> Row] /\ \A c \in Account : row[c].balance >= 0
  BY DEF BalanceInv, TypeOK, NeverNegative
<1>2. r \in Row
  BY <1>1, FlushIsRow
<1>3. r.balance >= 0
  BY <1>1, FlushAbove
<1> HIDE DEF r
<1> QED BY <1>1, <1>2, <1>3 DEF r

\* The UPDATE of one loan's row.
LEMMA LoanFlush ==
  ASSUME TypeOK, NEW l \in Loan, NEW old \in LoanRow, NEW new \in LoanRow,
         loan' = [loan EXCEPT ![l] = FlushLoan(loan[l], old, new)]
  PROVE  loan' \in [Loan -> LoanRow]
<1> DEFINE r == FlushLoan(loan[l], old, new)
<1>1. loan \in [Loan -> LoanRow]
  BY DEF TypeOK
<1>2. r \in LoanRow
  BY <1>1, FlushLoanIsRow
<1> HIDE DEF r
<1> QED BY <1>1, <1>2 DEF r

LEMMA BalanceApply ==
  ASSUME BalanceInv, NEW t \in Thread, Apply(t) \/ RefuseLoan(t)
  PROVE  BalanceInv'
<1>1. CASE Apply(t)
  <2>1. Answer(t) /\ UNCHANGED <<paid, row, disbursed, collected>>
    BY <1>1, Zenon DEF Apply
  <2>2. [status |-> "APPLIED", outstanding |-> Principal, emisPaid |-> 0] \in LoanRow
    BY LoansAssumption DEF LoanRow, LoanStatus
  <2>3. loan' \in [Loan -> LoanRow]
    BY <1>1, <2>2 DEF Apply, BalanceInv, TypeOK
  <2> QED BY <2>1, <2>3, BalanceAnswer DEF BalanceInv, TypeOK, NeverNegative
<1>2. CASE RefuseLoan(t)
  BY <1>2, BalanceAnswer
     DEF RefuseLoan, tables, BalanceInv, TypeOK, NeverNegative
<1> QED BY <1>1, <1>2

LEMMA BalanceDecide ==
  ASSUME BalanceInv, NEW t \in Thread, Decide(t)
  PROVE  BalanceInv'
<1> DEFINE l == subject[t]
           old == seenLoan[t]
<1>1. l \in Loan /\ old \in LoanRow
  BY DEF Decide, BalanceInv, TypeOK
<1>2. PICK s \in {"APPROVED", "REJECTED"} :
        loan' = [loan EXCEPT ![l] = FlushLoan(@, old, [old EXCEPT !.status = s])]
  BY Zenon DEF Decide
<1>3. [old EXCEPT !.status = s] \in LoanRow
  BY <1>1, SetLoanStatus DEF LoanStatus
<1>4. loan' \in [Loan -> LoanRow]
  BY <1>1, <1>2, <1>3, LoanFlush DEF BalanceInv
<1>5. Answer(t) /\ UNCHANGED <<paid, row, disbursed, collected>>
  BY Zenon DEF Decide
<1> QED BY <1>4, <1>5, BalanceAnswer DEF BalanceInv, TypeOK, NeverNegative

LEMMA BalanceDisburse ==
  ASSUME BalanceInv, NEW t \in Thread, Disburse(t)
  PROVE  BalanceInv'
<1> DEFINE l == subject[t]
           a == Linked[l]
           old == seenRow[t]
           new == [old EXCEPT !.balance = @ + Principal]
           set == [seenLoan[t] EXCEPT !.status = "DISBURSED"]
<1>1. l \in Loan /\ a \in Account /\ old \in Row /\ old.balance >= 0
      /\ seenLoan[t] \in LoanRow
  BY LoansAssumption DEF Disburse, BalanceInv, TypeOK
<1>2. Answer(t) /\ UNCHANGED <<paid, collected>>
  BY Zenon DEF Disburse
<1>3. CASE ~IsActive(old)
  <2>1. UNCHANGED <<row, loan, disbursed>>
    BY <1>3, Zenon DEF Disburse
  <2> QED BY <1>2, <2>1, BalanceAnswer DEF BalanceInv, TypeOK, NeverNegative
<1>4. CASE IsActive(old)
  <2>1. /\ row' = [row EXCEPT ![a] = Flush(row[a], old, new)]
        /\ loan' = [loan EXCEPT ![l] = FlushLoan(loan[l], seenLoan[t], set)]
        /\ disbursed' = [disbursed EXCEPT ![l] = @ + 1]
    BY <1>4 DEF Disburse
  <2>2. new \in Row /\ new.balance >= 0
    <3>1. old.balance + Principal \in Int /\ old.balance + Principal >= 0
      BY <1>1, Columns, LoansAssumption
    <3> QED BY <1>1, <3>1, SetBalance
  <2>3. set \in LoanRow
    <3>1. "DISBURSED" \in LoanStatus
      BY DEF LoanStatus
    <3> QED BY <1>1, <3>1, SetLoanStatus
  <2> HIDE DEF new, set
  <2>4. disbursed' \in [Loan -> Nat]
    <3>1. disbursed \in [Loan -> Nat] /\ disbursed[l] + 1 \in Nat
      BY <1>1 DEF BalanceInv, TypeOK
    <3> QED BY <2>1, <3>1
  <2>5. row' \in [Account -> Row] /\ \A c \in Account : row'[c].balance >= 0
    BY <1>1, <2>1, <2>2, BalanceFlush
  <2>6. loan' \in [Loan -> LoanRow]
    BY <1>1, <2>1, <2>3, LoanFlush DEF BalanceInv
  <2> QED BY <1>2, <2>4, <2>5, <2>6, BalanceAnswer DEF BalanceInv, TypeOK
<1> QED BY <1>3, <1>4

LEMMA BalancePayEmi ==
  ASSUME BalanceInv, NEW t \in Thread, PayEmi(t)
  PROVE  BalanceInv'
<1> DEFINE l == subject[t]
           n == seenEmi[t]
           a == Linked[l]
           old == seenRow[t]
           new == [old EXCEPT !.balance = @ - Schedule[n].amount]
           set == AfterPayment(seenLoan[t], n)
<1>1. l \in Loan /\ a \in Account /\ n \in 1 .. Tenure /\ old \in Row
      /\ seenLoan[t] \in LoanRow
  BY LoansAssumption DEF PayEmi, BalanceInv, TypeOK
<1>2. Answer(t) /\ UNCHANGED disbursed
  BY Zenon DEF PayEmi
<1>3. CASE ~Covers(old, n)
  <2>1. UNCHANGED <<row, paid, loan, collected>>
    BY <1>3, Zenon DEF PayEmi
  <2> QED BY <1>2, <2>1, BalanceAnswer DEF BalanceInv, TypeOK, NeverNegative
<1>4. CASE Covers(old, n)
  <2>1. /\ row' = [row EXCEPT ![a] = Flush(row[a], old, new)]
        /\ loan' = [loan EXCEPT ![l] = FlushLoan(loan[l], seenLoan[t], set)]
        /\ paid' = [paid EXCEPT ![l] = @ \cup {n}]
        /\ collected' = [collected EXCEPT ![l] = @ + 1]
    BY <1>4 DEF PayEmi
  <2>2. Schedule[n].amount \in Nat
    BY <1>1, LoansAssumption
  <2>3. new \in Row /\ new.balance >= 0
    BY <1>1, <1>4, <2>2 DEF Row, Covers
  <2>4. set \in LoanRow
    BY <1>1, AfterPaymentIsRow
  <2>5. collected' \in [Loan -> Nat] /\ paid' \in [Loan -> SUBSET (1 .. Tenure)]
    BY <1>1, <2>1 DEF BalanceInv, TypeOK
  <2> HIDE DEF new, set
  <2>6. row' \in [Account -> Row] /\ \A c \in Account : row'[c].balance >= 0
    BY <1>1, <2>1, <2>3, BalanceFlush
  <2>7. loan' \in [Loan -> LoanRow]
    BY <1>1, <2>1, <2>4, LoanFlush DEF BalanceInv
  <2> QED BY <1>2, <2>5, <2>6, <2>7, BalanceAnswer DEF BalanceInv, TypeOK
<1> QED BY <1>3, <1>4

LEMMA BalanceAccount ==
  ASSUME BalanceInv, MoveMoney \/ ChangeAccount
  PROVE  BalanceInv'
<1>0. row \in [Account -> Row] /\ \A c \in Account : row[c].balance >= 0
  BY DEF BalanceInv, TypeOK, NeverNegative
<1>1. CASE MoveMoney
  <2>1. PICK a \in Account, b \in 0 .. MaxBalance :
          row' = [row EXCEPT ![a].balance = b]
    BY <1>1 DEF MoveMoney
  <2>2. [row[a] EXCEPT !.balance = b] \in Row
        /\ [row[a] EXCEPT !.balance = b].balance >= 0
    <3>1. b \in Int /\ b >= 0
      BY LoansAssumption
    <3> QED BY <1>0, <3>1, SetBalance
  <2>3. row' \in [Account -> Row] /\ \A c \in Account : row'[c].balance >= 0
    BY <1>0, <2>1, <2>2
  <2> QED BY <1>1, <2>3 DEF MoveMoney, loanVars, BalanceInv, TypeOK, NeverNegative
<1>2. CASE ChangeAccount
  <2>1. PICK a \in Account, s \in Status :
          row' = [row EXCEPT ![a].status = s]
    BY <1>2 DEF ChangeAccount
  <2>2. [row[a] EXCEPT !.status = s] \in Row
        /\ [row[a] EXCEPT !.status = s].balance = row[a].balance
    BY <1>0, SetStatus
  <2>3. row' \in [Account -> Row] /\ \A c \in Account : row'[c].balance >= 0
    BY <1>0, <2>1, <2>2
  <2> QED BY <1>2, <2>3 DEF ChangeAccount, loanVars, BalanceInv, TypeOK, NeverNegative
<1> QED BY <1>1, <1>2

LEMMA BalanceNext == BalanceInv /\ [Next]_vars => BalanceInv'
<1> SUFFICES ASSUME BalanceInv, [Next]_vars PROVE BalanceInv'
  OBVIOUS
<1>1. CASE MoveMoney \/ ChangeAccount
  BY <1>1, BalanceAccount
<1>2. ASSUME NEW t \in Thread, Serve(t) PROVE BalanceInv'
  BY <1>2, BalanceLoad, BalanceApply, BalanceDecide, BalanceDisburse,
     BalancePayEmi DEF Serve
<1>3. CASE UNCHANGED vars
  BY <1>3 DEF vars, BalanceInv, TypeOK, NeverNegative
<1>4. CASE Quiet
  BY <1>3, <1>4 DEF Quiet
<1> QED BY <1>1, <1>2, <1>3, <1>4 DEF Next

\* Every reachable state is well typed; in particular the EMI that a thread is
\* to pay is one of the schedule, whatever other threads pay meanwhile.
THEOREM TypeCorrect == Spec => []TypeOK
<1>1. BalanceInv => TypeOK
  BY DEF BalanceInv
<1> QED BY <1>1, BalanceInit, BalanceNext, PTL DEF Spec

\* Whatever requests run at once, neither EMIs nor disbursements, and no
\* movement of the account in between, leave a balance negative.
THEOREM NeverNegativeAlways == Spec => []NeverNegative
<1>1. BalanceInv => NeverNegative
  BY DEF BalanceInv
<1> QED BY <1>1, BalanceInit, BalanceNext, PTL DEF Spec

-----------------------------------------------------------------------------
\* The life of a loan of which no two requests run at once: the row that its
\* request has loaded is the row of the table, and the steps behind it have seen
\* the status that its handler wants.

Loaded(t) ==
  /\ pc[t] = "applying" => loan[subject[t]].status = "NONE"
  /\ pc[t] \in {"loan", "emi", "ready"} => seenLoan[t] = loan[subject[t]]
  /\ pc[t] = "emi" => seenLoan[t].status = "DISBURSED" /\ seenEmi[t] # 0
  /\ pc[t] = "ready" =>
       seenLoan[t].status = IF seenEmi[t] = 0 THEN "APPROVED" ELSE "DISBURSED"

Alone(t) == \A u \in Thread \ {t} : subject[u] # subject[t]

LifeInv ==
  /\ \A t \in Thread : pc[t] \in {"idle", "applying", "loan"} => seenEmi[t] = 0
  /\ \A t \in Thread : pc[t] # "idle" /\ subject[t] \notin contended
       => Alone(t) /\ Loaded(t)

LEMMA LifeInit == Init => LifeInv
<1> SUFFICES ASSUME Init PROVE LifeInv
  OBVIOUS
<1>1. \A t \in Thread : pc[t] = "idle" /\ seenEmi[t] = 0
  BY DEF Init
<1> QED BY <1>1 DEF LifeInv

\* What a step of t leaves to the other threads.
OthersKept(t) ==
  \A u \in Thread \ {t} :
    /\ pc'[u] = pc[u] /\ subject'[u] = subject[u]
    /\ seenLoan'[u] = seenLoan[u] /\ seenEmi'[u] = seenEmi[u]

\* The step of a request that has arrived: it goes on with what it has loaded, or
\* is answered, and changes no loan but its own.
LEMMA LifeOwn ==
  ASSUME TypeOK, LifeInv, NEW t \in Thread, pc[t] # "idle", OthersKept(t),
         UNCHANGED contended,
         \A k \in Loan : k # subject[t] => loan'[k] = loan[k],
         pc'[t] \in {"idle", "applying", "loan"} => seenEmi'[t] = 0,
         \/ pc'[t] = "idle" /\ subject'[t] = NoLoan
         \/ /\ subject'[t] = subject[t]
            /\ subject[t] \notin contended => Loaded(t)'
  PROVE  LifeInv'
<1>1. ASSUME NEW u \in Thread, pc'[u] # "idle", subject'[u] \notin contended'
      PROVE  Alone(u)' /\ Loaded(u)'
  <2>1. pc[u] # "idle" /\ subject'[u] = subject[u] /\ subject[u] \in Loan
    BY <1>1 DEF OthersKept, TypeOK
  <2>2. Alone(u) /\ Loaded(u)
    BY <1>1, <2>1 DEF LifeInv
  <2>3. Alone(u)'
    <3> SUFFICES ASSUME NEW q \in Thread \ {u} PROVE subject'[q] # subject'[u]
      BY DEF Alone
    <3>1. subject'[q] \in {subject[q], NoLoan}
      BY DEF OthersKept
    <3> QED BY <2>1, <2>2, <3>1, LoansAssumption DEF Alone
  <2>4. CASE u = t
    BY <1>1, <2>1, <2>3, <2>4
  <2>5. CASE u # t
    <3>1. loan'[subject[u]] = loan[subject[u]]
      BY <2>1, <2>2, <2>5 DEF Alone
    <3>2. pc'[u] = pc[u] /\ seenLoan'[u] = seenLoan[u] /\ seenEmi'[u] = seenEmi[u]
      BY <2>5 DEF OthersKept
    <3>3. Loaded(u)'
      BY <2>1, <2>2, <3>1, <3>2 DEF Loaded
    <3> QED BY <2>3, <3>3
  <2> QED BY <2>4, <2>5
<1>2. \A u \in Thread : pc'[u] \in {"idle", "applying", "loan"} => seenEmi'[u] = 0
  BY DEF LifeInv, OthersKept
<1> QED BY <1>1, <1>2 DEF LifeInv

\* A request that arrives finds no other of its loan, or makes it contended.
LEMMA LifeArrive ==
  ASSUME TypeOK, LifeInv, NEW t \in Thread, NEW l \in Loan, Arrive(t, l),
         OthersKept(t), UNCHANGED <<loan, seenEmi>>,
         \/ pc'[t] = "applying" /\ loan[l].status = "NONE"
         \/ pc'[t] = "loan" /\ seenLoan'[t] = loan[l]
  PROVE  LifeInv'
<1>1. /\ pc[t] = "idle" /\ subject'[t] = l /\ contended \subseteq contended'
      /\ \A u \in Thread : subject[u] = l => l \in contended'
  BY DEF Arrive, TypeOK
<1>2. ASSUME NEW u \in Thread, pc'[u] # "idle", subject'[u] \notin contended'
      PROVE  Alone(u)' /\ Loaded(u)'
  <2>1. CASE u = t
    BY <1>1, <1>2, <2>1 DEF OthersKept, Alone, Loaded
  <2>2. CASE u # t
    <3>1. /\ pc[u] # "idle" /\ subject'[u] = subject[u] /\ subject[u] \notin contended
          /\ subject[u] # l
      BY <1>1, <1>2, <2>2 DEF OthersKept
    <3>2. Alone(u) /\ Loaded(u)
      BY <3>1 DEF LifeInv
    <3>3. Alone(u)'
      BY <1>1, <3>1, <3>2 DEF OthersKept, Alone
    <3>4. Loaded(u)'
      BY <2>2, <3>1, <3>2 DEF OthersKept, Loaded
    <3> QED BY <3>3, <3>4
  <2> QED BY <2>1, <2>2
<1>3. \A u \in Thread : pc'[u] \in {"idle", "applying", "loan"} => seenEmi'[u] = 0
  BY <1>1 DEF LifeInv, OthersKept
<1> QED BY <1>2, <1>3 DEF LifeInv

LEMMA LifeLoad ==
  ASSUME TypeOK, LifeInv, NEW t \in Thread,
         \/ LoadApplicant(t) \/ LoadLoan(t) \/ LoadForDisbursement(t)
         \/ LoadEmi(t) \/ LoadForPayment(t)
  PROVE  LifeInv'
<1>1. OthersKept(t) /\ UNCHANGED loan
  BY DEF LoadApplicant, LoadLoan, LoadForDisbursement, LoadEmi, LoadForPayment, Arrive,
         OthersKept, TypeOK, tables
<1>2. CASE LoadApplicant(t)
  BY <1>1, <1>2, LifeArrive DEF LoadApplicant, TypeOK
<1>3. CASE LoadLoan(t)
  BY <1>1, <1>3, LifeArrive DEF LoadLoan, TypeOK
<1>4. CASE LoadForDisbursement(t)
  <2>1. subject[t] \notin contended => Loaded(t)'
    BY <1>4 DEF LoadForDisbursement, LifeInv, Loaded, TypeOK, tables
  <2> QED BY <1>1, <1>4, <2>1, LifeOwn DEF LoadForDisbursement, TypeOK
<1>5. CASE LoadEmi(t)
  <2>1. seenEmi'[t] # 0
    BY <1>5, LoansAssumption DEF LoadEmi, Unpaid, TypeOK
  <2>2. subject[t] \notin contended => Loaded(t)'
    BY <1>5, <2>1 DEF LoadEmi, LifeInv, Loaded, TypeOK, tables
  <2> QED BY <1>1, <1>5, <2>2, LifeOwn DEF LoadEmi, TypeOK
<1>6. CASE LoadForPayment(t)
  <2>1. subject[t] \notin contended => Loaded(t)'
    BY <1>6 DEF LoadForPayment, LifeInv, Loaded, TypeOK, tables
  <2> QED BY <1>1, <1>6, <2>1, LifeOwn DEF LoadForPayment, TypeOK
<1> QED BY <1>2, <1>3, <1>4, <1>5, <1>6

\* The commits change the books of no loan but that of the request.
LEMMA OneLoan ==
  ASSUME TypeOK, NEW t \in Thread,
         Apply(t) \/ RefuseLoan(t) \/ Decide(t) \/ Disburse(t) \/ PayEmi(t)
  PROVE  /\ pc[t] # "idle" /\ Answer(t) /\ subject[t] \in Loan
         /\ \A k \in Loan : k # subject[t] =>
              /\ loan'[k] = loan[k] /\ paid'[k] = paid[k]
              /\ disbursed'[k] = disbursed[k] /\ collected'[k] = collected[k]
<1>1. pc[t] # "idle" /\ Answer(t)
  BY Zenon DEF Apply, RefuseLoan, Decide, Disburse, PayEmi
<1>2. \E r : loan' = loan \/ loan' = [loan EXCEPT ![subject[t]] = r]
  BY DEF Apply, RefuseLoan, Decide, Disburse, PayEmi, tables
<1>3. \E r : paid' = paid \/ paid' = [paid EXCEPT ![subject[t]] = r]
  BY DEF Apply, RefuseLoan, Decide, Disburse, PayEmi, tables
<1>4. \E r : disbursed' = disbursed \/ disbursed' = [disbursed EXCEPT ![subject[t]] = r]
  BY DEF Apply, RefuseLoan, Decide, Disburse, PayEmi, tables
<1>5. \E r : collected' = collected \/ collected' = [collected EXCEPT ![subject[t]] = r]
  BY DEF Apply, RefuseLoan, Decide, Disburse, PayEmi, tables
<1> QED BY <1>1, <1>2, <1>3, <1>4, <1>5 DEF TypeOK

LEMMA LifeAnswer ==
  ASSUME TypeOK, LifeInv, NEW t \in Thread,
         Apply(t) \/ RefuseLoan(t) \/ Decide(t) \/ Disburse(t) \/ PayEmi(t)
  PROVE  LifeInv'
<1>1. /\ pc'[t] = "idle" /\ subject'[t] = NoLoan /\ seenEmi'[t] = 0
      /\ OthersKept(t) /\ UNCHANGED contended
  BY OneLoan DEF Answer, OthersKept, TypeOK
<1> QED BY <1>1, OneLoan, LifeOwn

LEMMA LifeNext == TypeOK /\ LifeInv /\ [Next]_vars => LifeInv'
<1> SUFFICES ASSUME TypeOK, LifeInv, [Next]_vars PROVE LifeInv'
  OBVIOUS
<1>1. CASE MoveMoney \/ ChangeAccount
  BY <1>1 DEF MoveMoney, ChangeAccount, loanVars, LifeInv, Alone, Loaded
<1>2. ASSUME NEW t \in Thread, Serve(t) PROVE LifeInv'
  <2>1. CASE \/ LoadApplicant(t) \/ LoadLoan(t) \/ LoadForDisbursement(t)
             \/ LoadEmi(t) \/ LoadForPayment(t)
    BY <2>1, LifeLoad
  <2>2. CASE Apply(t) \/ RefuseLoan(t) \/ Decide(t) \/ Disburse(t) \/ PayEmi(t)
    BY <2>2, LifeAnswer
  <2> QED BY <1>2, <2>1, <2>2 DEF Serve
<1>3. CASE UNCHANGED vars
  BY <1>3 DEF vars, LifeInv, Alone, Loaded
<1>4. CASE Quiet
  BY <1>3, <1>4 DEF Quiet
<1> QED BY <1>1, <1>2, <1>3, <1>4 DEF Next

\* A commit that follows a fresh load changes one loan, by what was computed.
LEMMA FreshUpdate ==
  ASSUME TypeOK, NEW l \in Loan, NEW old \in LoanRow, NEW new \in LoanRow,
         old = loan[l], loan' = [loan EXCEPT ![l] = FlushLoan(loan[l], old, new)]
  PROVE  \A k \in Loan : loan'[k] = IF k = l THEN new ELSE loan[k]
<1>1. FlushLoan(loan[l], old, new) = new
  BY FlushLoanUnmoved
<1>2. loan' = [loan EXCEPT ![l] = new]
  BY <1>1
<1> QED BY <1>2 DEF TypeOK

LifecycleKept ==
  \A l \in Loan \ contended : loan'[l].status # loan[l].status
    => <<loan[l].status, loan'[l].status>> \in Lifecycle

LEMMA LifeDecide ==
  ASSUME TypeOK, LifeInv, NEW t \in Thread, subject[t] \notin contended, Decide(t)
  PROVE  LifecycleKept
<1> DEFINE l == subject[t]
           old == seenLoan[t]
<1>1. l \in Loan /\ old \in LoanRow /\ old = loan[l] /\ old.status = "APPLIED"
  BY DEF Decide, TypeOK, LifeInv, Loaded
<1>2. PICK s \in {"APPROVED", "REJECTED"} :
        loan' = [loan EXCEPT ![l] = FlushLoan(@, old, [old EXCEPT !.status = s])]
  BY Zenon DEF Decide
<1> DEFINE new == [old EXCEPT !.status = s]
<1>3. new \in LoanRow /\ new.status = s
  <2>1. s \in LoanStatus
    BY DEF LoanStatus
  <2> QED BY <1>1, <2>1, SetLoanStatus, Zenon
<1>4. loan' = [loan EXCEPT ![l] = FlushLoan(loan[l], old, new)]
  BY <1>2
<1> HIDE DEF l, old, new
<1>5. \A k \in Loan : loan'[k] = IF k = l THEN new ELSE loan[k]
  BY <1>1, <1>3, <1>4, FreshUpdate
<1> QED BY <1>1, <1>3, <1>5 DEF LifecycleKept, Lifecycle

LEMMA LifeDisburse ==
  ASSUME TypeOK, LifeInv, NEW t \in Thread, subject[t] \notin contended, Disburse(t)
  PROVE  LifecycleKept
<1> DEFINE l == subject[t]
           old == seenLoan[t]
           new == [old EXCEPT !.status = "DISBURSED"]
<1>1. l \in Loan /\ old \in LoanRow /\ old = loan[l] /\ old.status = "APPROVED"
  BY DEF Disburse, TypeOK, LifeInv, Loaded
<1>2. new \in LoanRow /\ new.status = "DISBURSED"
  BY <1>1, SetLoanStatus DEF LoanStatus
<1>3. \/ loan' = loan
      \/ loan' = [loan EXCEPT ![l] = FlushLoan(loan[l], old, new)]
  BY DEF Disburse
<1> HIDE DEF l, old, new
<1>4. CASE loan' = loan
  BY <1>4 DEF LifecycleKept
<1>5. CASE loan' = [loan EXCEPT ![l] = FlushLoan(loan[l], old, new)]
  <2>1. \A k \in Loan : loan'[k] = IF k = l THEN new ELSE loan[k]
    BY <1>1, <1>2, <1>5, FreshUpdate
  <2> QED BY <1>1, <1>2, <2>1 DEF LifecycleKept, Lifecycle
<1> QED BY <1>3, <1>4, <1>5

LEMMA LifePayEmi ==
  ASSUME TypeOK, LifeInv, NEW t \in Thread, subject[t] \notin contended, PayEmi(t)
  PROVE  LifecycleKept
<1> DEFINE l == subject[t]
           n == seenEmi[t]
           old == seenLoan[t]
           new == AfterPayment(old, n)
<1>1. l \in Loan /\ old \in LoanRow /\ old = loan[l] /\ old.status = "DISBURSED"
      /\ n \in 1 .. Tenure
  BY LoansAssumption DEF PayEmi, TypeOK, LifeInv, Loaded
<1>2. new \in LoanRow /\ new.status \in {"CLOSED", "DISBURSED"}
  BY <1>1, AfterPaymentIsRow
<1>3. \/ loan' = loan
      \/ loan' = [loan EXCEPT ![l] = FlushLoan(loan[l], old, new)]
  BY DEF PayEmi
<1> HIDE DEF l, n, old, new
<1>4. CASE loan' = loan
  BY <1>4 DEF LifecycleKept
<1>5. CASE loan' = [loan EXCEPT ![l] = FlushLoan(loan[l], old, new)]
  <2>1. \A k \in Loan : loan'[k] = IF k = l THEN new ELSE loan[k]
    BY <1>1, <1>2, <1>5, FreshUpdate
  <2> QED BY <1>1, <1>2, <2>1 DEF LifecycleKept, Lifecycle
<1> QED BY <1>3, <1>4, <1>5

LEMMA LifeApply ==
  ASSUME TypeOK, LifeInv, NEW t \in Thread, subject[t] \notin contended, Apply(t)
  PROVE  LifecycleKept
<1> DEFINE l == subject[t]
           new == [status |-> "APPLIED", outstanding |-> Principal, emisPaid |-> 0]
<1>1. l \in Loan /\ loan[l].status = "NONE"
  BY DEF Apply, TypeOK, LifeInv, Loaded
<1>2. loan' = loan \/ loan' = [loan EXCEPT ![l] = new]
  BY DEF Apply
<1> QED BY <1>1, <1>2 DEF TypeOK, LifecycleKept, Lifecycle

LEMMA LifeStep ==
  TypeOK /\ LifeInv /\ [Next]_vars => LifecycleKept
<1> SUFFICES ASSUME TypeOK, LifeInv, [Next]_vars PROVE LifecycleKept
  OBVIOUS
<1>1. CASE UNCHANGED loan
  BY <1>1 DEF LifecycleKept
<1>2. CASE MoveMoney \/ ChangeAccount \/ Quiet \/ UNCHANGED vars
  BY <1>1, <1>2, Zenon DEF MoveMoney, ChangeAccount, Quiet, loanVars, vars
<1>3. ASSUME NEW t \in Thread, Serve(t) PROVE LifecycleKept
  <2>1. CASE \/ LoadApplicant(t) \/ LoadLoan(t) \/ LoadForDisbursement(t)
             \/ LoadEmi(t) \/ LoadForPayment(t) \/ RefuseLoan(t)
    BY <1>1, <2>1, Zenon DEF LoadApplicant, LoadLoan, LoadForDisbursement, LoadEmi,
          LoadForPayment, RefuseLoan, tables
  <2>2. CASE subject[t] \notin contended
    BY <1>3, <2>1, <2>2, LifeApply, LifeDecide, LifeDisburse, LifePayEmi DEF Serve
  <2>3. CASE /\ subject[t] \in contended
             /\ Apply(t) \/ Decide(t) \/ Disburse(t) \/ PayEmi(t)
    BY <2>3, OneLoan DEF LifecycleKept
  <2> QED BY <1>3, <2>1, <2>2, <2>3 DEF Serve
<1> QED BY <1>2, <1>3 DEF Next

\* Whatever the accounts and the other loans do meanwhile, a loan of which no two
\* requests run at once goes from status to status as documented.
THEOREM LifecycleAlwaysFollowed == Spec => LifecycleFollowed
<1>1. TypeOK /\ LifeInv /\ [Next]_vars => [LifecycleKept]_vars
  BY LifeStep
<1>2. Spec => []TypeOK
  BY TypeCorrect
<1>3. Spec => [][LifecycleKept]_vars
  BY <1>1, <1>2, LifeInit, LifeNext, PTL DEF Spec
<1> QED BY <1>3 DEF LifecycleFollowed, LifecycleKept

-----------------------------------------------------------------------------
\* The principal parts of the first EMIs: what the recursive function computes,
\* by induction on the set of the numbers that a statement holds for.

LEMMA SetInduction ==
  ASSUME NEW T, 0 \in T, \A n \in Nat : n \in T => n + 1 \in T
  PROVE  Nat \subseteq T
<1> DEFINE Less == {s \in Nat \X Nat : s[1] < s[2]}
           Rest == Nat \ T
<1> SUFFICES ASSUME Rest # {} PROVE FALSE
  OBVIOUS
<1>1. IsWellFoundedOn(Less, Nat)
  BY NatLessThanWellFounded DEF OpToRel
<1>2. \A m, n \in Nat : m < n => <<m, n>> \in Less
  OBVIOUS
<1>3. Rest \subseteq Nat
  OBVIOUS
<1>4. PICK n \in Rest : \A m \in Rest : <<m, n>> \notin Less
  <2> HIDE DEF Less, Rest
  <2> QED BY <1>1, <1>3, WFMin, Zenon
<1>5. n \in Nat /\ n # 0
  OBVIOUS
<1>6. n - 1 \in Nat /\ n - 1 < n /\ (n - 1) + 1 = n
  BY <1>5
<1>7. n - 1 \notin Rest
  BY <1>2, <1>4, <1>5, <1>6
<1> QED BY <1>4, <1>6, <1>7

\* g holds the sums of the principal parts up to the n-th.
SumsTo(g, n) ==
  g = [k \in 0 .. n |-> IF k = 0 THEN 0 ELSE g[k - 1] + Schedule[k].principal]

LEMMA SumsExist ==
  ASSUME NEW n \in Nat
  PROVE  \E g : SumsTo(g, n)
<1> DEFINE T == {m \in Nat : \E g : SumsTo(g, m)}
<1>1. 0 \in T
  <2> DEFINE g == [k \in 0 .. 0 |-> 0]
  <2>1. SumsTo(g, 0)
    BY DEF SumsTo
  <2> QED BY <2>1
<1>2. ASSUME NEW m \in Nat, m \in T PROVE m + 1 \in T
  <2>1. PICK g : SumsTo(g, m)
    BY <1>2
  <2> DEFINE part(f, k) == IF k = 0 THEN 0 ELSE f[k - 1] + Schedule[k].principal
             h == [k \in 0 .. m + 1 |-> part(g, k)]
  <2>2. \A k \in 0 .. m : h[k] = g[k]
    BY <2>1 DEF SumsTo
  <2>3. \A k \in 0 .. m + 1 : part(h, k) = part(g, k)
    <3> TAKE k \in 0 .. m + 1
    <3>1. k # 0 => k - 1 \in 0 .. m
      OBVIOUS
    <3> HIDE DEF h
    <3> QED BY <2>2, <3>1
  <2>4. h = [k \in 0 .. m + 1 |-> part(h, k)]
    BY <2>3
  <2>5. SumsTo(h, m + 1)
    <3> HIDE DEF h
    <3> QED BY <2>4 DEF SumsTo
  <2> QED BY <2>5
<1> QED BY <1>1, <1>2, SetInduction

LEMMA PrincipalSums ==
  /\ PrincipalUpTo[0] = 0
  /\ \A n \in 1 .. Tenure :
       PrincipalUpTo[n] = PrincipalUpTo[n - 1] + Schedule[n].principal
  /\ \A n \in 0 .. Tenure : PrincipalUpTo[n] \in Nat
<1>1. SumsTo(PrincipalUpTo, Tenure)
  <2>1. PrincipalUpTo = CHOOSE g : SumsTo(g, Tenure)
    BY DEF PrincipalUpTo, SumsTo
  <2>2. \E g : SumsTo(g, Tenure)
    BY SumsExist, LoansAssumption
  <2> QED BY <2>1, <2>2, Zenon
<1>2. /\ PrincipalUpTo[0] = 0
      /\ \A n \in 1 .. Tenure :
           PrincipalUpTo[n] = PrincipalUpTo[n - 1] + Schedule[n].principal
  <2>1. 0 \in 0 .. Tenure /\ \A n \in 1 .. Tenure : n \in 0 .. Tenure /\ n # 0
    BY LoansAssumption
  <2>2. \A n \in 0 .. Tenure :
          PrincipalUpTo[n] = IF n = 0 THEN 0 ELSE PrincipalUpTo[n - 1] + Schedule[n].principal
    BY <1>1 DEF SumsTo
  <2> QED BY <2>1, <2>2
<1> DEFINE T == {n \in Nat : n <= Tenure => PrincipalUpTo[n] \in Nat}
<1>3. 0 \in T
  BY <1>2
<1>4. ASSUME NEW n \in Nat, n \in T PROVE n + 1 \in T
  <2> SUFFICES ASSUME n + 1 <= Tenure PROVE PrincipalUpTo[n + 1] \in Nat
    OBVIOUS
  <2>1. n + 1 \in 1 .. Tenure /\ (n + 1) - 1 = n /\ n <= Tenure
    BY LoansAssumption
  <2>2. PrincipalUpTo[n + 1] = PrincipalUpTo[n] + Schedule[n + 1].principal
    BY <1>2, <2>1
  <2>3. Schedule[n + 1].principal \in Nat
    BY <2>1, LoansAssumption
  <2> QED BY <1>4, <2>1, <2>2, <2>3
<1> HIDE DEF T
<1>5. Nat \subseteq T
  BY <1>3, <1>4, SetInduction
<1> QED BY <1>2, <1>5, LoansAssumption DEF T

-----------------------------------------------------------------------------
\* The books of a loan of which no two requests run at once.

\* What LoanBooks says of one loan; one that has no row yet has paid no EMI.
Booked(l) ==
  /\ paid[l] = 1 .. loan[l].emisPaid
  /\ collected[l] = loan[l].emisPaid
  /\ disbursed[l] = IF loan[l].status \in {"DISBURSED", "CLOSED"} THEN 1 ELSE 0
  /\ loan[l].status = "CLOSED" <=> loan[l].emisPaid = Tenure
  /\ loan[l].outstanding =
       IF loan[l].status \in {"NONE", "CLOSED"} THEN 0
       ELSE Principal - PrincipalUpTo[loan[l].emisPaid]
  /\ loan[l].status = "NONE" => loan[l].emisPaid = 0

\* The EMI that a thread has found to be the first unpaid one follows those that
\* its loan counts.
FirstUnpaid(t) ==
  pc[t] \in {"emi", "ready"} /\ seenEmi[t] # 0
    => seenEmi[t] = loan[subject[t]].emisPaid + 1

BooksInv ==
  /\ \A l \in Loan \ contended : Booked(l)
  /\ \A t \in Thread : subject[t] \notin contended => FirstUnpaid(t)

LEMMA AfterPaymentBooks ==
  ASSUME NEW r \in LoanRow, NEW n \in 1 .. Tenure
  PROVE  /\ AfterPayment(r, n).emisPaid = r.emisPaid + 1
         /\ r.emisPaid + 1 >= Tenure =>
              AfterPayment(r, n).status = "CLOSED" /\ AfterPayment(r, n).outstanding = 0
         /\ ~(r.emisPaid + 1 >= Tenure) =>
              /\ AfterPayment(r, n).status = r.status
              /\ AfterPayment(r, n).outstanding = r.outstanding - Schedule[n].principal
BY LoansAssumption DEF LoanRow, AfterPayment

LEMMA BooksInit == Init => BooksInv
<1> SUFFICES ASSUME Init, NEW l \in Loan PROVE Booked(l) /\ \A t \in Thread : FirstUnpaid(t)
  BY DEF BooksInv, Init, FirstUnpaid
<1>1. loan[l].status = "NONE" /\ loan[l].emisPaid = 0 /\ loan[l].outstanding = 0
  BY DEF Init, NoLoanRow
<1>2. paid[l] = {} /\ collected[l] = 0 /\ disbursed[l] = 0
  BY DEF Init
<1>3. Tenure # 0 /\ 1 .. 0 = {}
  BY LoansAssumption
<1>4. Booked(l)
  BY <1>1, <1>2, <1>3 DEF Booked
<1>5. \A t \in Thread : FirstUnpaid(t)
  BY DEF Init, FirstUnpaid
<1> QED BY <1>4, <1>5

\* Whoever loads an EMI finds the paid ones to be those that the loan counts.
LEMMA BooksLoad ==
  ASSUME TypeOK, LifeInv, BooksInv, NEW t \in Thread,
         \/ LoadApplicant(t) \/ LoadLoan(t) \/ LoadForDisbursement(t)
         \/ LoadEmi(t) \/ LoadForPayment(t)
  PROVE  BooksInv'
<1>1. UNCHANGED tables /\ contended \subseteq contended' /\ OthersKept(t)
  BY DEF LoadApplicant, LoadLoan, LoadForDisbursement, LoadEmi, LoadForPayment, Arrive,
         OthersKept, TypeOK
<1>2. \A l \in Loan \ contended' : Booked(l)'
  BY <1>1 DEF BooksInv, Booked, tables
<1>3. ASSUME NEW u \in Thread, u # t, subject'[u] \notin contended'
      PROVE  FirstUnpaid(u)'
  BY <1>1, <1>3 DEF OthersKept, BooksInv, FirstUnpaid, tables
<1>4. ASSUME subject'[t] \notin contended'
      PROVE  FirstUnpaid(t)'
  <2>1. CASE LoadApplicant(t) \/ LoadLoan(t)
    BY <2>1 DEF LoadApplicant, LoadLoan, Arrive, FirstUnpaid, TypeOK
  <2>2. CASE LoadForDisbursement(t)
    BY <2>2 DEF LoadForDisbursement, FirstUnpaid, LifeInv, TypeOK
  <2>3. CASE LoadForPayment(t)
    BY <1>1, <1>4, <2>3 DEF LoadForPayment, tables, BooksInv, FirstUnpaid, TypeOK
  <2>4. CASE LoadEmi(t)
    <3> DEFINE l == subject[t]
    <3>1. PICK n \in Unpaid(l) :
            /\ \A k \in Unpaid(l) : n <= k
            /\ seenEmi' = [seenEmi EXCEPT ![t] = n]
      BY <2>4 DEF LoadEmi
    <3>2. l \in Loan \ contended /\ loan[l] \in LoanRow
      BY <1>4, <2>4 DEF LoadEmi, TypeOK
    <3>3. Unpaid(l) = (1 .. Tenure) \ (1 .. loan[l].emisPaid) /\ loan[l].emisPaid \in Nat
      BY <1>1, <3>2 DEF BooksInv, Booked, Unpaid, LoanRow
    <3>4. n = loan[l].emisPaid + 1
      <4>1. n \in 1 .. Tenure /\ n > loan[l].emisPaid
        BY <3>3, LoansAssumption
      <4>2. loan[l].emisPaid + 1 \in Unpaid(l)
        <5> DEFINE p == loan[l].emisPaid
        <5>1. Unpaid(l) = (1 .. Tenure) \ (1 .. p) /\ p \in Nat /\ n \in 1 .. Tenure /\ n > p
          BY <3>3, <4>1
        <5> HIDE DEF p
        <5>2. p + 1 \in 1 .. Tenure /\ p + 1 \notin 1 .. p
          BY <5>1, LoansAssumption
        <5> QED BY <5>1, <5>2 DEF p
      <4> QED BY <3>1, <3>3, <4>1, <4>2, LoansAssumption
    <3>5. /\ pc' = [pc EXCEPT ![t] = "emi"]
          /\ UNCHANGED <<loan, subject>>
      BY <2>4 DEF LoadEmi, tables
    <3> HIDE DEF l
    <3> QED BY <3>1, <3>4, <3>5 DEF FirstUnpaid, TypeOK, l
  <2> QED BY <2>1, <2>2, <2>3, <2>4
<1> QED BY <1>2, <1>3, <1>4 DEF BooksInv

\* An answer keeps the books if it keeps those of the loan that it is about.
LEMMA BooksAnswer ==
  ASSUME TypeOK, LifeInv, BooksInv, NEW t \in Thread,
         Apply(t) \/ RefuseLoan(t) \/ Decide(t) \/ Disburse(t) \/ PayEmi(t),
         NEW l \in Loan, l = subject[t], l \notin contended => Booked(l)'
  PROVE  BooksInv'
<1>1. /\ pc'[t] = "idle" /\ UNCHANGED contended /\ OthersKept(t)
  BY OneLoan DEF Answer, OthersKept, TypeOK
<1>2. ASSUME NEW k \in Loan \ contended' PROVE Booked(k)'
  <2>1. CASE k = l
    BY <1>1, <1>2, <2>1
  <2>2. CASE k # l
    <3>1. /\ loan'[k] = loan[k] /\ paid'[k] = paid[k]
          /\ disbursed'[k] = disbursed[k] /\ collected'[k] = collected[k]
      BY <2>2, OneLoan
    <3> QED BY <1>1, <3>1 DEF BooksInv, Booked
  <2> QED BY <2>1, <2>2
<1>3. ASSUME NEW u \in Thread, subject'[u] \notin contended' PROVE FirstUnpaid(u)'
  <2>1. CASE u = t
    BY <1>1, <2>1 DEF FirstUnpaid
  <2>2. CASE u # t /\ pc[u] # "idle"
    <3>1. subject'[u] = subject[u] /\ FirstUnpaid(u) /\ subject[u] \in Loan
      BY <1>1, <1>3, <2>2 DEF OthersKept, BooksInv, TypeOK
    <3>2. loan'[subject[u]] = loan[subject[u]]
      BY <1>1, <1>3, <2>2, <3>1, OneLoan DEF LifeInv, Alone
    <3> QED BY <1>1, <2>2, <3>1, <3>2 DEF OthersKept, FirstUnpaid
  <2>3. CASE u # t /\ pc[u] = "idle"
    BY <1>1, <2>3 DEF OthersKept, FirstUnpaid
  <2> QED BY <2>1, <2>2, <2>3
<1> QED BY <1>2, <1>3 DEF BooksInv

LEMMA BooksApply ==
  ASSUME TypeOK, LifeInv, BooksInv, NEW t \in Thread, Apply(t),
         NEW l \in Loan, l = subject[t]
  PROVE  BooksInv'
<1> DEFINE new == [status |-> "APPLIED", outstanding |-> Principal, emisPaid |-> 0]
<1>1. l \in Loan /\ pc[t] # "idle" /\ Answer(t) /\ UNCHANGED <<paid, disbursed, collected>>
      /\ (loan' = loan \/ loan' = [loan EXCEPT ![l] = new])
  BY DEF Apply, TypeOK
<1>2. ASSUME l \notin contended PROVE Booked(l)'
  <2>1. Booked(l)
    BY <1>1, <1>2 DEF BooksInv
  <2>2. CASE loan' = loan
    BY <1>1, <2>1, <2>2 DEF Booked
  <2>3. CASE loan' = [loan EXCEPT ![l] = new]
    <3>1. loan[l].status = "NONE" /\ loan[l].emisPaid = 0
      BY <1>2, <2>1 DEF Apply, LifeInv, Loaded, Booked
    <3>2. loan'[l] = new
      BY <1>1, <2>3 DEF TypeOK
    <3>3. loan'[l].status = "APPLIED" /\ loan'[l].emisPaid = 0 /\ loan'[l].outstanding = Principal
      BY <3>2
    <3>4. Tenure # 0 /\ Principal - PrincipalUpTo[0] = Principal
      BY LoansAssumption, PrincipalSums
    <3> HIDE DEF new
    <3> QED BY <1>1, <2>1, <3>1, <3>3, <3>4 DEF Booked
  <2> QED BY <1>1, <2>2, <2>3
<1> QED BY <1>2, BooksAnswer

\* A change of status that neither closes the loan nor takes it back to where it
\* had no row; a disbursement adds its transaction.
LEMMA BooksStatus ==
  ASSUME TypeOK, NEW l \in Loan, Booked(l), NEW s \in LoanStatus,
         loan[l].status \in {"APPLIED", "APPROVED"},
         s \in {"APPROVED", "REJECTED", "DISBURSED"},
         loan'[l] = [loan[l] EXCEPT !.status = s],
         paid'[l] = paid[l], collected'[l] = collected[l],
         disbursed'[l] = IF s = "DISBURSED" THEN disbursed[l] + 1 ELSE disbursed[l]
  PROVE  Booked(l)'
<1>1. loan[l] \in LoanRow
  BY DEF TypeOK
<1>2. /\ loan'[l].status = s /\ loan'[l].emisPaid = loan[l].emisPaid
      /\ loan'[l].outstanding = loan[l].outstanding
  BY <1>1 DEF LoanRow
<1> QED BY <1>2 DEF Booked

LEMMA BooksDecide ==
  ASSUME TypeOK, LifeInv, BooksInv, NEW t \in Thread, Decide(t),
         NEW l \in Loan, l = subject[t]
  PROVE  BooksInv'
<1> DEFINE old == seenLoan[t]
<1>1. /\ l \in Loan /\ old \in LoanRow /\ pc[t] # "idle" /\ Answer(t)
      /\ UNCHANGED <<paid, disbursed, collected>> /\ old.status = "APPLIED"
  BY DEF Decide, TypeOK
<1>2. PICK s \in {"APPROVED", "REJECTED"} :
        loan' = [loan EXCEPT ![l] = FlushLoan(@, old, [old EXCEPT !.status = s])]
  BY Zenon DEF Decide
<1>3. ASSUME l \notin contended PROVE Booked(l)'
  <2> DEFINE new == [old EXCEPT !.status = s]
  <2>1. Booked(l) /\ old = loan[l]
    BY <1>1, <1>3 DEF BooksInv, Decide, LifeInv, Loaded
  <2>2. s \in LoanStatus /\ new \in LoanRow
    BY <1>1, SetLoanStatus DEF LoanStatus
  <2>3. loan' = [loan EXCEPT ![l] = FlushLoan(loan[l], old, new)]
    BY <1>2
  <2> HIDE DEF old
  <2>4. loan'[l] = new
    <3> HIDE DEF new
    <3>1. \A k \in Loan : loan'[k] = IF k = l THEN new ELSE loan[k]
      BY <1>1, <2>1, <2>2, <2>3, FreshUpdate
    <3> QED BY <3>1
  <2> QED BY <1>1, <2>1, <2>2, <2>4, BooksStatus
<1> QED BY <1>3, BooksAnswer

LEMMA BooksDisburse ==
  ASSUME TypeOK, LifeInv, BooksInv, NEW t \in Thread, Disburse(t),
         NEW l \in Loan, l = subject[t]
  PROVE  BooksInv'
<1> DEFINE old == seenLoan[t]
           new == [old EXCEPT !.status = "DISBURSED"]
<1>1. /\ l \in Loan /\ old \in LoanRow /\ pc[t] # "idle" /\ Answer(t)
      /\ UNCHANGED <<paid, collected>>
  BY DEF Disburse, TypeOK
<1>2. \/ UNCHANGED <<loan, disbursed>>
      \/ /\ loan' = [loan EXCEPT ![l] = FlushLoan(loan[l], old, new)]
         /\ disbursed' = [disbursed EXCEPT ![l] = @ + 1]
  BY DEF Disburse
<1>3. ASSUME l \notin contended PROVE Booked(l)'
  <2>1. Booked(l) /\ old = loan[l] /\ old.status = "APPROVED"
    BY <1>1, <1>3 DEF BooksInv, Disburse, LifeInv, Loaded
  <2>2. "DISBURSED" \in LoanStatus /\ new \in LoanRow
    BY <1>1, SetLoanStatus DEF LoanStatus
  <2> HIDE DEF old
  <2>3. CASE UNCHANGED <<loan, disbursed>>
    BY <1>1, <2>1, <2>3 DEF Booked
  <2>4. CASE /\ loan' = [loan EXCEPT ![l] = FlushLoan(loan[l], old, new)]
             /\ disbursed' = [disbursed EXCEPT ![l] = @ + 1]
    <3>1. loan'[l] = new
      <4> HIDE DEF new
      <4>1. old \in LoanRow /\ new \in LoanRow /\ old = loan[l]
        BY <1>1, <2>1, <2>2
      <4>2. loan' = [loan EXCEPT ![l] = FlushLoan(loan[l], old, new)]
        BY <2>4
      <4>3. FlushLoan(loan[l], old, new) = new
        BY <4>1, FlushLoanUnmoved
      <4> QED BY <4>2, <4>3 DEF TypeOK
    <3>2. disbursed'[l] = disbursed[l] + 1
      BY <1>1, <2>4 DEF TypeOK
    <3> QED BY <1>1, <2>1, <2>2, <3>1, <3>2, BooksStatus
  <2> QED BY <1>2, <2>3, <2>4
<1> QED BY <1>3, BooksAnswer

\* The payment of the EMI that follows the paid ones.
LEMMA BooksPaid ==
  ASSUME TypeOK, NEW l \in Loan, Booked(l), NEW n \in 1 .. Tenure,
         loan[l].status = "DISBURSED", n = loan[l].emisPaid + 1,
         loan'[l] = AfterPayment(loan[l], n),
         paid'[l] = paid[l] \cup {n}, collected'[l] = collected[l] + 1,
         disbursed'[l] = disbursed[l]
  PROVE  Booked(l)'
<1>1. loan[l] \in LoanRow /\ loan[l].emisPaid \in Nat
  BY DEF TypeOK, LoanRow
<1>2. loan'[l].emisPaid = n /\ paid'[l] = 1 .. n /\ collected'[l] = n
  BY <1>1, AfterPaymentBooks DEF Booked
<1>3. CASE n >= Tenure
  <2>1. n = Tenure
    BY <1>3, LoansAssumption
  <2>2. loan'[l].status = "CLOSED" /\ loan'[l].outstanding = 0
    BY <1>1, <1>3, AfterPaymentBooks
  <2> QED BY <1>2, <2>1, <2>2, LoansAssumption DEF Booked
<1>4. CASE ~(n >= Tenure)
  <2>1. /\ loan'[l].status = "DISBURSED"
        /\ loan'[l].outstanding = loan[l].outstanding - Schedule[n].principal
    BY <1>1, <1>4, AfterPaymentBooks
  <2>2. /\ PrincipalUpTo[n] = PrincipalUpTo[n - 1] + Schedule[n].principal
        /\ n - 1 = loan[l].emisPaid /\ n - 1 \in 0 .. Tenure
        /\ PrincipalUpTo[n - 1] \in Nat /\ Schedule[n].principal \in Nat
    <3>1. n - 1 = loan[l].emisPaid /\ n - 1 \in 0 .. Tenure
      <4> DEFINE p == loan[l].emisPaid
      <4>1. p \in Nat /\ n = p + 1
        BY <1>1
      <4> HIDE DEF p
      <4>2. n - 1 = p /\ n - 1 \in 0 .. Tenure
        BY <4>1, LoansAssumption
      <4> QED BY <4>2 DEF p
    <3>2. Schedule[n].principal \in Nat
      BY LoansAssumption
    <3> QED BY <3>1, <3>2, PrincipalSums
  <2>3. loan[l].outstanding = Principal - PrincipalUpTo[n - 1]
    BY <2>2 DEF Booked
  <2>4. loan'[l].outstanding = Principal - PrincipalUpTo[n]
    BY <2>1, <2>2, <2>3, LoansAssumption
  <2> QED BY <1>2, <1>4, <2>1, <2>4, LoansAssumption DEF Booked
<1> QED BY <1>3, <1>4

LEMMA BooksPayEmi ==
  ASSUME TypeOK, LifeInv, BooksInv, NEW t \in Thread, PayEmi(t),
         NEW l \in Loan, l = subject[t]
  PROVE  BooksInv'
<1> DEFINE n == seenEmi[t]
           old == seenLoan[t]
           new == AfterPayment(old, n)
<1>1. /\ l \in Loan /\ old \in LoanRow /\ n \in 1 .. Tenure /\ pc[t] # "idle" /\ Answer(t)
      /\ UNCHANGED disbursed
  BY LoansAssumption DEF PayEmi, TypeOK
<1>2. \/ UNCHANGED <<paid, loan, collected>>
      \/ /\ loan' = [loan EXCEPT ![l] = FlushLoan(loan[l], old, new)]
         /\ paid' = [paid EXCEPT ![l] = @ \cup {n}]
         /\ collected' = [collected EXCEPT ![l] = @ + 1]
  BY DEF PayEmi
<1>3. ASSUME l \notin contended PROVE Booked(l)'
  <2>1. /\ Booked(l) /\ old = loan[l] /\ old.status = "DISBURSED"
        /\ n = loan[l].emisPaid + 1
    BY <1>1, <1>3 DEF BooksInv, PayEmi, LifeInv, Loaded, FirstUnpaid
  <2>2. new \in LoanRow
    BY <1>1, AfterPaymentIsRow
  <2> HIDE DEF old, n
  <2>3. CASE UNCHANGED <<paid, loan, collected>>
    BY <1>1, <2>1, <2>3 DEF Booked
  <2>4. CASE /\ loan' = [loan EXCEPT ![l] = FlushLoan(loan[l], old, new)]
             /\ paid' = [paid EXCEPT ![l] = @ \cup {n}]
             /\ collected' = [collected EXCEPT ![l] = @ + 1]
    <3>1. loan'[l] = new
      <4> HIDE DEF new
      <4>1. old \in LoanRow /\ new \in LoanRow /\ old = loan[l]
        BY <1>1, <2>1, <2>2
      <4>2. loan' = [loan EXCEPT ![l] = FlushLoan(loan[l], old, new)]
        BY <2>4
      <4>3. FlushLoan(loan[l], old, new) = new
        BY <4>1, FlushLoanUnmoved
      <4> QED BY <4>2, <4>3 DEF TypeOK
    <3>2. paid'[l] = paid[l] \cup {n} /\ collected'[l] = collected[l] + 1
      BY <1>1, <2>4 DEF TypeOK
    <3> QED BY <1>1, <2>1, <3>1, <3>2, BooksPaid
  <2> QED BY <1>2, <2>3, <2>4
<1> QED BY <1>3, BooksAnswer

LEMMA BooksNext == TypeOK /\ LifeInv /\ BooksInv /\ [Next]_vars => BooksInv'
<1> SUFFICES ASSUME TypeOK, LifeInv, BooksInv, [Next]_vars PROVE BooksInv'
  OBVIOUS
<1>1. CASE MoveMoney \/ ChangeAccount \/ Quiet \/ UNCHANGED vars
  <2>1. UNCHANGED loanVars
    BY <1>1 DEF MoveMoney, ChangeAccount, Quiet, vars, loanVars
  <2> QED BY <2>1 DEF loanVars, BooksInv, Booked, FirstUnpaid
<1>2. ASSUME NEW t \in Thread, RefuseLoan(t) PROVE BooksInv'
  <2>1. UNCHANGED tables
    BY <1>2 DEF RefuseLoan
  <2>2. PICK l \in Loan : l = subject[t]
    BY <1>2, OneLoan
  <2>3. l \notin contended => Booked(l)'
    BY <2>1 DEF tables, BooksInv, Booked
  <2> QED BY <1>2, <2>2, <2>3, BooksAnswer
<1>3. \A t \in Thread : Apply(t) \/ Decide(t) \/ Disburse(t) \/ PayEmi(t)
                         => subject[t] \in Loan
  BY OneLoan
<1> QED BY <1>1, <1>2, <1>3, BooksLoad, BooksApply, BooksDecide, BooksDisburse, BooksPayEmi
        DEF Next, Serve

\* Whatever the accounts and the other loans do meanwhile, the row, the EMIs and the
\* transactions of a loan of which no two requests run at once tell the same story
\* for every schedule: the first EMIs are paid, and what is outstanding is what was
\* lent less their principal parts.
THEOREM LoanBooksAlways == Spec => []LoanBooks
<1>1. BooksInv => LoanBooks
  BY DEF BooksInv, Booked, LoanBooks
<1> QED BY <1>1, TypeCorrect, LifeInit, LifeNext, BooksInit, BooksNext, PTL DEF Spec
=============================================================================
