-------------------------------- MODULE Loans --------------------------------
(***************************************************************************)
(* loan_service.py: application, approval or rejection, disbursement and   *)
(* EMI payment, as the threads that serve them read and write the loans,   *)
(* loan_emis and accounts tables (see AccountTable for the row UPDATEs).   *)
(*                                                                         *)
(* A request loads the loan, a payment then loads the next unpaid EMI, and *)
(* disbursement and payment load the linked account last; each query sees  *)
(* what is committed when it runs.  The account itself also moves: its     *)
(* customer deposits and withdraws, and managers change its status.        *)
(***************************************************************************)
EXTENDS AccountTable, FiniteSets

CONSTANTS
  Loan,           \* the loans that may be applied for
  NoLoan,         \* the loan of a thread that serves none
  Account,        \* the accounts
  Thread,         \* the threads that serve requests
  Linked,         \* Linked[l]: linked_account_id
  Principal,      \* principal_paise, the same for every loan
  Tenure,         \* tenure_months
  Schedule,       \* Schedule[n]: amount and principal part of EMI n, as
                  \*   calculate_amortization_schedule returns them
  MinBalance,     \* the floor of the accounts
  Opening,        \* their opening balance
  MaxBalance,     \* bound: what customers keep in an account
  MaxRequests     \* bound: the loan requests that arrive

ASSUME LoansAssumption ==
  /\ NoLoan \notin Loan
  /\ Linked \in [Loan -> Account]
  /\ Principal \in Nat \ {0}
  /\ Tenure \in Nat \ {0}
  /\ Schedule \in [1 .. Tenure -> [amount : Nat, principal : Nat]]
  /\ MinBalance \in Nat
  /\ Opening \in Nat /\ Opening >= MinBalance
  /\ MaxBalance \in Nat
  /\ MaxRequests \in Nat

\* LoanStatus; "NONE" before there is a row.  DEFAULTED is never assigned.
LoanStatus == {"NONE", "APPLIED", "APPROVED", "DISBURSED", "CLOSED", "REJECTED",
               "DEFAULTED"}

LoanRow == [status : LoanStatus, outstanding : Int, emisPaid : Nat]

NoLoanRow == [status |-> "NONE", outstanding |-> 0, emisPaid |-> 0]

VARIABLES
  loan,           \* loan[l]: its row
  paid,           \* paid[l]: the numbers of its EMIs with is_paid
  row,            \* row[a]: the row of account a
  pc,             \* how far the request of thread t has come
  subject,        \* the loan it is about
  seenLoan,       \* that loan's row, as loaded
  seenEmi,        \* the EMI it is to pay, 0 for none
  seenRow,        \* the linked account's row, as loaded
  disbursed,      \* disbursed[l]: LOAN_DISBURSEMENT rows in transactions
  collected,      \* collected[l]: LOAN_EMI rows in transactions
  served,         \* the requests that have arrived
  contended       \* history: the loans of which two requests have been served
                  \*   at the same time

vars == <<loan, paid, row, pc, subject, seenLoan, seenEmi, seenRow, disbursed,
          collected, served, contended>>

PC == {"idle", "applying", "loan", "emi", "ready"}

Init ==
  /\ loan = [l \in Loan |-> NoLoanRow]
  /\ paid = [l \in Loan |-> {}]
  /\ row = [a \in Account |-> [balance |-> Opening, status |-> "ACTIVE",
                               withdrawn |-> 0, resetDay |-> 0, credited |-> 0]]
  /\ pc = [t \in Thread |-> "idle"]
  /\ subject = [t \in Thread |-> NoLoan]
  /\ seenLoan = [t \in Thread |-> NoLoanRow]
  /\ seenEmi = [t \in Thread |-> 0]
  /\ seenRow = [t \in Thread |-> NoRow]
  /\ disbursed = [l \in Loan |-> 0]
  /\ collected = [l \in Loan |-> 0]
  /\ served = 0
  /\ contended = {}

tables == <<loan, paid, row, disbursed, collected>>

\* The UPDATE of a loan row, column by column as in AccountTable.
FlushLoan(cur, old, new) ==
  [status      |-> IF new.status = old.status THEN cur.status ELSE new.status,
   outstanding |-> IF new.outstanding = old.outstanding THEN cur.outstanding
                                                        ELSE new.outstanding,
   emisPaid    |-> IF new.emisPaid = old.emisPaid THEN cur.emisPaid
                                                  ELSE new.emisPaid]

\* A request about loan l arrives.
Arrive(t, l) ==
  /\ pc[t] = "idle" /\ served < MaxRequests
  /\ subject' = [subject EXCEPT ![t] = l]
  /\ served' = served + 1
  /\ contended' = contended \cup ({l} \cap {subject[u] : u \in Thread})

\* The request is answered.
Answer(t) ==
  /\ pc' = [pc EXCEPT ![t] = "idle"]
  /\ subject' = [subject EXCEPT ![t] = NoLoan]
  /\ seenLoan' = [seenLoan EXCEPT ![t] = NoLoanRow]
  /\ seenEmi' = [seenEmi EXCEPT ![t] = 0]
  /\ seenRow' = [seenRow EXCEPT ![t] = NoRow]
  /\ UNCHANGED <<served, contended>>

-----------------------------------------------------------------------------
\* apply_loan: the application of an eligible customer (KYC, credit score and
\* account age are the customer's) with an account that is ACTIVE when loaded.
LoadApplicant(t) ==
  /\ \E l \in Loan :
       /\ loan[l].status = "NONE" /\ \A u \in Thread : subject[u] # l
       /\ Arrive(t, l)
       /\ seenRow' = [seenRow EXCEPT ![t] = row[Linked[l]]]
  /\ pc' = [pc EXCEPT ![t] = "applying"]
  /\ UNCHANGED <<tables, seenLoan, seenEmi>>

Apply(t) ==
  /\ pc[t] = "applying"
  /\ LET l == subject[t]
     IN IF IsActive(seenRow[t])
        THEN loan' = [loan EXCEPT ![l] = [status |-> "APPLIED",
                                          outstanding |-> Principal,
                                          emisPaid |-> 0]]
        ELSE UNCHANGED loan
  /\ Answer(t)
  /\ UNCHANGED <<paid, row, disbursed, collected>>

\* The query that opens the other handlers.
LoadLoan(t) ==
  /\ \E l \in Loan :
       /\ loan[l].status # "NONE"
       /\ Arrive(t, l)
       /\ seenLoan' = [seenLoan EXCEPT ![t] = loan[l]]
  /\ pc' = [pc EXCEPT ![t] = "loan"]
  /\ UNCHANGED <<tables, seenEmi, seenRow>>

\* Mutant of Decide: the state of the loan is not checked.
DecideAnyState(t) ==
  /\ pc[t] = "loan"
  /\ LET l == subject[t]
         old == seenLoan[t]
     IN \E s \in {"APPROVED", "REJECTED"} :
          loan' = [loan EXCEPT ![l] = FlushLoan(@, old, [old EXCEPT !.status = s])]
  /\ Answer(t)
  /\ UNCHANGED <<paid, row, disbursed, collected>>

\* approve_or_reject_loan
Decide(t) ==
  /\ pc[t] = "loan"
  /\ LET l == subject[t]
         old == seenLoan[t]
     IN /\ old.status = "APPLIED"
        /\ \E s \in {"APPROVED", "REJECTED"} :
             loan' = [loan EXCEPT ![l] = FlushLoan(@, old, [old EXCEPT !.status = s])]
  /\ Answer(t)
  /\ UNCHANGED <<paid, row, disbursed, collected>>

\* The loan is not in the state that the handler wants, or a rejection comes
\* without a reason.
RefuseLoan(t) ==
  /\ pc[t] = "loan"
  /\ Answer(t)
  /\ UNCHANGED tables

\* disburse_loan goes on to the linked account ...
LoadForDisbursement(t) ==
  /\ pc[t] = "loan" /\ seenLoan[t].status = "APPROVED"
  /\ seenRow' = [seenRow EXCEPT ![t] = row[Linked[subject[t]]]]
  /\ pc' = [pc EXCEPT ![t] = "ready"]
  /\ UNCHANGED <<tables, subject, seenLoan, seenEmi, served, contended>>

\* ... and credits it.
Disburse(t) ==
  /\ pc[t] = "ready" /\ seenEmi[t] = 0
  /\ LET l == subject[t]
         old == seenRow[t]
     IN IF IsActive(old)
        THEN /\ row' = [row EXCEPT ![Linked[l]] =
                          Flush(@, old, [old EXCEPT !.balance = @ + Principal])]
             /\ loan' = [loan EXCEPT ![l] =
                           FlushLoan(@, seenLoan[t],
                                     [seenLoan[t] EXCEPT !.status = "DISBURSED"])]
             /\ disbursed' = [disbursed EXCEPT ![l] = @ + 1]
        ELSE UNCHANGED <<row, loan, disbursed>>
  /\ Answer(t)
  /\ UNCHANGED <<paid, collected>>

\* Mutants of what follows: the schedule is numbered from 2, the loan is
\* closed one EMI late, and the balance has to cover the principal part only.
UnpaidFromTwo(l) == (2 .. Tenure + 1) \ paid[l]

ClosedOneLate(r, n) ==
  IF r.emisPaid >= Tenure
  THEN [r EXCEPT !.emisPaid = @ + 1, !.status = "CLOSED", !.outstanding = 0]
  ELSE [r EXCEPT !.emisPaid = @ + 1,
                 !.outstanding = @ - Schedule[n].principal]

CoversPrincipal(r, n) == r.balance >= Schedule[n].principal

\* pay_emi goes on to the first EMI that is not paid ...
Unpaid(l) == (1 .. Tenure) \ paid[l]

LoadEmi(t) ==
  /\ pc[t] = "loan" /\ seenLoan[t].status = "DISBURSED"
  /\ \E n \in Unpaid(subject[t]) :
       /\ \A k \in Unpaid(subject[t]) : n <= k
       /\ seenEmi' = [seenEmi EXCEPT ![t] = n]
  /\ pc' = [pc EXCEPT ![t] = "emi"]
  /\ UNCHANGED <<tables, subject, seenLoan, seenRow, served,
                 contended>>

LoadForPayment(t) ==
  /\ pc[t] = "emi"
  /\ seenRow' = [seenRow EXCEPT ![t] = row[Linked[subject[t]]]]
  /\ pc' = [pc EXCEPT ![t] = "ready"]
  /\ UNCHANGED <<tables, subject, seenLoan, seenEmi, served, contended>>

\* What a payment of EMI n makes of the loan.
AfterPayment(r, n) ==
  IF r.emisPaid + 1 >= Tenure
  THEN [r EXCEPT !.emisPaid = @ + 1, !.status = "CLOSED", !.outstanding = 0]
  ELSE [r EXCEPT !.emisPaid = @ + 1,
                 !.outstanding = @ - Schedule[n].principal]

Covers(r, n) == r.balance >= Schedule[n].amount

\* ... and debits the account: the only check is that the balance covers it.
PayEmi(t) ==
  /\ pc[t] = "ready" /\ seenEmi[t] # 0
  /\ LET l == subject[t]
         n == seenEmi[t]
         old == seenRow[t]
     IN IF Covers(old, n)
        THEN /\ row' = [row EXCEPT ![Linked[l]] =
                          Flush(@, old, [old EXCEPT !.balance = @ - Schedule[n].amount])]
             /\ paid' = [paid EXCEPT ![l] = @ \cup {n}]
             /\ loan' = [loan EXCEPT ![l] =
                           FlushLoan(@, seenLoan[t], AfterPayment(seenLoan[t], n))]
             /\ collected' = [collected EXCEPT ![l] = @ + 1]
        ELSE UNCHANGED <<row, paid, loan, collected>>
  /\ Answer(t)
  /\ UNCHANGED disbursed

-----------------------------------------------------------------------------
\* The account's own requests, each served before the next one.
loanVars == <<loan, paid, pc, subject, seenLoan, seenEmi, seenRow, disbursed,
              collected, served, contended>>

\* deposit and withdraw, in steps that any amount can be.
MoveMoney ==
  /\ \E a \in Account, b \in 0 .. MaxBalance :
       /\ IsActive(row[a])
       /\ b > row[a].balance \/ (b < row[a].balance /\ b >= MinBalance)
       /\ row' = [row EXCEPT ![a].balance = b]
  /\ UNCHANGED loanVars

\* update_account_status
ChangeAccount ==
  /\ \E a \in Account, s \in Status :
       /\ row[a].status # "CLOSED"
       /\ row' = [row EXCEPT ![a].status = s]
  /\ UNCHANGED loanVars

Serve(t) ==
  \/ LoadApplicant(t) \/ Apply(t)
  \/ LoadLoan(t) \/ RefuseLoan(t) \/ Decide(t)
  \/ LoadForDisbursement(t) \/ Disburse(t)
  \/ LoadEmi(t) \/ LoadForPayment(t) \/ PayEmi(t)

\* All the loan requests of the run are answered.
Quiet ==
  /\ served = MaxRequests /\ \A t \in Thread : pc[t] = "idle"
  /\ UNCHANGED vars

Next == MoveMoney \/ ChangeAccount \/ Quiet \/ \E t \in Thread : Serve(t)

Spec == Init /\ [][Next]_vars

-----------------------------------------------------------------------------
\* Properties.

\* Every variable keeps its type; a busy thread is about a loan, and a thread
\* that pays has an EMI of the schedule to pay.
TypeOK ==
  /\ loan \in [Loan -> LoanRow]
  /\ paid \in [Loan -> SUBSET (1 .. Tenure)]
  /\ row \in [Account -> Row]
  /\ pc \in [Thread -> PC]
  /\ subject \in [Thread -> Loan \cup {NoLoan}]
  /\ seenLoan \in [Thread -> LoanRow]
  /\ seenEmi \in [Thread -> 0 .. Tenure]
  /\ seenRow \in [Thread -> Row]
  /\ disbursed \in [Loan -> Nat]
  /\ collected \in [Loan -> Nat]
  /\ served \in Nat /\ contended \subseteq Loan
  /\ \A t \in Thread : pc[t] # "idle" => subject[t] \in Loan

\* "Never allow negative balances": neither EMIs nor disbursements bring the
\* account below zero, whatever commits between their steps.
NeverNegative == \A a \in Account : row[a].balance >= 0

\* A loan is paid out at most once: "APPLIED -> APPROVED -> DISBURSED ->
\* CLOSED | DEFAULTED" (loan_service.py:10) enters DISBURSED once.
DisbursedOnce == \A l \in Loan : disbursed[l] <= 1

\* Of a loan of which no two requests have run at once, whatever is done to
\* other loans on the same account: what is outstanding is what was lent less
\* the principal parts of the EMIs that are marked paid, these are the first
\* ones of the schedule, each has a transaction, and so has the disbursement.
PrincipalUpTo[n \in 0 .. Tenure] ==
  IF n = 0 THEN 0 ELSE PrincipalUpTo[n - 1] + Schedule[n].principal

LoanBooks ==
  \A l \in Loan \ contended :
    /\ paid[l] = 1 .. loan[l].emisPaid
    /\ collected[l] = loan[l].emisPaid
    /\ disbursed[l] = IF loan[l].status \in {"DISBURSED", "CLOSED"} THEN 1 ELSE 0
    /\ loan[l].status = "CLOSED" <=> loan[l].emisPaid = Tenure
    /\ loan[l].outstanding =
         IF loan[l].status \in {"NONE", "CLOSED"} THEN 0
         ELSE Principal - PrincipalUpTo[loan[l].emisPaid]

\* Such a loan goes through the "Loan statuses: APPLIED -> APPROVED ->
\* DISBURSED -> CLOSED | DEFAULTED" (loan_service.py:10), REJECTED being the
\* other answer to an application.
Lifecycle == {<<"NONE", "APPLIED">>, <<"APPLIED", "APPROVED">>,
              <<"APPLIED", "REJECTED">>, <<"APPROVED", "DISBURSED">>,
              <<"DISBURSED", "CLOSED">>, <<"DISBURSED", "DEFAULTED">>}

LifecycleFollowed ==
  [][\A l \in Loan \ contended : loan'[l].status # loan[l].status
       => <<loan[l].status, loan'[l].status>> \in Lifecycle]_vars
=============================================================================
