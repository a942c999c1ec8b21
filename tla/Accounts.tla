------------------------------ MODULE Accounts ------------------------------
(***************************************************************************)
(* The account handlers: deposit, withdraw, transfer (transaction_service),*)
(* update_account_status (account_service), close_fd_premature and         *)
(* credit_monthly_interest (interest_service), as the threads of FastAPI's *)
(* pool run them over READ COMMITTED transactions.                         *)
(*                                                                         *)
(* A request is two or three steps of its thread: it loads the row (the    *)
(* source's, then the destination's, in a transfer; all the interest       *)
(* bearing ones in the batch), and later it checks what it loaded, flushes *)
(* and commits.  Between the steps other threads commit.  What a request   *)
(* asks (handler, amount, new status) is chosen at its last step, since    *)
(* the loads do not depend on it.                                          *)
(***************************************************************************)
EXTENDS AccountTable

CONSTANTS
  Account,        \* the accounts that were opened
  NoAccount,      \* the value of a thread's account when it has none
  Thread,         \* the threads that serve requests
  Kind,           \* Kind[a]: the account type of a
  Opening,        \* Opening[a]: its opening balance
  Rate,           \* Rate[a]: its interest rate, in parts of RateUnit a day
  RateUnit,
  PenaltyUnit,    \* a premature closure costs 1/PenaltyUnit of the balance
  MinBalance,     \* MIN_BALANCES, by account type
  DailyLimit,     \* DAILY_LIMITS, by account type; 0 for FIXED_DEPOSIT
  Amounts,        \* the amounts that clients send (the schemas require > 0)
  DayLength,      \* clock units in a day
  UtcOffset,      \* the server's local time minus UTC, in clock units
  MaxClock,       \* bound: the clock stops there
  MaxRequests     \* bound: the requests that arrive

ASSUME AccountsAssumption ==
  /\ NoAccount \notin Account
  /\ Kind \in [Account -> AccountType]
  /\ MinBalance \in [AccountType -> Nat]
  /\ Opening \in [Account -> Nat]
  /\ \A a \in Account : Opening[a] >= MinBalance[Kind[a]]
  /\ Rate \in [Account -> Nat]
  /\ RateUnit \in Nat \ {0}
  /\ PenaltyUnit \in Nat \ {0}
  /\ DailyLimit \in [AccountType -> Nat]
  /\ DailyLimit["FIXED_DEPOSIT"] = 0
  /\ Amounts \subseteq Nat \ {0}
  /\ DayLength \in Nat \ {0}
  /\ UtcOffset \in Int
  /\ MaxClock \in Nat
  /\ MaxRequests \in Nat

VARIABLES
  row,            \* row[a]: the row of account a, as committed
  pc,             \* pc[t]: how far the request of thread t has come
  from, into,     \* the account t loaded first, and a transfer's destination
  seen,           \* seen[t][a]: the row of a as t loaded it
  posted,         \* posted[a]: net of a's SUCCESS rows in transactions
  failed,         \* failed[a]: the number of a's FAILED rows
  paidOut,        \* what a premature closure handed out (it has no row)
  spent,          \* spent[a]: debited by withdrawals and transfers since the
                  \*   last local midnight
  clock,          \* the time
  served,         \* the requests that have arrived
  contended       \* history: the accounts whose row two requests have held at
                  \*   the same time

vars == <<row, pc, from, into, seen, posted, failed, paidOut, spent, clock,
          served, contended>>

PC == {"idle", "one", "two", "batch"}

LocalDay(c) == (c + UtcOffset) \div DayLength     \* date.today()
UtcDay(c) == c \div DayLength                     \* datetime.utcnow().date()

Init ==
  /\ row = [a \in Account |->
              [balance |-> Opening[a], status |-> "ACTIVE", withdrawn |-> 0,
               resetDay |-> UtcDay(0), credited |-> 0]]
  /\ pc = [t \in Thread |-> "idle"]
  /\ from = [t \in Thread |-> NoAccount]
  /\ into = [t \in Thread |-> NoAccount]
  /\ seen = [t \in Thread |-> [a \in Account |-> NoRow]]
  /\ posted = [a \in Account |-> 0]
  /\ failed = [a \in Account |-> 0]
  /\ paidOut = [a \in Account |-> 0]
  /\ spent = [a \in Account |-> 0]
  /\ clock = 0
  /\ served = 0
  /\ contended = {}

-----------------------------------------------------------------------------
\* The queries that open a request.

\* Request t has loaded the row of account a and not yet finished.
Holds(t, a) ==
  \/ pc[t] \in {"one", "two"} /\ from[t] = a
  \/ pc[t] = "two" /\ into[t] = a
  \/ pc[t] = "batch" /\ IsActive(seen[t][a])

\* The accounts of A whose rows t loads while another request holds them.
Meeting(t, A) == {a \in A : \E u \in Thread \ {t} : Holds(u, a)}

\* A request for one account, or for a transfer out of it, loads its row.
LoadAccount(t) ==
  /\ pc[t] = "idle" /\ served < MaxRequests
  /\ \E a \in Account :
       /\ from' = [from EXCEPT ![t] = a]
       /\ seen' = [seen EXCEPT ![t][a] = row[a]]
       /\ contended' = contended \cup Meeting(t, {a})
  /\ pc' = [pc EXCEPT ![t] = "one"]
  /\ served' = served + 1
  /\ UNCHANGED <<row, into, posted, failed, paidOut, spent, clock>>

\* Mutant of LoadDestination: the check that source and destination differ
\* is missing.
LoadAnyDestination(t) ==
  /\ pc[t] = "one"
  /\ \E b \in Account :
       /\ into' = [into EXCEPT ![t] = b]
       /\ seen' = [seen EXCEPT ![t][b] = row[b]]
       /\ contended' = contended \cup Meeting(t, {b})
  /\ pc' = [pc EXCEPT ![t] = "two"]
  /\ UNCHANGED <<row, from, posted, failed, paidOut, spent, clock, served>>

\* A transfer loads the destination by a second query, and never has the
\* source as its destination.
LoadDestination(t) ==
  /\ pc[t] = "one"
  /\ \E b \in Account \ {from[t]} :
       /\ into' = [into EXCEPT ![t] = b]
       /\ seen' = [seen EXCEPT ![t][b] = row[b]]
       /\ contended' = contended \cup Meeting(t, {b})
  /\ pc' = [pc EXCEPT ![t] = "two"]
  /\ UNCHANGED <<row, from, posted, failed, paidOut, spent, clock, served>>

\* The interest batch loads the ACTIVE savings accounts and fixed deposits.
BearsInterest(a) == Kind[a] \in {"SAVINGS", "FIXED_DEPOSIT"} /\ IsActive(row[a])

LoadBatch(t) ==
  /\ pc[t] = "idle" /\ served < MaxRequests
  /\ seen' = [seen EXCEPT ![t] =
                [a \in Account |-> IF BearsInterest(a) THEN row[a] ELSE NoRow]]
  /\ contended' = contended \cup Meeting(t, {a \in Account : BearsInterest(a)})
  /\ pc' = [pc EXCEPT ![t] = "batch"]
  /\ served' = served + 1
  /\ UNCHANGED <<row, from, into, posted, failed, paidOut, spent, clock>>

\* The session of the request is closed and its thread is free again.
Answer(t) ==
  /\ pc' = [pc EXCEPT ![t] = "idle"]
  /\ from' = [from EXCEPT ![t] = NoAccount]
  /\ into' = [into EXCEPT ![t] = NoAccount]
  /\ seen' = [seen EXCEPT ![t] = [a \in Account |-> NoRow]]
  /\ UNCHANGED <<clock, served, contended>>

-----------------------------------------------------------------------------
\* transaction_service.py

\* Mutants of the four rules below: the reset forgets its date, the limit is
\* compared with the earlier debits only, the floor with the balance before
\* the debit, and the credit is forgotten.
ResetWithoutDate(r) ==
  IF r.resetDay < LocalDay(clock) THEN [r EXCEPT !.withdrawn = 0] ELSE r

WithinLimitBefore(k, r, m) ==
  DailyLimit[k] > 0 => r.withdrawn <= DailyLimit[k]

KeptFloorBefore(k, r, m) == r.balance >= MinBalance[k]

NotCredited(r, m) == r

\* _reset_daily_limit_if_needed: the stored UTC date against the local date.
ResetIfNewDay(r) ==
  IF r.resetDay < LocalDay(clock)
  THEN [r EXCEPT !.withdrawn = 0, !.resetDay = UtcDay(clock)]
  ELSE r

WithinDailyLimit(k, r, m) ==
  DailyLimit[k] > 0 => r.withdrawn + m <= DailyLimit[k]

KeepsFloor(k, r, m) == r.balance - m >= MinBalance[k]

\* The debit of m and the daily counter that goes with it.
Debited(r, m) == [r EXCEPT !.balance = @ - m, !.withdrawn = @ + m]

Credited(r, m) == [r EXCEPT !.balance = @ + m]

Deposit(t) ==
  /\ pc[t] = "one"
  /\ LET a == from[t]
         old == seen[t][a]
     IN \/ /\ ~IsActive(old)
           /\ UNCHANGED <<row, posted>>
        \/ /\ IsActive(old)
           /\ \E m \in Amounts :
                /\ row' = [row EXCEPT ![a] = Flush(@, old, Credited(old, m))]
                /\ posted' = [posted EXCEPT ![a] = @ + m]
  /\ Answer(t)
  /\ UNCHANGED <<failed, paidOut, spent>>

\* A withdrawal that is refused before the daily counter is looked at: only
\* the FAILED row is committed.
WithdrawBlocked(t) ==
  /\ pc[t] = "one"
  /\ LET a == from[t]
     IN /\ ~IsActive(seen[t][a]) \/ Kind[a] = "FIXED_DEPOSIT"
        /\ failed' = [failed EXCEPT ![a] = @ + 1]
  /\ Answer(t)
  /\ UNCHANGED <<row, posted, paidOut, spent>>

\* A withdrawal over the daily limit or through the floor: the commit of the
\* FAILED row also commits the reset of the counter.
WithdrawRefused(t) ==
  /\ pc[t] = "one"
  /\ LET a == from[t]
         old == seen[t][a]
         r == ResetIfNewDay(old)
     IN /\ IsActive(old) /\ Kind[a] # "FIXED_DEPOSIT"
        /\ \E m \in Amounts : \/ ~WithinDailyLimit(Kind[a], r, m)
                              \/ ~KeepsFloor(Kind[a], r, m)
        /\ row' = [row EXCEPT ![a] = Flush(@, old, r)]
        /\ failed' = [failed EXCEPT ![a] = @ + 1]
  /\ Answer(t)
  /\ UNCHANGED <<posted, paidOut, spent>>

Withdraw(t) ==
  /\ pc[t] = "one"
  /\ LET a == from[t]
         old == seen[t][a]
         r == ResetIfNewDay(old)
     IN /\ IsActive(old) /\ Kind[a] # "FIXED_DEPOSIT"
        /\ \E m \in Amounts :
             /\ WithinDailyLimit(Kind[a], r, m)
             /\ KeepsFloor(Kind[a], r, m)
             /\ row' = [row EXCEPT ![a] = Flush(@, old, Debited(r, m))]
             /\ posted' = [posted EXCEPT ![a] = @ - m]
             /\ spent' = [spent EXCEPT ![a] = @ + m]
  /\ Answer(t)
  /\ UNCHANGED <<failed, paidOut>>

TransferAllowed(a, old, dst, m) ==
  /\ IsActive(old) /\ IsActive(dst)
  /\ WithinDailyLimit(Kind[a], ResetIfNewDay(old), m)
  /\ KeepsFloor(Kind[a], old, m)

\* A refused transfer is rolled back: no FAILED row, no reset.
TransferRefused(t) ==
  /\ pc[t] = "two"
  /\ \E m \in Amounts :
       ~TransferAllowed(from[t], seen[t][from[t]], seen[t][into[t]], m)
  /\ Answer(t)
  /\ UNCHANGED <<row, posted, failed, paidOut, spent>>

Transfer(t) ==
  /\ pc[t] = "two"
  /\ LET a == from[t]
         b == into[t]
         old == seen[t][a]
         dst == seen[t][b]
     IN \E m \in Amounts :
          /\ TransferAllowed(a, old, dst, m)
          /\ row' = [row EXCEPT
                       ![a] = Flush(@, old, Debited(ResetIfNewDay(old), m)),
                       ![b] = Flush(@, dst, Credited(dst, m))]
          /\ posted' = [posted EXCEPT ![a] = @ - m, ![b] = @ + m]
          /\ spent' = [spent EXCEPT ![a] = @ + m]
  /\ Answer(t)
  /\ UNCHANGED <<failed, paidOut>>

-----------------------------------------------------------------------------
\* account_service.py

\* update_account_status: any status may follow any other but CLOSED.
UpdateStatus(t) ==
  /\ pc[t] = "one"
  /\ LET a == from[t]
         old == seen[t][a]
     IN \/ /\ old.status = "CLOSED"
           /\ UNCHANGED row
        \/ /\ old.status # "CLOSED"
           /\ \E s \in Status :
                row' = [row EXCEPT ![a] = Flush(@, old, [old EXCEPT !.status = s])]
  /\ Answer(t)
  /\ UNCHANGED <<posted, failed, paidOut, spent>>

-----------------------------------------------------------------------------
\* interest_service.py

Penalty(b) == b \div PenaltyUnit

\* close_fd_premature; the penalty gets a row in transactions, the payout not.
CloseFd(t) ==
  /\ pc[t] = "one"
  /\ LET a == from[t]
         old == seen[t][a]
     IN \/ /\ Kind[a] # "FIXED_DEPOSIT" \/ ~IsActive(old)
           /\ UNCHANGED <<row, posted, paidOut>>
        \/ /\ Kind[a] = "FIXED_DEPOSIT" /\ IsActive(old)
           /\ row' = [row EXCEPT ![a] =
                        Flush(@, old, [old EXCEPT !.balance = 0,
                                                  !.status = "CLOSED"])]
           /\ posted' = [posted EXCEPT ![a] = @ - Penalty(old.balance)]
           /\ paidOut' = [paidOut EXCEPT
                            ![a] = @ + (old.balance - Penalty(old.balance))]
  /\ Answer(t)
  /\ UNCHANGED <<failed, spent>>

\* One day's interest, truncated to paise, for every full day since the last
\* credit.
Interest(a, r) ==
  ((clock - r.credited) \div DayLength) * ((r.balance * Rate[a]) \div RateUnit)

WithInterest(a, r) ==
  IF IsActive(r) /\ Interest(a, r) > 0
  THEN [r EXCEPT !.balance = @ + Interest(a, r), !.credited = clock]
  ELSE r

\* credit_monthly_interest: the whole batch commits at once.
CreditInterest(t) ==
  /\ pc[t] = "batch"
  /\ row' = [a \in Account |->
               Flush(row[a], seen[t][a], WithInterest(a, seen[t][a]))]
  /\ posted' = [a \in Account |->
                  posted[a] + (WithInterest(a, seen[t][a]).balance
                                 - seen[t][a].balance)]
  /\ Answer(t)
  /\ UNCHANGED <<failed, paidOut, spent>>

-----------------------------------------------------------------------------
\* Time passes; at the local midnight the day's debits start from zero.
Tick ==
  /\ clock < MaxClock
  /\ clock' = clock + 1
  /\ spent' = IF LocalDay(clock + 1) = LocalDay(clock)
              THEN spent ELSE [a \in Account |-> 0]
  /\ UNCHANGED <<row, pc, from, into, seen, posted, failed, paidOut, served,
                 contended>>

\* All the requests of the run are answered.
Quiet ==
  /\ served = MaxRequests /\ clock = MaxClock
  /\ \A t \in Thread : pc[t] = "idle"
  /\ UNCHANGED vars

Serve(t) ==
  \/ LoadAccount(t) \/ LoadDestination(t) \/ LoadBatch(t)
  \/ Deposit(t)
  \/ WithdrawBlocked(t) \/ WithdrawRefused(t) \/ Withdraw(t)
  \/ TransferRefused(t) \/ Transfer(t)
  \/ UpdateStatus(t)
  \/ CloseFd(t)
  \/ CreditInterest(t)

Next == Tick \/ Quiet \/ \E t \in Thread : Serve(t)

Spec == Init /\ [][Next]_vars

-----------------------------------------------------------------------------
\* Properties.

\* Every variable keeps its type; a thread that serves one account or a
\* transfer has loaded that account, and a transfer two different ones.
TypeOK ==
  /\ row \in [Account -> Row]
  /\ pc \in [Thread -> PC]
  /\ from \in [Thread -> Account \cup {NoAccount}]
  /\ into \in [Thread -> Account \cup {NoAccount}]
  /\ seen \in [Thread -> [Account -> Row]]
  /\ posted \in [Account -> Int]
  /\ failed \in [Account -> Nat]
  /\ paidOut \in [Account -> Int]
  /\ spent \in [Account -> Nat]
  /\ clock \in Nat
  /\ served \in Nat
  /\ contended \subseteq Account
  /\ \A t \in Thread :
       /\ pc[t] \in {"one", "two"} => from[t] \in Account
       /\ pc[t] = "two" => into[t] \in Account /\ into[t] # from[t]

\* The balance below which nothing may bring an account; a fixed deposit that
\* was paid out holds nothing.
Floor(a) == IF Kind[a] = "FIXED_DEPOSIT" THEN 0 ELSE MinBalance[Kind[a]]

\* However many requests run at once, no withdrawal, transfer, closure or
\* interest run leaves an account below its floor (transaction_service.py:5-7).
FloorsKept == \A a \in Account : row[a].balance >= Floor(a)

\* The balance is what was opened plus what the transactions say, less what
\* was paid out.
Balanced(a) == row[a].balance = Opening[a] + posted[a] - paidOut[a]

\* Whatever runs at once, the books of an account are right as long as no two
\* requests have held its row at once: what went wrong on one account does not
\* spread to others by transfers or by the interest batch.
BooksBalance == \A a \in Account \ contended : Balanced(a)

\* No posting is lost and none is made up, whoever meets on an account
\* ("no partial failures", README.md:87).
NoPostingLost == \A a \in Account : Balanced(a)

\* The counter in the row is the money that left the account today: the check
\* against DAILY_LIMITS refuses neither too little nor too much.
CounterTracksSpending ==
  \A a \in Account \ contended :
    /\ row[a].resetDay >= LocalDay(clock) => row[a].withdrawn = spent[a]
    /\ row[a].resetDay < LocalDay(clock) => spent[a] = 0

\* "Daily withdrawal limit must not be exceeded" (transaction_service.py:165).
DailyLimitKept ==
  \A a \in Account \ contended :
    DailyLimit[Kind[a]] > 0 => spent[a] <= DailyLimit[Kind[a]]

\* The handlers implement the ledger, which vouches for the accounts that are
\* not contended.
Funds == [a \in Account |-> row[a].balance]
Life == [a \in Account |-> row[a].status]

Book == INSTANCE Ledger
          WITH funds <- Funds, life <- Life, paid <- paidOut,
               disputed <- contended

ImplementsLedger == Book!LedgerSpec
=============================================================================
