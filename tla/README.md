# Verification of the Banking Customer Management System

TLA+ models of the state and the concurrency of the backend (FastAPI, SQLAlchemy,
PostgreSQL or SQLite), the TLC runs that check them on small instances, and
theorems about them for every instance, checked with TLAPS. Paths in this file
are relative to the repository.

## 1. The system

### Components

| Component | State | Operations | Where |
|---|---|---|---|
| Transaction engine | `accounts.balance_paise`, `daily_withdrawn_paise`, `last_withdrawal_reset`; rows of `transactions` | deposit, withdraw, transfer | `services/transaction_service.py` |
| Account status | `accounts.status` | ACTIVE, DORMANT, FROZEN, CLOSED | `services/account_service.py` |
| Account opening | a new row in `accounts` | `create_account` for a VERIFIED customer | `services/account_service.py` |
| Interest, FD closure | `balance_paise`, `last_interest_credited`, `status` | the monthly batch, premature closure with a 1% penalty | `services/interest_service.py` |
| Loans | `loans` (status, outstanding, EMIs paid), `loan_emis` (is_paid), the linked account's row | apply, approve/reject, disburse, pay the next EMI | `services/loan_service.py` |
| EMI arithmetic | none | `calculate_emi`, `calculate_amortization_schedule` | `utils/interest_calc.py` |
| Customers and KYC | `customers` (unique `national_id_hash`, `email`; KYC status) | onboard, KYC status, update, delete | `services/customer_service.py` |
| Audit log | `audit_logs` | one `log_audit` in the commit of each change | `middleware/audit_logger.py`, `models/transaction.py` |
| Login lockout, tokens | `users.is_locked`, `locked_until`; `login_attempts`; the tokens that clients hold | login, every request with a token | `routes/auth.py`, `middleware/auth_middleware.py` |
| Users, roles | `users` | create user, change password, role checks | `routes/auth.py`, `middleware/auth_middleware.py` |
| AML and CTR | `aml_flags`, `ctr_reports` | checks after a movement, review of a flag | `middleware/aml_checker.py` |
| Database | the tables; connections, transactions and row locks | engine, sessions | `database.py` |
| Startup, ids, encryption | – | table creation, default administrator, random ids, Fernet | `main.py`, `utils/` |

### How they interact

There are no messages and no callbacks: components meet in the tables. Every
route is a plain `def`, so FastAPI runs requests in a pool of threads, each with
a session of its own (`get_db`). The dependency `get_current_user` is a `def`
too: it takes a thread, queries the user on a connection of the engine's pool,
and gives the thread back while the session keeps the connection; the handler
then needs a thread again. A handler loads rows, computes in Python, and
commits. The session has `autoflush=False` and loads an object once; the UPDATE
at the commit sets exactly the columns whose value differs from the loaded one.
Nothing uses `SELECT ... FOR UPDATE`, an isolation level or a version column, so
on PostgreSQL (`docker-compose.yml`) transactions are READ COMMITTED and what a
handler checked may be stale when it writes. What protects the data is: the
checks of the handlers, the unique and foreign key constraints, and the
atomicity of each commit.

With the default `DATABASE_URL` the engine is SQLite with `StaticPool`: all
sessions of all threads then share one connection, and with it one transaction.

The account row is shared by the transaction engine, the status change, the
interest batch, the FD closure, disbursement and EMI payment. The customer row
is shared by KYC, update, deletion, account opening, loan application and the
creation of users. The
movements call the AML and CTR check within their commit; a flag's row is shared
by its reviews.

### What is hard here

* the steps of two handlers on one row, in any order (`transaction_service.py`,
  `loan_service.py`, `interest_service.py`): `PROJECT.json`, "hazards", lists
  each with its line;
* lookups before an INSERT or a DELETE that the constraints alone make safe
  (`customer_service.py`);
* the daily counter, reset by comparing a stored UTC date with the local date,
  in some refusals committed and in others rolled back;
* rounding: EMIs up, interest down, over many months;
* the lockout counted from attempts that another login may be committing;
* requests that hold a connection and wait for a thread, or hold row locks and
  wait for more; crashes and failures between the UPDATEs of a request; sessions
  that share one connection (`database.py`);
* reviews that load a flag at the same time (`routes/transactions.py`);
* long legal sequences that have to keep several tables in agreement (balance
  and transactions; loan, EMIs and transactions; KYC and audit log).

### What makes each component correct

* accounts: balances equal opening plus successful transactions less payouts;
  no balance under its floor; the counter is what left the account today and
  stays within the limit; money moves only on ACTIVE accounts; CLOSED is final;
* loans: paid out once, statuses follow the documented life, what is outstanding
  is what the unpaid EMIs add up to, the account never goes negative;
* arithmetic: an EMI covers the interest, the debt falls, the last EMI is not
  larger than the agreed one, and at the end the debt is gone;
* customers: one row for each person, no account, loan or user without its customer,
  only VERIFIED customers served, VERIFIED is not taken back to PENDING;
* audit log: entries stay, and explain the KYC status;
* lockout: enough failures lock, a lock holds its time against passwords and
  tokens, and who waits it out without another failure is let in again;
* compliance: flags are about the account that the money moved on, a review is
  one person's with that person's notes, and what the daily limits leave for the
  thresholds to catch is known;
* sessions: every request is answered, a request has landed whole or not at all,
  deadlocks come from the batch alone, and when everybody waits something times
  out.

## 2. Modules

| Module | Models | State and actions against the code |
|---|---|---|
| `AccountTable` | a row of `accounts` and the ORM's UPDATE | `Flush(cur, old, new)`: the changed columns of `new` over the row `cur` of the table |
| `Accounts` | the account handlers under threads | `LoadAccount`, `LoadDestination`, `LoadBatch` are the queries; `Deposit`, `Withdraw*`, `Transfer*`, `UpdateStatus`, `CloseFd`, `CreditInterest` run from the last query to the commit or the refusal, including the FAILED row and the counter reset that is committed with it |
| `Ledger` | the abstract bank: funds, life, postings, payouts | `Post`, `PayOut`, `ChangeLife`; `Accounts` implements it. Any account may come into dispute, and the ledger vouches for the others |
| `Compliance` | `check_aml_ctr` and the review of flags, composed with `Accounts` | each step is a step of `Accounts` with the rows that it adds to `aml_flags` and `ctr_reports` (`Move`, or `Unchecked` for what nothing checks), or `LoadFlag` and `Review`, the query and the commit of a review |
| `Sessions` | threads, connections, row locks, commits and crashes under the handlers that update accounts and loans, on PostgreSQL and on SQLite | `Authenticate`, `Checkout`, `Handle`, `Execute` (one UPDATE), `Commit`, `Checkout` again (`db.refresh`), `Answer`; `GiveUp` is the pool's timeout, `Abort` PostgreSQL's choice of a victim, `Fail` a refusal or a failed statement, `Crash` the restart of the container |
| `Loans` | loan handlers under threads, next to an account that moves | `LoadLoan`, `LoadEmi`, `LoadFor*` are the queries, in the code's order; `Apply`, `Decide`, `Disburse`, `PayEmi` the commits; `MoveMoney`, `ChangeAccount` the account's own requests |
| `Amortization` | the EMI formula and the schedule loop | one month a step; rates are exact fractions |
| `Customers` | onboarding, KYC, update, deletion, opening and application, the creation of users, the audit log | a request's queries in one step, its commit in another (`CreateUser` in one: its lookups find nothing that the constraints would not); `Taken` and `RefersTo` are the constraints, `Unlinked` and `UsersOf` the ORM's nulling of the foreign keys |
| `Logins` | lock, unlock, the attempts, tokens | `LoadUser` (login) and `LoadBearer` (a token), `Unlock` (own commit), `CountFailures`, `Fail`, `LogIn` and `IssueToken`, `Admit` |
| `MC*` | the instances for TLC | constants of the instances |
| `*Proofs` | theorems | section 5 |

`Accounts` and `Loans` EXTEND `AccountTable`, `Compliance` EXTENDS `Accounts`;
`Accounts` INSTANCEs `Ledger` with funds, life, posted, paid and disputed mapped to
balances, statuses, `posted`, `paidOut` and `contended` (`ImplementsLedger`). `Sessions` stands
beside the other modules: it has the steps that they take as one (an UPDATE, the
commit, the answer) and none of the data, and shows what justifies taking them
so: on PostgreSQL nothing of a request lands before its only commit
(`AllOrNothing`). Operators marked "Mutant of" are the
variations that each property is tried against ("mutants" in `PROJECT.json`);
no specification uses them.

### Abstractions

* What a request asks for (handler, amount, new status) is chosen at its last
  step: the queries before it do not depend on it. The clock is read there too.
* Flush and commit are one step, except in `Sessions`: no other session sees
  between them. A request that the code refuses leaves nothing, unless it commits a FAILED row.
* Amounts, limits, rates and days are small numbers in the proportions that the
  code's branches compare. `MinBalance` and `DailyLimit` depend on the account
  type as in the code; a fixed deposit has the limit 0, which means none.
* Interest is the code's: whole days since the last credit times the truncated
  interest of a day on the present balance. For the penalty and the loan rates
  the code's truncated floats equal the exact quotients.
* The 409 of a duplicate found by a lookup, and the age check, refuse a request
  on its own data and are guards. The credit score is eligible or not.
* `CustomerRow.kyc` also says whether the row exists (`NONE`, `GONE`): ids are
  not reused.
* A token is the time at which it expires, the newest of its user standing for
  all; a thread that serves a request of the accounts reviews no flag meanwhile.
* In `Sessions` a request is the list of rows that it updates, in the order in
  which they are flushed: SQLAlchemy sorts the UPDATEs of one table in one flush
  by primary key, and a loan after its account. Left out are INSERTs, which
  nobody waits for, the row of `loan_emis`, which belongs to the loan whose row is
  updated with it, the share locks of foreign keys, and the handlers of customers,
  users and flags, whose UPDATEs are to rows that none of the modelled handlers locks. `/login` has no
  dependency on the user and holds no place while it waits for another.
* `posted`, `failed`, `paidOut`, `spent`, `disbursed`, `collected` summarise
  rows of `transactions`.
* `contended` is a history variable of `Accounts`, `Logins`, `Loans` and
  `Customers`: the accounts whose row two requests have held at once, and the
  users, loans and customers of which two requests have been served at once. No
  action reads it, only properties do.

Nothing in the code keeps two requests from working on one row with stale copies
(section 3 shows what comes of it), so some properties can be promised only for
rows that no two requests have held at once. These are stated for what is not
`contended`, one account, user, loan or customer at a time: whatever interleaves
on the others, and whatever has gone wrong there, must not reach it. A transfer
between a contended and an uncontended account, or a batch over both, is among
the behaviours. The rest hold for every interleaving without that condition.

## 3. Runs

Liveness is stated where the code waits: in `sessions`. Its fairness has two
parts. The steps that a thread, a connection or a lock is handed out for are
strongly fair, because all three are handed out in the order of the waiting
(anyio's limiter, SQLAlchemy's `QueuePool`, PostgreSQL's lock queue), so nobody is
passed over for ever; the two timeouts (the pool's 30 s, PostgreSQL's deadlock
detection) are weakly fair, because they come as long as their cause lasts.
Nothing is assumed of clients, failures or crashes. No other run assumes
fairness: requests come from clients, who may stop, and nothing runs in the
background; that a lock of a user comes to an end is stated as a
bound in time on its refusals (`RefusedForFailures`). Deadlock is checked in every run; the action `Quiet`
(`Returned` in `Amortization`) is the end of a run whose bounds are used up.

| Run | Shows | Bounds and why they are enough |
|---|---|---|
| `accounts` | on every account that is not contended the books balance, the counter is today's spending and the limit holds; `Ledger` is implemented | 2 threads, a savings account and a fixed deposit, 4 requests, 2 amounts, days of 2 units, clock to 4: a refusal at the limit and at the floor, a reset at midnight and within the day, interest for 0 to 2 days, and a closure after each; two requests that meet on one account leave two more to carry the damage to the other |
| `accounts_threads` | under interleavings, with compliance on top: `FloorsKept`; which movements the thresholds can catch (`LimitsShadowThresholds`); that first reviews do not mix (`ReviewsWhole`) | 2 threads, 3 requests: two stale writes over each other and one after; a third thread would add another writer of checked values, which the proof of `FloorsAlwaysKept` covers. Amounts 1, 3 and 5 are under the thresholds, at the limit and over both; 3 reviews by 2 reviewers, with and without notes: two overlap and one follows |
| `loans` | no negative balance; books and life of each loan that is not contended | 2 threads, 2 loans on one account, tenure 2, 8 requests: application to closure is five, three are left for the other loan, whose requests run at the same time and use the same account |
| `amortization` | `EmiCoversInterest`, `DebtFalls`, `LastNotOverEmi`, `RepaidInFull` | every principal to 60, four monthly rates, tenures 6 and 7: each rounding case occurs, and the debt is gone early in some |
| `customers` | uniqueness, ownership, audit trail, KYC | 2 ids, 2 national ids and e-mails, 1 account, 1 loan, 2 usernames, 2 threads, 6 requests: deletion races opening, two onboardings race, a customer has two users, and every chain of KYC changes up to five; while one customer is contended the other is served |
| `logins` | the lock turns nobody away but for `MAX_LOGIN_ATTEMPTS` failures, the last less than the lockout ago (`RefusedForFailures`, for every interleaving); lockout, for passwords and tokens, of each user who is not contended | 2 users, 2 threads, 2 attempts to a lock of 2 units, tokens that last 1 unit, clock to 4, 5 requests: lock, expiry, unlock, lock again, a token from before the lock while it runs, and one user's requests overlapping while the other's do not |
| `sessions` | every request is answered (`EveryRequestAnswered`); a crash or failure leaves a request whole or nothing (`AllOrNothing`); who can deadlock (`CirclesHaveABatch`); where everybody waits, a timeout ends it (`StallsTimeOut`) | 3 requests, 2 accounts and a loan; PostgreSQL with 2 connections and 1 or 2 workers, and SQLite: with 1 worker two requests hold both connections and wait for the worker of the third, which waits for a connection; with 2 workers two handlers meet on two rows, the least for a circle |

Runs that find what the code does otherwise than it says:

| Run | The repository says | The code |
|---|---|---|
| `accounts_lost_update` | "no partial failures" (`README.md:87`): what is posted on an account is in its balance (`NoPostingLost`) | two handlers load one row; the later commit overwrites the earlier balance, and both transaction rows stay |
| `loans_disbursed_twice` | APPROVED to DISBURSED once (`loan_service.py:10`) | two disbursements that both loaded APPROVED both credit |
| `amortization_over_repaid` | principal parts sum to the principal within 100 paise (`tests/test_loans.py:254`) | after an early zero balance the remaining EMIs count in full: the rounding of each EMI adds up over a long tenure and the sum passes the principal |
| `customers_audit_unlinked` | audit rows are never modified (`models/transaction.py:77`) | deleting the customer nulls `customer_id` in its rows |
| `sessions_torn_transfer` | a transfer debits and credits in one transaction, "no partial failures" (`README.md:87`) | on SQLite, the default, another request that ends between the two UPDATEs rolls the shared connection back: the transfer commits one side and is answered |

### Other differences met, without a run

* `transfer` takes money out of an open fixed deposit: it checks neither the type
  nor, since the limit is 0, any limit (`transaction_service.py:307`), against "no
  direct withdrawal (must use FD close endpoint)" (`transaction_service.py:166`)
  and "all withdrawal rules" (`transaction_service.py:277`).
* A transfer or deposit that is refused is only raised; "All failed transactions
  are logged with reason codes" (`transaction_service.py:11`, `README.md:88`).
* "AML and CTR checks run on every successful transaction"
  (`transaction_service.py:12`, `README.md:97`), but not on disbursements, EMIs,
  interest and penalties. And as configured the daily limits leave little to
  catch: no withdrawal from a savings account (limit ₹50,000) exceeds the CTR
  threshold (₹50,000), and none from an account with a limit the AML threshold.
* Deleting a customer leaves its user, without a customer but able to log in; a
  customer with two users cannot be deleted (500), because `Customer.user` is one
  object for the ORM (`models/customer.py:42`) and `create_user` lets a second one
  name the same customer.
* A later review replaces reviewer, time and notes of an earlier one. When reviews
  overlap and one has found the flag reviewed, reviewer and notes of two people
  can mix: only the columns that differ from the loaded ones are written.
  `ReviewsWhole` excludes that case by name (`rereviewed`).
* After the commit every handler of a single row reads it back (`db.refresh`) on a
  connection that it has to get again; when that times out the client gets a 500
  although its request has landed. `Sessions` has that step (`GiveUp` of a committed
  request), and `AllOrNothing` says that the request has landed whole by then; no
  property is about what the client is told.
* Where requests overlap, a request that has loaded a lock that had run out removes
  the lock that a failed login has set since (`routes/auth.py:63`), and failed
  logins do not count each other (`routes/auth.py:79`).
* Under threads, a stale write takes a CLOSED account back to another status
  (`account_service.py:163`), moves money on an account that is FROZEN by then
  (`README.md:84`), and opens an account for a customer that is not VERIFIED any
  more. These are the lost update again, on other columns.
* Two rejections or a rejection after an approval both pass when both loaded
  APPLIED.
* Where local time is not UTC, the daily counter is reset early or late
  (`transaction_service.py:63-66`, `README.md:83`); the runs take UTC (`UtcOffset`
  0).
* `pay_emi` debits an account in any status, down to zero and below the minimum
  balance (`loan_service.py:295`, `README.md:82,84`).
* VERIFIED → REJECTED → PENDING is allowed, two legal steps around the forbidden
  one (`customer_service.py:107`).
* The lockout counts the failures of a window, "consecutive" or not
  (`routes/auth.py:40`): a success does not reset the count.
* `calculate_emi` says that it floors (`interest_calc.py:53`) and rounds up.
* Interest is "accrued daily" (`interest_calc.py:18`) but computed on the balance
  at the time of the batch, for all the days since the last credit.
* A fixed deposit that has matured is closed with the penalty for a premature
  closure: nothing reads `fd_maturity_date` (`interest_service.py:114`).
* `LOAN_MAX_AMOUNTS` is enforced nowhere.

## 4. Hazards

`PROJECT.json` lists each hazard at its line with the properties about it, or
with a note on why none covers it.

## 5. Proofs

TLAPS checks the following for all values of the constants that satisfy the
`ASSUME` of the component's module. TLC evaluates those assumptions in the runs.

`AccountTableProofs` has the lemmas about rows: an UPDATE gives a row
(`FlushIsRow`), gives what was computed when nothing moved (`FlushUnmoved`), and
keeps the balance above a bound when the handler did (`FlushAbove`).

`AccountsProofs`:

* `TypeCorrect == Spec => []TypeOK`.
* `FloorsAlwaysKept == Spec => []FloorsKept`, for any number of threads.
  `FloorsKept` is not inductive: a handler computes from a copy. `FloorInv` adds
  that every loaded copy is above the floor (`LoadedAbove`). Every handler that
  lowers a balance checks its result against the floor, so each value that is
  ever written is above it, however stale.
* `LedgerImplemented == Spec => ImplementsLedger` and `BooksAlwaysBalance`, for any
  number of threads. `FreshInv` says that whoever holds the row of an account
  that is not contended holds what is still in the table, and holds it alone. So on
  these accounts `Flush` writes what the handler computed, and each step is a
  `Post`, `PayOut`, `ChangeLife` or stutter of `Ledger` on the accounts that it
  vouches for. `FreshInv` contains `FloorInv`, because a posting of `Ledger` leaves
  no account negative, in dispute or not.
* `NoPostingLostAlone`: what `accounts_lost_update` refutes holds under the assumption
  `OneAtATime` (no two threads), for then no account is ever contended.
* `CounterAlwaysTracks` and `DailyLimitAlwaysKept`, under the assumption
  `ServerInUtc` (the local date is the UTC date), for any number of threads.
  `LimitInv` ties the counter to what has been spent on the day of the last reset,
  through the refusals that commit a reset. `CountersAlwaysNatural` is the lemma
  below it.

`ComplianceProofs`, for any number of threads:

* `ImplementsAccounts == ComplianceSpec => Spec`: each step of the composition is a
  step of `Accounts` or a stutter, so what is proved of `Accounts` holds of both;
  `FloorsKeptWithCompliance` is drawn from it, and `ComplianceTypeCorrect` builds on
  the types of `Accounts`. `LedgerWithCompliance` composes the two refinements:
  the composition implements `Ledger`.
* `LimitsAlwaysShadow`: a debit is at most the daily limit whatever copy of the
  counter it saw, because the counter of a copy is a natural number.
* `ReviewsAlwaysWhole`. `ReviewInv` says that, as long as no review of a flag that
  somebody is reviewing has found it reviewed, two reviews under way for one flag
  have both loaded it open (so each writes both columns), and one alone has loaded
  what the table has (so its UPDATE leaves what it asked for).

`SessionsProofs`, for any requests, rows and pools:

* `TypeCorrect` and `AllOrNothingAlways`. `SInv` adds that only a running request has
  anything pending, that it has exactly the UPDATEs before its next, and that
  nothing has landed before its commit.
* `CirclesAlwaysHaveABatch`. Were there a circle without the batch, take of its
  members one that waits for the least row. Somebody in the circle waits for a row
  that it holds, and as it locks rows in the order of their keys, that row is less
  than the one it waits for: a contradiction.
* `StallsAlwaysTimeOut`. If every request waits and none of them for a connection,
  some wait for a row, and the holder of that row is running and therefore waits
  for a row as well. So there is a set of requests each of which waits for another of
  the set (`ClosedWaitsHaveACircle` takes the smallest): a circle, which
  PostgreSQL's deadlock detection ends.

`CustomersProofs`, for any interleaving:

* `TypeCorrect`, with the log as a sequence and the form of each request;
* `OneRowPerPersonAlways` and `NoOrphansEver`: the lookups of the handlers are not used,
  the constraints at the commits are enough, and whatever is loaded may be stale;
* `TrailAlwaysGrows`;
* `VerifiedNeverReverted` and `OnlyVerifiedEverServed`. `Alone` says of a customer
  who is not contended that at most one request about it is served, and that what
  this one loaded is the row of the customer;
* `TrailAlwaysExplains`, for logs of any length. A chain of KYC changes is extended at
  its end by the request that `Alone` speaks of, and nulling the links of a deleted
  customer's entries leaves every chain as it was (`TrailUnlinked`). The log is
  about customers that have or had a row (`AboutKnown`), so the trail of a new one
  starts empty.

`LoginsProofs`:

* `TypeCorrect`, for any interleaving;
* `RefusedOnlyForFailures`, for any interleaving. A refusal goes by a copy of the lock
  that may be stale, so `DeservedInv` says of the locks in the table and of all
  loaded copies that enough failures are on record and that one of them lies no more
  than the lockout before the end of the lock (`Deserved`), and of a login that
  fails that it has counted no more than there are. Failures are never taken back
  (`FailuresKept`);
* `LocksAlwaysLast` and `LockedOutAlways`, for a user who is not contended. `Alone`
  says of such a user that at most one of its requests is served, that the lock it
  loaded is the user's, and that past the check of the lock the user has none;
* `FewFailuresAlways`. `Counted` adds what happens at the two ends of a lock: all failures
  of a locked user are out of the window when the lock ends, so its removal finds the
  window empty, and a login that fails has counted at least what is in the window.

`AmortizationProofs`, for every principal, rate and tenure. The hypothesis
`EmisComputed` says that the installment of a case is the one that `Emi`, the model
of `calculate_emi`, computes for it:

* `EmiAlwaysCovers`: the installment is more than the interest on the whole
  principal. By `EmiPaysOff`, the formula with its powers yields an installment
  that, paid every month, pays the principal off within the tenure (`PaidOffBy`);
* `BalanceBounded`, the type invariant, the balance among it staying within 0 and
  the principal, and `DebtAlwaysFalls`: every month lowers the debt;
* `LastNeverOverEmi` and `AlwaysRepaidInFull`. The inductive invariant `ScheduleInv`
  says that the balance is always one that the installments left pay off
  (`OnSchedule`): the interest is truncated in the borrower's favour, so each
  month's balance is at most the exact one (`PaidOffStep`). The last installment
  then needs no more than the agreed one. The principal parts and the balance together
  are never less than what was lent, which leaves no debt at the end.

`LoansProofs`, for any number of threads and whatever the account does meanwhile:

* `TypeCorrect`, in particular that the EMI to be paid is one of the schedule;
* `NeverNegativeAlways == Spec => []NeverNegative`, by `BalanceInv`: also the loaded
  copies are not negative, and a payment writes only what it checked;
* `LifecycleAlwaysFollowed == Spec => LifecycleFollowed`. `LifeInv` says of a loan
  that is not contended that the thread that serves it is alone with it, the loan it
  holds is the row of the table, and past its guard the row still has the status
  that the handler asked for. So each commit starts where the guard looked, and
  the UPDATE leaves what the handler computed (`FreshUpdate`).
* `LoanBooksAlways == Spec => []LoanBooks`, for any schedule. `BooksInv` says of each
  loan that is not contended what `LoanBooks` says, in terms of the number of EMIs
  paid (`Booked`), and that the EMI a payment has looked up is the first unpaid
  one. `PrincipalSums` gives the sum of the principal parts its recursion.

`PrincipalUpTo` and the powers in `Emi` are recursive functions. Their recursion
equations are proved from the well-foundedness of < on the natural numbers: the
set of the numbers for which a statement holds contains 0 and with n also n + 1
(`SetInduction`), which speaks of a set and needs no operator as a parameter.

### Only model-checked

`EveryRequestAnswered`: liveness under fairness and ENABLED are out of these
provers' reach, and TLC alone checks it, on the instances of `sessions`. What is
proved next to it is that a stall of everybody is one that a timeout ends
(`StallsAlwaysTimeOut`).

For accounts, users, loans and customers that are contended, the properties that
exclude them are not true; the runs that expect a violation, and the list of
differences in section 3, show what happens there. `DailyLimitKept` and
`CounterTracksSpending` are checked and proved for a server in UTC only.

## 6. Not modelled

* Passwords and roles: `change_password` writes one column of its own user, a role is
  compared with a constant list, JWT and bcrypt are library code. `create_user` is in
  `Customers`, as far as its row is linked to a customer, and tokens are in `Logins`.
* Account opening beyond its customer: the choice of an account number that is
  free, and the maturity date of a fixed deposit, which no handler reads.
* Audit entries of money movements: they share the commit of the movement.
* Identifiers and encryption: random values and library calls. A national id is
  a value of a small set; an id that was already given fails a request in
  `Sessions`.
* Queries, schemas, pagination, formatting: no state.
* Startup and seeding run once before the first request. Containers, scripts and
  tests were read as documentation.
* The data under SQLite's shared connection: `Sessions` says which UPDATEs land
  there; the other modules take a session for a connection, as with PostgreSQL.

## 7. Plan

Done: `AccountTable`, `Accounts`, `Ledger`, `Compliance`, `Loans`, `Amortization`,
`Customers`, `Logins` and `Sessions`, with their proofs. Left, in this order:

1. `Client`: a retry after a lost answer, without an idempotency key, over
   `Sessions`: what a repeated transfer leaves behind.
2. Passwords: the change of a password under a login, in `Logins`.
