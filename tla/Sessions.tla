------------------------------ MODULE Sessions ------------------------------
(***************************************************************************)
(* What every request of the API competes for: the worker threads of       *)
(* FastAPI, the connections of the engine (database.py) and the row locks  *)
(* of the database, and what of its UPDATEs is durable at any moment.      *)
(*                                                                         *)
(* get_current_user runs on a worker of its own and checks a connection    *)
(* out; the request keeps the connection, gives the worker back, and needs *)
(* a worker again for its handler.  The handler's UPDATEs are statements   *)
(* of their own, in the order in which SQLAlchemy flushes them (one flush  *)
(* sorts by primary key).  On PostgreSQL every session has a transaction;  *)
(* on SQLite StaticPool gives all sessions one connection, so that a       *)
(* commit or a rollback is everybody's.  Only the rows that are updated    *)
(* are modelled: no data, and no INSERT (nobody waits for one).            *)
(***************************************************************************)
EXTENDS Integers, Sequences, FiniteSets

CONSTANTS
  Request,        \* the requests that clients may have under way
  Account,        \* the accounts, by primary key
  Loan,           \* the loans; their locks come after those of accounts
  Deployment      \* where the API may run: the database that DATABASE_URL
                  \*   names, the threads of FastAPI's pool, and pool_size +
                  \*   max_overflow of the engine

ASSUME SessionsAssumption ==
  /\ IsFiniteSet(Request)
  /\ Account \subseteq Nat /\ Loan \subseteq Nat
  /\ \A a \in Account, l \in Loan : a < l
  /\ Deployment \subseteq [engine : {"postgresql", "sqlite"},
                          workers : Nat \ {0}, connections : Nat \ {0}]

VARIABLES
  api,            \* the deployment at hand
  pc,             \* how far a request has come
  job,            \* what its handler does
  script,         \* the rows the handler updates, in order
  at,             \* the number of its next UPDATE
  pending,        \* the UPDATEs that are executed but not committed
  landed          \* the UPDATEs that are committed

vars == <<api, pc, job, script, at, pending, landed>>

TableRow == Account \cup Loan

PC == {"idle", "arrived", "checkout", "admitted", "running", "committed",
       "refreshed"}

Job == {"none", "posting", "transfer", "payment", "decision", "batch"}

Init ==
  /\ api \in Deployment
  /\ pc = [r \in Request |-> "idle"]
  /\ job = [r \in Request |-> "none"]
  /\ script = [r \in Request |-> <<>>]
  /\ at = [r \in Request |-> 1]
  /\ pending = [r \in Request |-> {}]
  /\ landed = [r \in Request |-> {}]

-----------------------------------------------------------------------------
\* Workers, connections and locks.

\* Mutant of OnWorker: a request keeps its worker from get_current_user on.
OnWorkerThroughout(r) == pc[r] \notin {"idle", "arrived"}

OnWorker(r) == pc[r] \in {"checkout", "running", "committed", "refreshed"}
OnConnection(r) == pc[r] \in {"admitted", "running", "refreshed"}

WorkerFree == Cardinality({r \in Request : OnWorker(r)}) < api.workers

\* QueuePool on PostgreSQL; StaticPool hands its only connection to everyone.
ConnectionFree ==
  api.engine = "sqlite" \/ Cardinality({r \in Request : OnConnection(r)}) < api.connections

Wants(r) == script[r][at[r]]
MoreToDo(r) == pc[r] = "running" /\ at[r] <= Len(script[r])
Locks(r) == {script[r][k] : k \in pending[r]}

\* Request r waits for the row lock of q.  One connection never waits for
\* itself.
WaitsFor(r, q) ==
  api.engine = "postgresql" /\ q # r /\ MoreToDo(r) /\ Wants(r) \in Locks(q)

\* All of S wait for one another in circles.
Circular(S) ==
  \A r \in S : /\ \E q \in S : WaitsFor(r, q)
               /\ \E q \in S : WaitsFor(q, r)

-----------------------------------------------------------------------------
\* Commit and rollback.

\* The sessions that share the connection of r.
Sharing(r) == IF api.engine = "sqlite" THEN Request ELSE {r}

CommitOf(r) ==
  /\ landed' = [q \in Request |-> IF q \in Sharing(r)
                                  THEN landed[q] \cup pending[q] ELSE landed[q]]
  /\ pending' = [q \in Request |-> IF q \in Sharing(r) THEN {} ELSE pending[q]]

\* Mutant of Close: get_db does not close the session, whose transaction stays
\* open.
LeaveOpen(r) ==
  /\ pc' = [pc EXCEPT ![r] = "idle"]
  /\ job' = [job EXCEPT ![r] = "none"]
  /\ script' = [script EXCEPT ![r] = <<>>]
  /\ at' = [at EXCEPT ![r] = 1]
  /\ landed' = [landed EXCEPT ![r] = {}]
  /\ UNCHANGED <<api, pending>>

\* The end of a request: get_db closes the session, and the connection is
\* rolled back when it goes back to its pool.
Close(r) ==
  /\ pc' = [pc EXCEPT ![r] = "idle"]
  /\ job' = [job EXCEPT ![r] = "none"]
  /\ script' = [script EXCEPT ![r] = <<>>]
  /\ at' = [at EXCEPT ![r] = 1]
  /\ pending' = [q \in Request |-> IF q \in Sharing(r) THEN {} ELSE pending[q]]
  /\ landed' = [landed EXCEPT ![r] = {}]
  /\ UNCHANGED api

MoveTo(r, stage) ==
  /\ pc' = [pc EXCEPT ![r] = stage]
  /\ UNCHANGED <<api, job, script, at, pending, landed>>

-----------------------------------------------------------------------------
\* The way of a request.

Arrive(r) == pc[r] = "idle" /\ MoveTo(r, "arrived")

\* get_current_user queries the user; every handler but the batch reads its
\* row back after the commit, which gave the connection back.
NeedsConnection(r) ==
  \/ pc[r] = "checkout"
  \/ pc[r] = "committed" /\ job[r] # "batch"

\* A worker takes up get_current_user.
Authenticate(r) == pc[r] = "arrived" /\ WorkerFree /\ MoveTo(r, "checkout")

\* With a connection the user is loaded, and the worker is free again; the row
\* is read back.
Checkout(r) ==
  /\ NeedsConnection(r) /\ ConnectionFree
  /\ MoveTo(r, IF pc[r] = "checkout" THEN "admitted" ELSE "refreshed")

\* Mutant of GiveUp: pool_timeout is unlimited.
NeverGiveUp(r) == FALSE /\ Close(r)

\* No connection became free within pool_timeout: 500, even to a client
\* whose request is committed.
GiveUp(r) == NeedsConnection(r) /\ ~ConnectionFree /\ Close(r)

\* Mutant of TransferRows: the debit is flushed before the credit.
TransferRowsAsAsked == {s \in Account \X Account : s[1] # s[2]}

\* The one flush of a transfer updates both rows, by primary key.
TransferRows == {s \in Account \X Account : s[1] < s[2]}

\* credit_monthly_interest flushes account by account; its query has no order.
BatchRows ==
  UNION {{s \in [1..n -> Account] : \A i, j \in 1..n : i # j => s[i] # s[j]}
          : n \in 1..Cardinality(Account)}

\* The rows each handler updates: deposit, withdraw, a status change or the
\* closure of a fixed deposit; transfer; pay_emi and disburse_loan;
\* approve_or_reject_loan; and the interest batch.
Rows(j) ==
  CASE j = "posting"  -> {<<a>> : a \in Account}
    [] j = "transfer" -> TransferRows
    [] j = "payment"  -> Account \X Loan
    [] j = "decision" -> {<<l>> : l \in Loan}
    [] j = "batch"    -> BatchRows
    [] j = "none"     -> {<<>>}

\* A worker takes up the handler.
Handle(r) ==
  /\ pc[r] = "admitted" /\ WorkerFree
  /\ pc' = [pc EXCEPT ![r] = "running"]
  /\ \E j \in Job \ {"none"} :
       /\ job' = [job EXCEPT ![r] = j]
       /\ script' \in {[script EXCEPT ![r] = s] : s \in Rows(j)}
  /\ UNCHANGED <<api, at, pending, landed>>

\* The next UPDATE, once nobody else holds the lock of its row.
Execute(r) ==
  /\ MoreToDo(r)
  /\ \A q \in Request : ~WaitsFor(r, q)
  /\ pending' = [pending EXCEPT ![r] = @ \cup {at[r]}]
  /\ at' = [at EXCEPT ![r] = @ + 1]
  /\ UNCHANGED <<api, pc, job, script, landed>>

\* The request only reads or is refused, or one of its statements fails (a
\* TXN-ID that was already given).
Fail(r) ==
  /\ pc[r] = "running" /\ \A q \in Request : ~WaitsFor(r, q)
  /\ Close(r)

\* PostgreSQL finds r in a circle and makes it the victim: 500.
Abort(r) ==
  /\ \E S \in SUBSET Request : r \in S /\ Circular(S)
  /\ Close(r)

\* Mutant of Commit: the batch commits every account that it has flushed.
CommitEach(r) ==
  /\ pc[r] = "running"
  /\ \/ ~MoreToDo(r) /\ pc' = [pc EXCEPT ![r] = "committed"]
     \/ MoreToDo(r) /\ job[r] = "batch" /\ pending[r] # {} /\ UNCHANGED pc
  /\ CommitOf(r)
  /\ UNCHANGED <<api, job, script, at>>

Commit(r) ==
  /\ pc[r] = "running" /\ ~MoreToDo(r)
  /\ pc' = [pc EXCEPT ![r] = "committed"]
  /\ CommitOf(r)
  /\ UNCHANGED <<api, job, script, at>>

\* The answer is sent and the session closed.
Answer(r) ==
  /\ \/ pc[r] = "refreshed"
     \/ pc[r] = "committed" /\ job[r] = "batch"
  /\ Close(r)

\* The process dies and docker restarts it: what is not committed is gone,
\* and so is every answer.
Crash ==
  /\ pc' = [r \in Request |-> "idle"]
  /\ job' = [r \in Request |-> "none"]
  /\ script' = [r \in Request |-> <<>>]
  /\ at' = [r \in Request |-> 1]
  /\ pending' = [r \in Request |-> {}]
  /\ landed' = [r \in Request |-> {}]
  /\ UNCHANGED api

Serve(r) ==
  \/ Arrive(r) \/ Authenticate(r) \/ Checkout(r) \/ GiveUp(r) \/ Handle(r)
  \/ Execute(r) \/ Fail(r) \/ Abort(r) \/ Commit(r) \/ Answer(r)

Next == Crash \/ \E r \in Request : Serve(r)

Spec == Init /\ [][Next]_vars

\* The steps of a request that only the others can hold up, and the two
\* timeouts.
Advance(r) ==
  \/ Authenticate(r) \/ Checkout(r) \/ Handle(r)
  \/ Execute(r) \/ Commit(r) \/ Answer(r)

TimeOut(r) == GiveUp(r) \/ Abort(r)

\* Workers, connections and row locks are given in the order in which they
\* were asked for, so nobody who waits is passed over for ever; a timeout comes
\* as long as its cause lasts.
Fairness == \A r \in Request : SF_vars(Advance(r)) /\ WF_vars(TimeOut(r))

FairSpec == Spec /\ Fairness

-----------------------------------------------------------------------------
\* Properties.

\* Every variable keeps its type, no UPDATE is both pending and landed, and who has
\* left has nothing pending: the next request starts with a clean session.
TypeOK ==
  /\ api \in Deployment
  /\ pc \in [Request -> PC]
  /\ job \in [Request -> Job]
  /\ script \in [Request -> Seq(TableRow)]
  /\ at \in [Request -> Nat]
  /\ pending \in [Request -> SUBSET Nat] /\ landed \in [Request -> SUBSET Nat]
  /\ \A r \in Request :
       /\ script[r] \in Rows(job[r])
       /\ at[r] \in 1..Len(script[r]) + 1
       /\ pending[r] \subseteq 1..at[r] - 1
       /\ landed[r] \subseteq (1..at[r] - 1) \ pending[r]

\* "Fund transfers debit source and credit destination in a single database
\* transaction" (README.md:87), and so does every other handler: whenever the
\* process dies, a request has left nothing at all or, from its only commit
\* on, everything (on PostgreSQL).
AllOrNothing ==
  api.engine = "postgresql" =>
    \A r \in Request :
      landed[r] = IF pc[r] \in {"committed", "refreshed"}
                  THEN DOMAIN script[r] ELSE {}

\* "no partial failures" (README.md:87): when a transfer is answered, both of
\* its sides are committed.
AnsweredTransfersWhole ==
  \A r \in Request :
    pc[r] = "refreshed" /\ job[r] = "transfer" => landed[r] = DOMAIN script[r]

\* Two rows have one owner each: whoever waits in a circle, one of them is the
\* interest batch, the only handler that does not update its rows in the order
\* of their keys (interest_service.py:39-46, 88).
CirclesHaveABatch ==
  \A S \in SUBSET Request :
    S # {} /\ Circular(S) => \E r \in S : job[r] = "batch"

\* Request r can do nothing before another one does.
Waits(r) ==
  \/ pc[r] \in {"arrived", "admitted"} /\ ~WorkerFree
  \/ NeedsConnection(r) /\ ~ConnectionFree
  \/ \E q \in Request : WaitsFor(r, q)

\* When everybody waits for everybody, workers, connections and locks taken
\* together, some of them wait for what times out: for a connection, or in a
\* circle of row locks.  Nobody holds a worker while he waits for a worker, so
\* no other stall is left for nobody to resolve (database.py:34).
StallsTimeOut ==
  LET busy == {r \in Request : pc[r] # "idle"}
  IN busy # {} /\ (\A r \in busy : Waits(r))
       => \/ \E r \in busy : NeedsConnection(r) /\ ~ConnectionFree
          \/ \E S \in SUBSET busy : S # {} /\ Circular(S)

\* Whatever they wait for, workers, connections or locks, every request is
\* answered in the end or lost in a crash (database.py:34).
EveryRequestAnswered == \A r \in Request : pc[r] # "idle" ~> pc[r] = "idle"
=============================================================================
