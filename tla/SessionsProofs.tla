--------------------------- MODULE SessionsProofs ---------------------------
(***************************************************************************)
(* Theorems about Sessions, for any requests, accounts, loans and          *)
(* deployments.                                                            *)
(***************************************************************************)
EXTENDS Sessions, FiniteSetTheorems, WellFoundedInduction, TLAPS

-----------------------------------------------------------------------------
\* The rows that a handler updates.

\* They are a sequence of rows.
LEMMA RowsAreSequences ==
  ASSUME NEW j \in Job, NEW s \in Rows(j)
  PROVE  s \in Seq(TableRow)
<1>1. CASE j = "posting"
  <2>1. PICK a \in Account : s = <<a>>
    BY <1>1 DEF Rows
  <2> QED BY <2>1 DEF TableRow
<1>2. CASE j = "transfer"
  <2>1. s \in Account \X Account
    BY <1>2 DEF Rows, TransferRows
  <2>2. PICK a, b \in Account : s = <<a, b>>
    BY <2>1
  <2> QED BY <2>2 DEF TableRow
<1>3. CASE j = "payment"
  <2>1. s \in Account \X Loan
    BY <1>3 DEF Rows
  <2>2. PICK a \in Account, l \in Loan : s = <<a, l>>
    BY <2>1
  <2> QED BY <2>2 DEF TableRow
<1>4. CASE j = "decision"
  <2>1. PICK l \in Loan : s = <<l>>
    BY <1>4 DEF Rows
  <2> QED BY <2>1 DEF TableRow
<1>5. CASE j = "none"
  BY <1>5 DEF Rows
<1>6. CASE j = "batch"
  <2>1. s \in BatchRows
    BY <1>6 DEF Rows
  <2>2. PICK n \in 1..Cardinality(Account) : s \in [1..n -> Account]
    BY <2>1 DEF BatchRows
  <2>3. n \in Nat
    BY <2>2
  <2>4. s \in Seq(Account)
    BY <2>2, <2>3
  <2> QED BY <2>4 DEF TableRow
<1> QED BY <1>1, <1>2, <1>3, <1>4, <1>5, <1>6 DEF Job

\* Every handler but the batch updates them in the order of their keys.
LEMMA RowsAscend ==
  ASSUME NEW j \in Job, j # "batch", NEW s \in Rows(j),
         NEW k \in 1..Len(s), NEW m \in 1..Len(s), k < m
  PROVE  s[k] < s[m]
<1>1. CASE j = "posting"
  <2>1. PICK a \in Account : s = <<a>>
    BY <1>1 DEF Rows
  <2>2. Len(s) = 1
    BY <2>1
  <2> QED BY <2>2
<1>2. CASE j = "transfer"
  <2>1. s \in Account \X Account /\ s[1] < s[2]
    BY <1>2 DEF Rows, TransferRows
  <2>2. PICK a, b \in Account : s = <<a, b>>
    BY <2>1
  <2>3. Len(s) = 2
    BY <2>2
  <2>4. k = 1 /\ m = 2
    BY <2>3
  <2> QED BY <2>1, <2>4
<1>3. CASE j = "payment"
  <2>1. s \in Account \X Loan
    BY <1>3 DEF Rows
  <2>2. PICK a \in Account, l \in Loan : s = <<a, l>>
    BY <2>1
  <2>3. Len(s) = 2 /\ s[1] = a /\ s[2] = l
    BY <2>2
  <2>4. k = 1 /\ m = 2
    BY <2>3
  <2> QED BY <2>3, <2>4, SessionsAssumption
<1>4. CASE j = "decision"
  <2>1. PICK l \in Loan : s = <<l>>
    BY <1>4 DEF Rows
  <2>2. Len(s) = 1
    BY <2>1
  <2> QED BY <2>2
<1>5. CASE j = "none"
  <2>1. Len(s) = 0
    BY <1>5 DEF Rows
  <2> QED BY <2>1
<1> QED BY <1>1, <1>2, <1>3, <1>4, <1>5 DEF Job

-----------------------------------------------------------------------------
\* Types.

\* On PostgreSQL a running request has executed, and not committed, all that
\* precedes its next UPDATE, and AllOrNothing.
Durable ==
  api.engine = "postgresql" =>
    \A r \in Request :
      /\ pending[r] = IF pc[r] = "running" THEN 1..at[r] - 1 ELSE {}
      /\ landed[r] = IF pc[r] \in {"committed", "refreshed"}
                     THEN DOMAIN script[r] ELSE {}

\* Before its handler runs a request has no job.
Fresh ==
  \A r \in Request :
    pc[r] \in {"idle", "arrived", "checkout", "admitted"} => job[r] = "none"

\* The inductive invariant.
SInv == TypeOK /\ Durable /\ Fresh

LEMMA SInvInit ==
  ASSUME Init
  PROVE  SInv
<1>1. <<>> \in Rows("none") /\ <<>> \in Seq(TableRow) /\ Len(<<>>) = 0
  BY DEF Rows
<1>2. TypeOK
  BY <1>1 DEF Init, TypeOK, PC, Job
<1>3. Durable
  BY DEF Init, Durable
<1>4. Fresh
  BY DEF Init, Fresh
<1> QED BY <1>2, <1>3, <1>4 DEF SInv

LEMMA MoveKeeps ==
  ASSUME SInv, NEW r \in Request, NEW p \in PC \ {"running"}, MoveTo(r, p),
         \/ pc[r] \in {"idle", "arrived", "checkout"}
              /\ p \notin {"committed", "refreshed"}
         \/ pc[r] = "committed" /\ p = "refreshed"
  PROVE  SInv'
<1>1. TypeOK'
  BY DEF SInv, TypeOK, MoveTo
<1>2. Durable'
  BY DEF SInv, TypeOK, Durable, MoveTo, PC
<1>3. Fresh'
  BY DEF SInv, TypeOK, Fresh, MoveTo
<1> QED BY <1>1, <1>2, <1>3 DEF SInv

LEMMA CloseKeeps ==
  ASSUME SInv, NEW r \in Request, Close(r)
  PROVE  SInv'
<1>1. <<>> \in Rows("none") /\ <<>> \in Seq(TableRow) /\ Len(<<>>) = 0
  BY DEF Rows
<1>2. /\ api' \in Deployment
      /\ pc' \in [Request -> PC] /\ job' \in [Request -> Job]
      /\ script' \in [Request -> Seq(TableRow)] /\ at' \in [Request -> Nat]
      /\ pending' \in [Request -> SUBSET Nat] /\ landed' \in [Request -> SUBSET Nat]
  BY <1>1 DEF SInv, TypeOK, Close, PC, Job
<1>3. ASSUME NEW q \in Request
      PROVE  /\ script'[q] \in Rows(job'[q])
             /\ at'[q] \in 1..Len(script'[q]) + 1
             /\ pending'[q] \subseteq 1..at'[q] - 1
             /\ landed'[q] \subseteq (1..at'[q] - 1) \ pending'[q]
  <2>1. CASE q = r
    BY <1>1, <2>1 DEF SInv, TypeOK, Close, Sharing
  <2>2. CASE q # r
    BY <2>2 DEF SInv, TypeOK, Close
  <2> QED BY <2>1, <2>2
<1>4. TypeOK'
  BY <1>2, <1>3 DEF TypeOK
<1>5. Durable'
  BY DEF SInv, TypeOK, Durable, Close, Sharing
<1>6. Fresh'
  BY DEF SInv, TypeOK, Fresh, Close
<1> QED BY <1>4, <1>5, <1>6 DEF SInv

LEMMA HandleKeeps ==
  ASSUME SInv, NEW r \in Request, Handle(r)
  PROVE  SInv'
<1>1. PICK j \in Job \ {"none"} :
        /\ job' = [job EXCEPT ![r] = j]
        /\ script' \in {[script EXCEPT ![r] = s] : s \in Rows(j)}
  BY DEF Handle
<1>2. PICK s \in Rows(j) : script' = [script EXCEPT ![r] = s]
  BY <1>1
<1>3. s \in Seq(TableRow) /\ Len(s) \in Nat
  BY <1>1, <1>2, RowsAreSequences
<1>4. pc[r] = "admitted" /\ pc' = [pc EXCEPT ![r] = "running"] /\ "running" \in PC
  BY DEF Handle, PC
<1>5. UNCHANGED <<api, at, pending, landed>>
  BY DEF Handle
<1>6. Len(script[r]) = 0 /\ at[r] = 1 /\ pending[r] = {} /\ landed[r] = {}
  <2>1. script[r] \in Rows("none")
    BY <1>4 DEF SInv, TypeOK, Fresh
  <2>2. script[r] = <<>>
    BY <2>1 DEF Rows
  <2>3. Len(script[r]) = 0 /\ at[r] \in 1..1
    BY <2>2 DEF SInv, TypeOK
  <2>4. at[r] = 1
    BY <2>3
  <2>5. pending[r] \subseteq 1..at[r] - 1 /\ landed[r] \subseteq (1..at[r] - 1)
    BY DEF SInv, TypeOK
  <2>6. 1..at[r] - 1 = {}
    BY <2>4
  <2> QED BY <2>3, <2>4, <2>5, <2>6
<1>7. TypeOK'
  <2>1. ASSUME NEW q \in Request
        PROVE  /\ script'[q] \in Rows(job'[q])
               /\ at'[q] \in 1..Len(script'[q]) + 1
               /\ pending'[q] \subseteq 1..at'[q] - 1
               /\ landed'[q] \subseteq (1..at'[q] - 1) \ pending'[q]
    <3>1. CASE q = r
      <4>1. script'[r] = s /\ job'[r] = j
        BY <1>1, <1>2 DEF SInv, TypeOK
      <4>2. at'[r] \in 1..Len(s) + 1
        BY <1>3, <1>5, <1>6
      <4> QED BY <3>1, <4>1, <4>2, <1>5, <1>6
    <3>2. CASE q # r
      BY <3>2, <1>1, <1>2, <1>5 DEF SInv, TypeOK
    <3> QED BY <3>1, <3>2
  <2>2. /\ api' \in Deployment
        /\ pc' \in [Request -> PC] /\ job' \in [Request -> Job]
        /\ script' \in [Request -> Seq(TableRow)] /\ at' \in [Request -> Nat]
        /\ pending' \in [Request -> SUBSET Nat]
        /\ landed' \in [Request -> SUBSET Nat]
    BY <1>1, <1>2, <1>3, <1>4, <1>5 DEF SInv, TypeOK
  <2> QED BY <2>1, <2>2 DEF TypeOK
<1>8. Durable'
  <2>1. ASSUME NEW q \in Request, api.engine = "postgresql"
        PROVE  /\ pending'[q] = IF pc'[q] = "running" THEN 1..at'[q] - 1 ELSE {}
               /\ landed'[q] = IF pc'[q] \in {"committed", "refreshed"}
                              THEN DOMAIN script'[q] ELSE {}
    <3>1. CASE q = r
      <4>1. 1..at[r] - 1 = {}
        BY <1>6
      <4> QED BY <3>1, <4>1, <1>4, <1>5, <1>6 DEF SInv, TypeOK
    <3>2. CASE q # r
      BY <3>2, <2>1, <1>2, <1>4, <1>5 DEF SInv, TypeOK, Durable
    <3> QED BY <3>1, <3>2
  <2> QED BY <2>1, <1>5 DEF Durable
<1>9. Fresh'
  BY <1>1, <1>4 DEF SInv, TypeOK, Fresh
<1> QED BY <1>7, <1>8, <1>9 DEF SInv

LEMMA ExecuteKeeps ==
  ASSUME SInv, NEW r \in Request, Execute(r)
  PROVE  SInv'
<1>1. /\ pc[r] = "running" /\ at[r] <= Len(script[r])
      /\ pending' = [pending EXCEPT ![r] = @ \cup {at[r]}]
      /\ at' = [at EXCEPT ![r] = @ + 1]
      /\ UNCHANGED <<api, pc, job, script, landed>>
  BY DEF Execute, MoreToDo
<1>2. at[r] \in Nat /\ at[r] >= 1 /\ Len(script[r]) \in Nat
  BY DEF SInv, TypeOK
<1>3. at'[r] \in 1..Len(script[r]) + 1
  BY <1>1, <1>2 DEF SInv, TypeOK
<1>4. TypeOK'
  <2>1. ASSUME NEW q \in Request
        PROVE  /\ script'[q] \in Rows(job'[q])
               /\ at'[q] \in 1..Len(script'[q]) + 1
               /\ pending'[q] \subseteq 1..at'[q] - 1
               /\ landed'[q] \subseteq (1..at'[q] - 1) \ pending'[q]
    <3>1. CASE q = r
      <4>1. pending'[r] = pending[r] \cup {at[r]} /\ at'[r] = at[r] + 1
        BY <1>1 DEF SInv, TypeOK
      <4>2. pending[r] \subseteq 1..at[r] - 1
            /\ landed[r] \subseteq (1..at[r] - 1) \ pending[r]
        BY DEF SInv, TypeOK
      <4>3. 1..at[r] - 1 \subseteq 1..at'[r] - 1 /\ at[r] \in 1..at'[r] - 1
            /\ at[r] \notin 1..at[r] - 1
        BY <1>2, <4>1
      <4>4. pending'[r] \subseteq 1..at'[r] - 1
        BY <4>1, <4>2, <4>3
      <4>5. landed[r] \subseteq (1..at'[r] - 1) \ pending'[r]
        BY <4>1, <4>2, <4>3
      <4>6. script[r] \in Rows(job[r])
        BY DEF SInv, TypeOK
      <4> QED BY <3>1, <4>4, <4>5, <4>6, <1>1, <1>3
    <3>2. CASE q # r
      BY <3>2, <1>1 DEF SInv, TypeOK
    <3> QED BY <3>1, <3>2
  <2>2. /\ at' \in [Request -> Nat] /\ pending' \in [Request -> SUBSET Nat]
    BY <1>1, <1>2 DEF SInv, TypeOK
  <2> QED BY <2>1, <2>2, <1>1 DEF SInv, TypeOK
<1>5. Durable'
  <2>1. ASSUME NEW q \in Request, api.engine = "postgresql"
        PROVE  pending'[q] = IF pc[q] = "running" THEN 1..at'[q] - 1 ELSE {}
    <3>1. CASE q = r
      <4>1. pending'[r] = (1..at[r] - 1) \cup {at[r]} /\ at'[r] = at[r] + 1
        BY <2>1, <1>1 DEF SInv, TypeOK, Durable
      <4>2. (1..at[r] - 1) \cup {at[r]} = 1..(at[r] + 1) - 1
        BY <1>2
      <4> QED BY <3>1, <4>1, <4>2, <1>1
    <3>2. CASE q # r
      BY <3>2, <2>1, <1>1 DEF SInv, TypeOK, Durable
    <3> QED BY <3>1, <3>2
  <2> QED BY <2>1, <1>1 DEF SInv, Durable
<1>6. Fresh'
  BY <1>1 DEF SInv, Fresh
<1> QED BY <1>4, <1>5, <1>6 DEF SInv

LEMMA CommitKeeps ==
  ASSUME SInv, NEW r \in Request, Commit(r)
  PROVE  SInv'
<1>1. /\ pc[r] = "running" /\ ~(at[r] <= Len(script[r]))
      /\ pc' = [pc EXCEPT ![r] = "committed"] /\ "committed" \in PC
      /\ landed' = [q \in Request |-> IF q \in Sharing(r)
                                      THEN landed[q] \cup pending[q] ELSE landed[q]]
      /\ pending' = [q \in Request |-> IF q \in Sharing(r) THEN {} ELSE pending[q]]
      /\ UNCHANGED <<api, job, script, at>>
  BY DEF Commit, CommitOf, MoreToDo, PC
<1>2. TypeOK'
  BY <1>1 DEF SInv, TypeOK
<1>3. Durable'
  <2>1. ASSUME NEW q \in Request, api.engine = "postgresql"
        PROVE  /\ pending'[q] = IF pc'[q] = "running" THEN 1..at[q] - 1 ELSE {}
               /\ landed'[q] = IF pc'[q] \in {"committed", "refreshed"}
                              THEN DOMAIN script[q] ELSE {}
    <3>1. Sharing(r) = {r}
      BY <2>1 DEF Sharing
    <3>2. CASE q = r
      <4>1. at[r] \in 1..Len(script[r]) + 1 /\ Len(script[r]) \in Nat
        BY DEF SInv, TypeOK
      <4>2. at[r] - 1 = Len(script[r])
        BY <4>1, <1>1
      <4>3. pending[r] = 1..at[r] - 1 /\ landed[r] = {}
        BY <2>1, <1>1 DEF SInv, Durable
      <4>4. DOMAIN script[r] = 1..Len(script[r])
        BY DEF SInv, TypeOK
      <4> QED BY <3>1, <3>2, <4>2, <4>3, <4>4, <1>1 DEF SInv, TypeOK
    <3>3. CASE q # r
      BY <3>1, <3>3, <2>1, <1>1 DEF SInv, TypeOK, Durable
    <3> QED BY <3>2, <3>3
  <2> QED BY <2>1, <1>1 DEF Durable
<1>4. Fresh'
  BY <1>1 DEF SInv, TypeOK, Fresh
<1> QED BY <1>2, <1>3, <1>4 DEF SInv

LEMMA CrashKeeps ==
  ASSUME SInv, Crash
  PROVE  SInv'
<1>1. <<>> \in Rows("none") /\ <<>> \in Seq(TableRow) /\ Len(<<>>) = 0
  BY DEF Rows
<1>2. TypeOK'
  BY <1>1 DEF SInv, TypeOK, Crash, PC, Job
<1>3. Durable' /\ Fresh'
  BY DEF Crash, Durable, Fresh
<1> QED BY <1>2, <1>3 DEF SInv

\* Every step preserves the invariant.
LEMMA SInvStep ==
  ASSUME SInv, [Next]_vars
  PROVE  SInv'
<1>1. CASE Crash
  BY <1>1, CrashKeeps
<1>2. ASSUME NEW r \in Request, Serve(r)
      PROVE  SInv'
  <2>1. CASE Arrive(r)
    BY <2>1, MoveKeeps DEF Arrive, PC
  <2>2. CASE Authenticate(r)
    BY <2>2, MoveKeeps DEF Authenticate, PC
  <2>3. CASE Checkout(r)
    <3>1. CASE pc[r] = "checkout"
      BY <2>3, <3>1, MoveKeeps DEF Checkout, PC
    <3>2. CASE pc[r] = "committed"
      BY <2>3, <3>2, MoveKeeps DEF Checkout, PC
    <3> QED BY <2>3, <3>1, <3>2 DEF Checkout, NeedsConnection
  <2>4. CASE GiveUp(r)
    BY <2>4, CloseKeeps DEF GiveUp
  <2>5. CASE Handle(r)
    BY <2>5, HandleKeeps
  <2>6. CASE Execute(r)
    BY <2>6, ExecuteKeeps
  <2>7. CASE Fail(r)
    BY <2>7, CloseKeeps DEF Fail
  <2>8. CASE Abort(r)
    BY <2>8, CloseKeeps DEF Abort
  <2>9. CASE Commit(r)
    BY <2>9, CommitKeeps
  <2>10. CASE Answer(r)
    BY <2>10, CloseKeeps DEF Answer
  <2> QED BY <1>2, <2>1, <2>2, <2>3, <2>4, <2>5, <2>6, <2>7, <2>8, <2>9, <2>10
          DEF Serve
<1>3. CASE UNCHANGED vars
  BY <1>3 DEF vars, SInv, TypeOK, Durable, Fresh
<1> QED BY <1>1, <1>2, <1>3 DEF Next

LEMMA SInvHolds == Spec => []SInv
<1> QED BY SInvInit, SInvStep, PTL DEF Spec

-----------------------------------------------------------------------------
\* Sessions is type-correct for any requests, accounts, loans and deployments:
\* no UPDATE is committed twice, or after it was rolled back.
THEOREM TypeCorrect == Spec => []TypeOK
<1>1. SInv => TypeOK
  BY DEF SInv
<1> QED BY <1>1, SInvHolds, PTL

\* On PostgreSQL, however many requests compete for workers, connections and
\* locks and whenever the process dies, a request has committed all of its
\* UPDATEs or none (README.md:87).
THEOREM AllOrNothingAlways == Spec => []AllOrNothing
<1>1. SInv => AllOrNothing
  BY DEF SInv, Durable, AllOrNothing
<1> QED BY <1>1, SInvHolds, PTL

-----------------------------------------------------------------------------
\* Who waits for a request whose UPDATEs ascend wants a smaller row than it.
LEMMA WaitersWantLess ==
  ASSUME SInv, NEW r \in Request, NEW q \in Request, job[r] # "batch",
         MoreToDo(r), WaitsFor(q, r)
  PROVE  Wants(q) < Wants(r)
<1>1. PICK k \in pending[r] : Wants(q) = script[r][k]
  BY DEF WaitsFor, Locks
<1>2. at[r] \in Nat /\ at[r] >= 1 /\ at[r] <= Len(script[r]) /\ Len(script[r]) \in Nat
  BY DEF SInv, TypeOK, MoreToDo
<1>3. k \in 1..at[r] - 1
  BY <1>1 DEF SInv, TypeOK
<1>4. k \in 1..Len(script[r]) /\ at[r] \in 1..Len(script[r]) /\ k < at[r]
  BY <1>2, <1>3
<1>5. script[r] \in Rows(job[r]) /\ job[r] \in Job
  BY DEF SInv, TypeOK
<1>6. script[r][k] < script[r][at[r]]
  BY <1>4, <1>5, RowsAscend
<1> QED BY <1>1, <1>6 DEF Wants

\* So the waits of a circle without a batch would descend for ever.
LEMMA NoCircleWithoutBatch ==
  ASSUME SInv
  PROVE  CirclesHaveABatch
<1> SUFFICES ASSUME NEW S \in SUBSET Request, S # {}, Circular(S),
                    \A r \in S : job[r] # "batch"
             PROVE  FALSE
  BY DEF CirclesHaveABatch
<1>1. \A r \in S : MoreToDo(r) /\ \E q \in S : WaitsFor(q, r)
  BY DEF Circular, WaitsFor
<1>2. \A r \in S : Wants(r) \in Nat
  <2>1. ASSUME NEW r \in S
        PROVE  Wants(r) \in Nat
    <3>1. script[r] \in Seq(TableRow) /\ at[r] \in 1..Len(script[r])
      BY <1>1 DEF SInv, TypeOK, MoreToDo
    <3>2. script[r][at[r]] \in TableRow
      BY <3>1
    <3> QED BY <3>2, SessionsAssumption DEF Wants, TableRow
  <2> QED BY <2>1
<1> DEFINE Wanted == {Wants(r) : r \in S}
<1>3. Wanted \subseteq Nat /\ Wanted # {}
  BY <1>2
<1>4. PICK x \in Wanted : \A y \in Wanted : ~(<<y, x>> \in OpToRel(<, Nat))
  BY <1>3, NatLessThanWellFounded, WFMin
<1>5. PICK r \in S : x = Wants(r)
  BY <1>4
<1>6. PICK q \in S : WaitsFor(q, r)
  BY <1>1, <1>5
<1>7. Wants(q) < Wants(r)
  BY <1>1, <1>5, <1>6, WaitersWantLess
<1>8. <<Wants(q), x>> \in OpToRel(<, Nat)
  BY <1>2, <1>5, <1>6, <1>7 DEF OpToRel
<1> QED BY <1>4, <1>6, <1>8

\* Whoever waits in a circle of row locks, one of them is the interest batch:
\* however many accounts there are, no deposits, withdrawals, transfers,
\* payments and decisions ever deadlock among themselves.
THEOREM CirclesAlwaysHaveABatch == Spec => []CirclesHaveABatch
<1> QED BY SInvHolds, NoCircleWithoutBatch, PTL

-----------------------------------------------------------------------------
\* Stalls.

\* When each of some requests waits for another of them, some of these wait in a
\* circle: the smallest set of which that can be said.
LEMMA ClosedWaitsHaveACircle ==
  ASSUME NEW W \in SUBSET Request, W # {}, \A r \in W : \E q \in W : WaitsFor(r, q)
  PROVE  \E S \in SUBSET W : S # {} /\ Circular(S)
<1> DEFINE Closed == {S \in SUBSET W : S # {} /\ \A r \in S : \E q \in S : WaitsFor(r, q)}
           Sizes == {Cardinality(S) : S \in Closed}
<1>1. \A S \in Closed : IsFiniteSet(S) /\ Cardinality(S) \in Nat
  BY SessionsAssumption, FS_Subset, FS_CardinalityType
<1>2. Sizes \subseteq Nat /\ Sizes # {}
  BY <1>1
<1>3. PICK n \in Sizes : \A m \in Sizes : ~(<<m, n>> \in OpToRel(<, Nat))
  BY <1>2, NatLessThanWellFounded, WFMin
<1>4. PICK S \in Closed : n = Cardinality(S)
  BY <1>3
<1>5. ASSUME NEW r \in S, \A q \in S : ~WaitsFor(q, r) PROVE FALSE
  <2> DEFINE T == S \ {r}
  <2>1. T \in Closed
    <3>1. PICK q \in S : WaitsFor(r, q)
      BY <1>4
    <3>2. q \in T
      BY <3>1 DEF WaitsFor
    <3>3. \A p \in T : \E v \in T : WaitsFor(p, v)
      BY <1>4, <1>5
    <3> QED BY <1>4, <3>2, <3>3
  <2>2. Cardinality(T) = Cardinality(S) - 1
    BY <1>1, <1>4, FS_RemoveElement
  <2>3. Cardinality(T) \in Nat /\ Cardinality(S) \in Nat /\ Cardinality(T) < Cardinality(S)
    <3> HIDE DEF Closed, T
    <3>1. Cardinality(T) \in Nat /\ Cardinality(S) \in Nat
      BY <1>1, <2>1
    <3> QED BY <2>2, <3>1
  <2>4. <<Cardinality(T), n>> \in OpToRel(<, Nat)
    BY <1>4, <2>3 DEF OpToRel
  <2> QED BY <1>3, <2>1, <2>4
<1> QED BY <1>4, <1>5 DEF Circular

\* Somebody has a worker when none is free.
LEMMA SomebodyWorks ==
  ASSUME SInv, ~WorkerFree
  PROVE  \E r \in Request : OnWorker(r)
<1> SUFFICES ASSUME \A r \in Request : ~OnWorker(r) PROVE FALSE
  OBVIOUS
<1>1. {r \in Request : OnWorker(r)} = {}
  OBVIOUS
<1>2. Cardinality({r \in Request : OnWorker(r)}) = 0
  BY <1>1, FS_EmptySet
<1>3. api.workers \in Nat \ {0}
  BY SessionsAssumption DEF SInv, TypeOK
<1> QED BY <1>2, <1>3 DEF WorkerFree

\* Whoever has a worker and needs no connection waits at most for a lock, and
\* only who is running holds one.
LEMMA StallsAreCircles == SInv => StallsTimeOut
<1> DEFINE busy == {r \in Request : pc[r] # "idle"}
           W == {r \in Request : \E q \in Request : WaitsFor(r, q)}
<1> SUFFICES ASSUME SInv, busy # {}, \A r \in busy : Waits(r),
                    \A r \in busy : ~(NeedsConnection(r) /\ ~ConnectionFree)
             PROVE  \E S \in SUBSET busy : S # {} /\ Circular(S)
  BY DEF StallsTimeOut
<1>1. \A r \in W : pc[r] = "running" /\ r \in busy
  BY DEF WaitsFor, MoreToDo
<1>2. \A r \in busy : OnWorker(r) => r \in W
  BY DEF Waits, OnWorker
<1>3. W # {}
  <2>1. PICK r \in busy : Waits(r)
    OBVIOUS
  <2>2. CASE ~WorkerFree
    <3>1. PICK q \in Request : OnWorker(q)
      BY <2>2, SomebodyWorks
    <3>2. q \in busy
      BY <3>1 DEF OnWorker
    <3> QED BY <1>2, <3>1, <3>2
  <2>3. CASE WorkerFree
    BY <2>1, <2>3 DEF Waits
  <2> QED BY <2>2, <2>3
<1>4. ASSUME NEW r \in W PROVE \E q \in W : WaitsFor(r, q)
  <2>1. PICK q \in Request : WaitsFor(r, q)
    OBVIOUS
  <2>2. pending[q] # {} /\ api.engine = "postgresql"
    BY <2>1 DEF WaitsFor, Locks
  <2>3. pc[q] = "running"
    BY <2>2 DEF SInv, Durable
  <2>4. q \in busy /\ OnWorker(q)
    BY <2>3 DEF OnWorker
  <2> QED BY <1>2, <2>1, <2>4
<1>5. W \in SUBSET Request /\ W \subseteq busy
  BY <1>1
<1> HIDE DEF W, busy
<1>6. PICK S \in SUBSET W : S # {} /\ Circular(S)
  BY <1>3, <1>4, <1>5, ClosedWaitsHaveACircle
<1> QED BY <1>5, <1>6

\* However many requests compete for however many workers, connections and rows:
\* if all of them wait for one another, some wait for what times out.
THEOREM StallsAlwaysTimeOut == Spec => []StallsTimeOut
BY SInvHolds, StallsAreCircles, PTL
=============================================================================
