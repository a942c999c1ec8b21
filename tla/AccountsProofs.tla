--------------------------- MODULE AccountsProofs ---------------------------
(***************************************************************************)
(* Theorems about Accounts, for any accounts, threads, limits and bounds.  *)
(***************************************************************************)
EXTENDS Accounts, AccountTableProofs, TLAPS

-----------------------------------------------------------------------------
\* What the handlers compute of a row.

\* The days of the clock, and the interest on a row, are integers.
LEMMA DaysAreIntegers ==
  ASSUME NEW c \in Nat
  PROVE  UtcDay(c) \in Int /\ LocalDay(c) \in Int
BY AccountsAssumption DEF UtcDay, LocalDay

LEMMA InterestIsInteger ==
  ASSUME NEW a \in Account, NEW r \in Row, clock \in Nat
  PROVE  Interest(a, r) \in Int
<1>1. (clock - r.credited) \in Int /\ r.balance \in Int /\ Rate[a] \in Nat
  BY AccountsAssumption DEF Row
<1>2. (clock - r.credited) \div DayLength \in Int
  BY <1>1, AccountsAssumption
<1>3. r.balance * Rate[a] \in Int
  BY <1>1
<1>4. (r.balance * Rate[a]) \div RateUnit \in Int
  BY <1>3, AccountsAssumption
<1> QED BY <1>2, <1>4 DEF Interest

\* It is a row.
LEMMA ResetIsRow ==
  ASSUME NEW r \in Row, clock \in Nat
  PROVE  ResetIfNewDay(r) \in Row
<1>1. 0 \in Int /\ UtcDay(clock) \in Int
  BY DaysAreIntegers
<1>2. [r EXCEPT !.withdrawn = 0, !.resetDay = UtcDay(clock)] \in Row
  BY <1>1, SetTwoColumns, Zenon DEF Status
<1> QED BY <1>2, Zenon DEF ResetIfNewDay

LEMMA DebitedIsRow ==
  ASSUME NEW r \in Row, NEW m \in Amounts
  PROVE  Debited(r, m) \in Row /\ Credited(r, m) \in Row
<1>1. r.balance - m \in Int /\ r.withdrawn + m \in Int /\ r.balance + m \in Int
  BY Columns, AccountsAssumption
<1>2. \E s : s \in Status
  BY DEF Status
<1>3. Debited(r, m) \in Row
  BY <1>1, <1>2, SetTwoColumns, Zenon DEF Debited
<1>4. Credited(r, m) \in Row
  BY <1>1, <1>2, SetColumn, Zenon DEF Credited
<1> QED BY <1>3, <1>4

LEMMA ClosedIsRow ==
  ASSUME NEW r \in Row
  PROVE  [r EXCEPT !.balance = 0, !.status = "CLOSED"] \in Row
<1>1. 0 \in Int /\ "CLOSED" \in Status
  BY DEF Status
<1> QED BY <1>1, SetTwoColumns, Zenon

LEMMA InterestRow ==
  ASSUME NEW a \in Account, NEW r \in Row, clock \in Nat
  PROVE  WithInterest(a, r) \in Row
<1>1. Interest(a, r) \in Int
  BY InterestIsInteger
<1>2. r.balance + Interest(a, r) \in Int /\ clock \in Int
  BY <1>1, Columns
<1>3. \E s : s \in Status
  BY DEF Status
<1>4. [r EXCEPT !.balance = @ + Interest(a, r), !.credited = clock] \in Row
  BY <1>2, <1>3, SetTwoColumns, Zenon
<1> QED BY <1>4, Zenon DEF WithInterest

-----------------------------------------------------------------------------
\* The steps that end a request.
Handler(t) ==
  \/ Deposit(t) \/ WithdrawBlocked(t) \/ WithdrawRefused(t)
  \/ Withdraw(t) \/ TransferRefused(t) \/ Transfer(t)
  \/ UpdateStatus(t) \/ CloseFd(t) \/ CreditInterest(t)

LEMMA HandlersAnswer ==
  ASSUME NEW t \in Thread, Handler(t)
  PROVE  Answer(t)
BY DEF Handler, Deposit, WithdrawBlocked, WithdrawRefused, Withdraw,
       TransferRefused, Transfer, UpdateStatus, CloseFd, CreditInterest

-----------------------------------------------------------------------------
\* Type correctness.

LEMMA InitType == Init => TypeOK
BY AccountsAssumption, NoRowIsRow, DaysAreIntegers
   DEF Init, TypeOK, Row, Status, PC

\* A thread that answers gives its account back.
LEMMA AnswerType ==
  ASSUME TypeOK, NEW t \in Thread, Answer(t)
  PROVE  /\ pc' \in [Thread -> PC]
         /\ from' \in [Thread -> Account \cup {NoAccount}]
         /\ into' \in [Thread -> Account \cup {NoAccount}]
         /\ seen' \in [Thread -> [Account -> Row]]
         /\ clock' \in Nat /\ served' \in Nat /\ contended' \subseteq Account
         /\ \A u \in Thread :
              /\ pc'[u] \in {"one", "two"} => from'[u] \in Account
              /\ pc'[u] = "two" => into'[u] \in Account /\ into'[u] # from'[u]
BY NoRowIsRow DEF TypeOK, Answer, PC

LEMMA LoadType ==
  ASSUME TypeOK, NEW t \in Thread,
         LoadAccount(t) \/ LoadDestination(t) \/ LoadBatch(t)
  PROVE  TypeOK'
<1>1. CASE LoadAccount(t)
  BY <1>1 DEF TypeOK, LoadAccount, Meeting, PC
<1>2. CASE LoadDestination(t)
  BY <1>2 DEF TypeOK, LoadDestination, Meeting, PC
<1>3. CASE LoadBatch(t)
  BY <1>3, NoRowIsRow DEF TypeOK, LoadBatch, Meeting, PC
<1> QED BY <1>1, <1>2, <1>3

\* What a handler needs of the thread that runs it.
LEMMA ServedAccount ==
  ASSUME TypeOK, NEW t \in Thread
  PROVE  /\ clock \in Nat
         /\ pc[t] \in {"one", "two"} =>
              from[t] \in Account /\ seen[t][from[t]] \in Row
         /\ pc[t] = "two" =>
              /\ into[t] \in Account /\ into[t] # from[t]
              /\ seen[t][into[t]] \in Row
         /\ \A a \in Account : seen[t][a] \in Row /\ row[a] \in Row
BY DEF TypeOK

LEMMA HandlerType ==
  ASSUME TypeOK, NEW t \in Thread, Handler(t)
  PROVE  TypeOK'
<1> USE ServedAccount, AccountsAssumption
<1>0. Answer(t)
  BY HandlersAnswer
<1> SUFFICES /\ row' \in [Account -> Row] /\ posted' \in [Account -> Int]
             /\ failed' \in [Account -> Nat] /\ paidOut' \in [Account -> Int]
             /\ spent' \in [Account -> Nat]
  BY <1>0, AnswerType DEF TypeOK
<1> DEFINE a == from[t]
           b == into[t]
           old == seen[t][a]
           dst == seen[t][b]
<1>1. CASE Deposit(t)
  <2>1. \A m \in Amounts : Flush(row[a], old, Credited(old, m)) \in Row
    BY <1>1, DebitedIsRow, FlushIsRow DEF Deposit
  <2> QED BY <1>1, <2>1 DEF Deposit, TypeOK
<1>2. CASE WithdrawBlocked(t)
  BY <1>2 DEF WithdrawBlocked, TypeOK
<1>3. CASE WithdrawRefused(t)
  <2>1. Flush(row[a], old, ResetIfNewDay(old)) \in Row
    BY <1>3, ResetIsRow, FlushIsRow DEF WithdrawRefused
  <2> QED BY <1>3, <2>1 DEF WithdrawRefused, TypeOK
<1>4. CASE Withdraw(t)
  <2>1. \A m \in Amounts :
          Flush(row[a], old, Debited(ResetIfNewDay(old), m)) \in Row
    BY <1>4, ResetIsRow, DebitedIsRow, FlushIsRow DEF Withdraw
  <2> QED BY <1>4, <2>1 DEF Withdraw, TypeOK
<1>5. CASE TransferRefused(t)
  BY <1>5 DEF TransferRefused, TypeOK
<1>6. CASE Transfer(t)
  <2>1. \A m \in Amounts :
          /\ Flush(row[a], old, Debited(ResetIfNewDay(old), m)) \in Row
          /\ Flush(row[b], dst, Credited(dst, m)) \in Row
    BY <1>6, ResetIsRow, DebitedIsRow, FlushIsRow DEF Transfer
  <2>2. PICK m \in Amounts :
          /\ row' = [row EXCEPT ![a] = Flush(@, old, Debited(ResetIfNewDay(old), m)),
                                ![b] = Flush(@, dst, Credited(dst, m))]
          /\ posted' = [posted EXCEPT ![a] = @ - m, ![b] = @ + m]
          /\ spent' = [spent EXCEPT ![a] = @ + m]
    BY <1>6, Zenon DEF Transfer
  <2>3. /\ a \in Account /\ b \in Account /\ a # b /\ m \in Nat
        /\ row \in [Account -> Row] /\ posted \in [Account -> Int]
        /\ spent \in [Account -> Nat] /\ UNCHANGED <<failed, paidOut>>
    BY <1>6 DEF Transfer, TypeOK
  <2> DEFINE debit == Flush(row[a], old, Debited(ResetIfNewDay(old), m))
             credit == Flush(row[b], dst, Credited(dst, m))
  <2>4. debit \in Row /\ credit \in Row
    BY <2>1
  <2>5. row' = [row EXCEPT ![a] = debit, ![b] = credit]
    BY <2>2, <2>3
  <2> HIDE DEF debit, credit
  <2>6. row' \in [Account -> Row]
    BY <2>3, <2>4, <2>5
  <2>7. posted' \in [Account -> Int] /\ spent' \in [Account -> Nat]
    BY <2>2, <2>3
  <2> QED BY <2>3, <2>6, <2>7 DEF TypeOK
<1>7. CASE UpdateStatus(t)
  <2>1. \A s \in Status : [old EXCEPT !.status = s] \in Row
    BY <1>7, SetColumn DEF UpdateStatus
  <2>2. \A s \in Status : Flush(row[a], old, [old EXCEPT !.status = s]) \in Row
    BY <1>7, <2>1, FlushIsRow DEF UpdateStatus
  <2>3. row \in [Account -> Row] /\ a \in Account
    BY <1>7 DEF UpdateStatus, TypeOK
  <2>4. ASSUME row' = row PROVE row' \in [Account -> Row]
    BY <2>3, <2>4
  <2>5. ASSUME NEW s \in Status,
               row' = [row EXCEPT ![a] = Flush(@, old, [old EXCEPT !.status = s])]
        PROVE  row' \in [Account -> Row]
    <3> DEFINE r == Flush(row[a], old, [old EXCEPT !.status = s])
    <3>1. r \in Row
      BY <2>2
    <3>2. row' = [row EXCEPT ![a] = r]
      BY <2>5
    <3> HIDE DEF r
    <3> QED BY <2>3, <3>1, <3>2
  <2>6. row' \in [Account -> Row]
    BY <1>7, <2>4, <2>5, Zenon DEF UpdateStatus
  <2>7. UNCHANGED <<posted, failed, paidOut, spent>>
    BY <1>7, Zenon DEF UpdateStatus
  <2> QED BY <2>6, <2>7 DEF TypeOK
<1>8. CASE CloseFd(t)
  <2>1. Flush(row[a], old, [old EXCEPT !.balance = 0, !.status = "CLOSED"]) \in Row
    BY <1>8, ClosedIsRow, FlushIsRow DEF CloseFd
  <2>2. Penalty(old.balance) \in Int /\ old.balance \in Int
    BY <1>8, Columns DEF CloseFd, Penalty
  <2>3. /\ a \in Account /\ row \in [Account -> Row]
        /\ posted \in [Account -> Int] /\ paidOut \in [Account -> Int]
        /\ UNCHANGED <<failed, spent>>
    BY <1>8 DEF CloseFd, TypeOK
  <2> DEFINE new == Flush(row[a], old, [old EXCEPT !.balance = 0,
                                                   !.status = "CLOSED"])
             penalty == Penalty(old.balance)
  <2>4. \/ UNCHANGED <<row, posted, paidOut>>
        \/ /\ row' = [row EXCEPT ![a] = new]
           /\ posted' = [posted EXCEPT ![a] = @ - penalty]
           /\ paidOut' = [paidOut EXCEPT ![a] = @ + (old.balance - penalty)]
    BY <1>8 DEF CloseFd
  <2>5. new \in Row /\ penalty \in Int
    BY <2>1, <2>2
  <2> HIDE DEF new, penalty
  <2>6. row' \in [Account -> Row]
    BY <2>3, <2>4, <2>5
  <2>7. posted' \in [Account -> Int] /\ paidOut' \in [Account -> Int]
    BY <2>2, <2>3, <2>4, <2>5
  <2> QED BY <2>3, <2>6, <2>7 DEF TypeOK
<1>9. CASE CreditInterest(t)
  <2>1. \A c \in Account : /\ WithInterest(c, seen[t][c]) \in Row
                           /\ seen[t][c] \in Row
    BY InterestRow
  <2>2. \A c \in Account :
          Flush(row[c], seen[t][c], WithInterest(c, seen[t][c])) \in Row
    BY <2>1, FlushIsRow
  <2>3. \A c \in Account :
          WithInterest(c, seen[t][c]).balance - seen[t][c].balance \in Int
    BY <2>1, Columns
  <2> QED BY <1>9, <2>2, <2>3 DEF CreditInterest, TypeOK
<1> QED BY <1>1, <1>2, <1>3, <1>4, <1>5, <1>6, <1>7, <1>8, <1>9
       DEF Handler

LEMMA NextType == TypeOK /\ [Next]_vars => TypeOK'
<1> SUFFICES ASSUME TypeOK, [Next]_vars PROVE TypeOK'
  OBVIOUS
<1>1. CASE Tick
  BY <1>1 DEF Tick, TypeOK
<1>2. ASSUME NEW t \in Thread, Serve(t) PROVE TypeOK'
  BY <1>2, LoadType, HandlerType DEF Serve, Handler
<1>3. CASE UNCHANGED vars
  BY <1>3 DEF vars, TypeOK
<1>4. CASE Quiet
  BY <1>3, <1>4 DEF Quiet
<1> QED BY <1>1, <1>2, <1>3, <1>4 DEF Next

\* Every reachable state is well typed, and a thread has loaded the accounts
\* that its request is about.
THEOREM TypeCorrect == Spec => []TypeOK
<1>1. Init => TypeOK
  BY InitType
<1>2. TypeOK /\ [Next]_vars => TypeOK'
  BY NextType
<1> QED BY <1>1, <1>2, PTL DEF Spec

-----------------------------------------------------------------------------
\* The floors, under any interleaving of any number of requests.

\* The balances and the statuses of the rows that the handlers compute.
LEMMA ResetKeeps ==
  ASSUME NEW r \in Row
  PROVE  /\ ResetIfNewDay(r).balance = r.balance
         /\ ResetIfNewDay(r).status = r.status
BY DEF ResetIfNewDay, Row

LEMMA ComputedBalances ==
  ASSUME NEW r \in Row, NEW m \in Amounts, NEW s \in Status
  PROVE  /\ Debited(r, m).balance = r.balance - m
         /\ Debited(r, m).status = r.status
         /\ Credited(r, m).balance = r.balance + m
         /\ Credited(r, m).status = r.status
         /\ [r EXCEPT !.status = s].balance = r.balance
         /\ [r EXCEPT !.status = s].status = s
         /\ [r EXCEPT !.balance = 0, !.status = "CLOSED"].balance = 0
         /\ [r EXCEPT !.balance = 0, !.status = "CLOSED"].status = "CLOSED"
BY DEF Debited, Credited, Row

\* Interest is only ever added.
LEMMA InterestAdds ==
  ASSUME NEW a \in Account, NEW r \in Row, clock \in Nat
  PROVE  /\ WithInterest(a, r).balance >= r.balance
         /\ WithInterest(a, r).status = r.status
         /\ ~IsActive(r) => WithInterest(a, r) = r
<1>1. Interest(a, r) \in Int
  BY InterestIsInteger
<1> HIDE DEF Interest
<1>2. CASE IsActive(r) /\ Interest(a, r) > 0
  <2>1. WithInterest(a, r)
          = [r EXCEPT !.balance = @ + Interest(a, r), !.credited = clock]
    BY <1>2, Zenon DEF WithInterest
  <2>2. /\ WithInterest(a, r).balance = r.balance + Interest(a, r)
        /\ WithInterest(a, r).status = r.status
    BY <2>1 DEF Row
  <2> QED BY <1>1, <1>2, <2>2, Columns
<1>3. CASE ~(IsActive(r) /\ Interest(a, r) > 0)
  <2>1. WithInterest(a, r) = r
    BY <1>3, Zenon DEF WithInterest
  <2> QED BY <2>1, Columns
<1> QED BY <1>2, <1>3

\* The rows that thread t has loaded are above their floors, too: whatever the
\* table holds when t commits, what it writes was checked against the floor.
LoadedAbove(t) ==
  /\ pc[t] \in {"one", "two"} => seen[t][from[t]].balance >= Floor(from[t])
  /\ pc[t] = "two" => seen[t][into[t]].balance >= Floor(into[t])
  /\ pc[t] = "batch" => \A a \in Account :
       IsActive(seen[t][a]) => seen[t][a].balance >= Floor(a)

FloorInv == TypeOK /\ FloorsKept /\ \A t \in Thread : LoadedAbove(t)

LEMMA FloorIsInteger ==
  ASSUME NEW a \in Account
  PROVE  /\ Floor(a) \in Nat
         /\ Floor(a) <= MinBalance[Kind[a]]
         /\ Floor(a) <= Opening[a]
         /\ MinBalance[Kind[a]] \in Nat
         /\ Kind[a] = "FIXED_DEPOSIT" => Floor(a) = 0
<1>1. Kind[a] \in AccountType /\ MinBalance[Kind[a]] \in Nat
  BY AccountsAssumption
<1> QED BY <1>1, AccountsAssumption DEF Floor

LEMMA FloorInit == Init => FloorInv
<1> SUFFICES ASSUME Init PROVE FloorInv
  OBVIOUS
<1>1. FloorsKept
  BY FloorIsInteger DEF Init, FloorsKept
<1>2. \A t \in Thread : LoadedAbove(t)
  BY DEF Init, LoadedAbove
<1> QED BY <1>1, <1>2, InitType DEF FloorInv

LEMMA FloorLoad ==
  ASSUME FloorInv, NEW t \in Thread,
         LoadAccount(t) \/ LoadDestination(t) \/ LoadBatch(t)
  PROVE  FloorInv'
<1>0. TypeOK'
  BY LoadType DEF FloorInv
<1>1. FloorsKept'
  BY DEF LoadAccount, LoadDestination, LoadBatch, FloorInv, FloorsKept, Floor
<1>2. CASE LoadAccount(t)
  <2>1. ASSUME NEW u \in Thread PROVE LoadedAbove(u)'
    BY <1>2 DEF LoadAccount, FloorInv, TypeOK, FloorsKept, LoadedAbove, Floor
  <2> QED BY <1>0, <1>1, <2>1 DEF FloorInv
<1>3. CASE LoadDestination(t)
  <2>1. ASSUME NEW u \in Thread PROVE LoadedAbove(u)'
    BY <1>3 DEF LoadDestination, FloorInv, TypeOK, FloorsKept, LoadedAbove, Floor
  <2> QED BY <1>0, <1>1, <2>1 DEF FloorInv
<1>4. CASE LoadBatch(t)
  <2>1. ASSUME NEW u \in Thread PROVE LoadedAbove(u)'
    BY <1>4 DEF LoadBatch, FloorInv, TypeOK, FloorsKept, LoadedAbove, Floor,
                IsActive, NoRow
  <2> QED BY <1>0, <1>1, <2>1 DEF FloorInv
<1> QED BY <1>2, <1>3, <1>4

LEMMA AnswerAbove ==
  ASSUME TypeOK, NEW t \in Thread, Answer(t), \A u \in Thread : LoadedAbove(u)
  PROVE  \A u \in Thread : LoadedAbove(u)'
BY DEF Answer, TypeOK, LoadedAbove, Floor

LEMMA FloorHandler ==
  ASSUME FloorInv, NEW t \in Thread, Handler(t)
  PROVE  FloorInv'
<1>0. Answer(t)
  BY HandlersAnswer
<1>a. TypeOK /\ TypeOK'
  BY HandlerType DEF FloorInv
<1>b. \A u \in Thread : LoadedAbove(u)'
  BY <1>0, <1>a, AnswerAbove DEF FloorInv
<1> DEFINE a == from[t]
           b == into[t]
           old == seen[t][a]
           dst == seen[t][b]
<1>c. /\ clock \in Nat
      /\ pc[t] \in {"one", "two"} =>
           /\ a \in Account /\ old \in Row
           /\ old.balance >= Floor(a)
      /\ pc[t] = "two" =>
           /\ b \in Account /\ b # a /\ dst \in Row
           /\ dst.balance >= Floor(b)
      /\ \A c \in Account : /\ seen[t][c] \in Row /\ row[c] \in Row
                            /\ row[c].balance >= Floor(c)
  BY <1>a, ServedAccount DEF FloorInv, FloorsKept, LoadedAbove
<1>d. \A m \in Amounts : m \in Nat
  BY AccountsAssumption
<1>e. row \in [Account -> Row]
  BY <1>a DEF TypeOK
<1> SUFFICES ASSUME NEW c \in Account PROVE row'[c].balance >= Floor(c)
  BY <1>a, <1>b DEF FloorInv, FloorsKept, Floor
<1>f. Floor(c) \in Int
  BY FloorIsInteger
<1> HIDE DEF a, b, old, dst
<1>1. CASE Deposit(t)
  <2>1. CASE UNCHANGED row
    BY <2>1, <1>c
  <2>2. ASSUME NEW m \in Amounts,
               row' = [row EXCEPT ![a] = Flush(@, old, Credited(old, m))]
        PROVE  row'[c].balance >= Floor(c)
    <3>1. a \in Account /\ old \in Row /\ old.balance >= Floor(a)
      BY <1>1, <1>c DEF Deposit
    <3>2. /\ Credited(old, m) \in Row
          /\ Credited(old, m).balance >= Floor(a)
      BY <3>1, <1>d, DebitedIsRow, ComputedBalances, Columns, FloorIsInteger
         DEF Status
    <3>3. Flush(row[a], old, Credited(old, m)).balance >= Floor(a)
      BY <3>1, <3>2, <1>c, FlushAbove, FloorIsInteger
    <3> QED BY <2>2, <3>1, <3>3, <1>c, <1>e
  <2> QED BY <1>1, <2>1, <2>2, Zenon DEF Deposit, a, old
<1>2. CASE WithdrawBlocked(t)
  BY <1>2, <1>c DEF WithdrawBlocked
<1>3. CASE WithdrawRefused(t)
  <2>1. row' = [row EXCEPT ![a] = Flush(@, old, ResetIfNewDay(old))]
    BY <1>3, Zenon DEF WithdrawRefused, a, old
  <2>2. a \in Account /\ old \in Row
    BY <1>3, <1>c DEF WithdrawRefused
  <2>3. ResetIfNewDay(old) \in Row /\ ResetIfNewDay(old).balance = old.balance
    BY <2>2, <1>c, ResetIsRow, ResetKeeps
  <2>4. Flush(row[a], old, ResetIfNewDay(old)).balance >= Floor(a)
    BY <2>2, <2>3, <1>c, FlushAbove, FloorIsInteger
  <2> QED BY <2>1, <2>2, <2>4, <1>c, <1>e
<1>4. CASE Withdraw(t)
  <2> DEFINE r == ResetIfNewDay(old)
  <2>1. PICK m \in Amounts :
          /\ KeepsFloor(Kind[a], r, m)
          /\ row' = [row EXCEPT ![a] = Flush(@, old, Debited(r, m))]
    BY <1>4, Zenon DEF Withdraw, a, old
  <2>2. a \in Account /\ old \in Row
    BY <1>4, <1>c DEF Withdraw
  <2>3. r \in Row
    BY <2>2, <1>c, ResetIsRow
  <2> HIDE DEF r
  <2>4. Debited(r, m) \in Row /\ Debited(r, m).balance >= Floor(a)
    BY <2>1, <2>2, <2>3, <1>d, DebitedIsRow, ComputedBalances, Columns,
       FloorIsInteger DEF KeepsFloor, Status
  <2>5. Flush(row[a], old, Debited(r, m)).balance >= Floor(a)
    BY <2>2, <2>4, <1>c, FlushAbove, FloorIsInteger
  <2> QED BY <2>1, <2>2, <2>5, <1>c, <1>e
<1>5. CASE TransferRefused(t)
  BY <1>5, <1>c DEF TransferRefused
<1>6. CASE Transfer(t)
  <2> DEFINE r == ResetIfNewDay(old)
  <2>1. PICK m \in Amounts :
          /\ TransferAllowed(a, old, dst, m)
          /\ row' = [row EXCEPT ![a] = Flush(@, old, Debited(r, m)),
                                ![b] = Flush(@, dst, Credited(dst, m))]
    BY <1>6, Zenon DEF Transfer, a, b, old, dst
  <2>2. /\ a \in Account /\ old \in Row /\ b \in Account /\ b # a
        /\ dst \in Row /\ dst.balance >= Floor(b)
    BY <1>6, <1>c DEF Transfer
  <2>3. r \in Row /\ r.balance = old.balance
    BY <2>2, <1>c, ResetIsRow, ResetKeeps
  <2> HIDE DEF r
  <2>4. Debited(r, m) \in Row /\ Debited(r, m).balance >= Floor(a)
    BY <2>1, <2>2, <2>3, <1>d, DebitedIsRow, ComputedBalances, Columns,
       FloorIsInteger DEF TransferAllowed, KeepsFloor, Status
  <2>5. Credited(dst, m) \in Row /\ Credited(dst, m).balance >= Floor(b)
    BY <2>2, <1>d, DebitedIsRow, ComputedBalances, Columns, FloorIsInteger
       DEF Status
  <2>6. /\ Flush(row[a], old, Debited(r, m)).balance >= Floor(a)
        /\ Flush(row[b], dst, Credited(dst, m)).balance >= Floor(b)
    BY <2>2, <2>4, <2>5, <1>c, FlushAbove, FloorIsInteger
  <2> QED BY <2>1, <2>2, <2>6, <1>c, <1>e
<1>7. CASE UpdateStatus(t)
  <2>1. CASE UNCHANGED row
    BY <2>1, <1>c
  <2>2. ASSUME NEW s \in Status,
               row' = [row EXCEPT ![a] = Flush(@, old, [old EXCEPT !.status = s])]
        PROVE  row'[c].balance >= Floor(c)
    <3> DEFINE r == [old EXCEPT !.status = s]
    <3>1. a \in Account /\ old \in Row
      BY <1>7, <1>c DEF UpdateStatus
    <3>2. r \in Row
      BY <3>1, SetColumn, Zenon DEF Row
    <3>3. r.balance = old.balance
      BY <3>1 DEF Row
    <3>4. row' = [row EXCEPT ![a] = Flush(row[a], old, r)]
      BY <2>2
    <3> HIDE DEF r
    <3>5. Flush(row[a], old, r).balance >= Floor(a)
      BY <3>1, <3>2, <3>3, <1>c, FlushAbove, FloorIsInteger
    <3> QED BY <3>1, <3>4, <3>5, <1>c, <1>e
  <2> QED BY <1>7, <2>1, <2>2, Zenon DEF UpdateStatus, a, old
<1>8. CASE CloseFd(t)
  <2>1. CASE UNCHANGED row
    BY <2>1, <1>c
  <2>2. ASSUME Kind[a] = "FIXED_DEPOSIT",
               row' = [row EXCEPT ![a] =
                         Flush(@, old, [old EXCEPT !.balance = 0,
                                                   !.status = "CLOSED"])]
        PROVE  row'[c].balance >= Floor(c)
    <3> DEFINE r == [old EXCEPT !.balance = 0, !.status = "CLOSED"]
    <3>1. a \in Account /\ old \in Row
      BY <1>8, <1>c DEF CloseFd
    <3>2. r \in Row
      BY <3>1, ClosedIsRow
    <3>3. r.balance = 0
      BY <3>1 DEF Row
    <3>4. row' = [row EXCEPT ![a] = Flush(row[a], old, r)]
      BY <2>2
    <3> HIDE DEF r
    <3>5. Flush(row[a], old, r).balance >= Floor(a)
      BY <2>2, <3>1, <3>2, <3>3, <1>c, FlushAbove, FloorIsInteger
    <3> QED BY <3>1, <3>4, <3>5, <1>c, <1>e
  <2> QED BY <1>8, <2>1, <2>2, Zenon DEF CloseFd, a, old
<1>9. CASE CreditInterest(t)
  <2> DEFINE r == WithInterest(c, seen[t][c])
  <2>1. row'[c] = Flush(row[c], seen[t][c], r)
    BY <1>9 DEF CreditInterest
  <2>2. r \in Row /\ seen[t][c] \in Row
    BY <1>c, InterestRow
  <2>3. r.balance = seen[t][c].balance \/ r.balance >= Floor(c)
    <3>1. CASE IsActive(seen[t][c])
      <4>1. seen[t][c].balance >= Floor(c)
        BY <1>9, <3>1 DEF CreditInterest, FloorInv, LoadedAbove
      <4>2. r.balance >= seen[t][c].balance
        BY <1>c, InterestAdds
      <4> QED BY <2>2, <4>1, <4>2, <1>f, Columns
    <3>2. CASE ~IsActive(seen[t][c])
      BY <3>2, <1>c, InterestAdds
    <3> QED BY <3>1, <3>2
  <2> HIDE DEF r
  <2> QED BY <2>1, <2>2, <2>3, <1>c, <1>f, FlushAbove
<1> QED BY <1>1, <1>2, <1>3, <1>4, <1>5, <1>6, <1>7, <1>8, <1>9
       DEF Handler

LEMMA FloorNext == FloorInv /\ [Next]_vars => FloorInv'
<1> SUFFICES ASSUME FloorInv, [Next]_vars PROVE FloorInv'
  OBVIOUS
<1>1. CASE Tick
  BY <1>1, NextType
     DEF Tick, FloorInv, FloorsKept, Floor, LoadedAbove, Next
<1>2. ASSUME NEW t \in Thread, Serve(t) PROVE FloorInv'
  BY <1>2, FloorLoad, FloorHandler DEF Serve, Handler
<1>3. CASE UNCHANGED vars
  BY <1>3, NextType DEF vars, FloorInv, FloorsKept, Floor, LoadedAbove
<1>4. CASE Quiet
  BY <1>3, <1>4 DEF Quiet
<1> QED BY <1>1, <1>2, <1>3, <1>4 DEF Next

\* Whatever requests run at once, no account falls below its floor; in
\* particular no balance is ever negative.
THEOREM FloorsAlwaysKept == Spec => []FloorsKept
<1>1. Init => FloorInv
  BY FloorInit
<1>2. FloorInv /\ [Next]_vars => FloorInv'
  BY FloorNext
<1>3. FloorInv => FloorsKept
  BY DEF FloorInv
<1> QED BY <1>1, <1>2, <1>3, PTL DEF Spec

-----------------------------------------------------------------------------
\* The rows that nobody contends for.

\* As long as a is not contended, who holds its row holds what is still in the
\* table, and holds it alone.
Fresh(t, a) ==
  Holds(t, a) => /\ seen[t][a] = row[a]
                 /\ \A u \in Thread \ {t} : ~Holds(u, a)

FreshInv ==
  FloorInv /\ \A a \in Account \ contended, t \in Thread : Fresh(t, a)

\* An UPDATE without changed columns.
LEMMA FlushNothing ==
  ASSUME NEW cur \in Row, NEW old
  PROVE  Flush(cur, old, old) = cur
BY DEF Flush, Row

\* A handler writes the rows that it holds.
LEMMA OnlyHeldRows ==
  ASSUME TypeOK, NEW t \in Thread, Handler(t), NEW c \in Account, ~Holds(t, c)
  PROVE  /\ row'[c] = row[c] /\ posted'[c] = posted[c]
         /\ paidOut'[c] = paidOut[c] /\ spent'[c] = spent[c]
<1>0. /\ row \in [Account -> Row] /\ posted \in [Account -> Int]
      /\ paidOut \in [Account -> Int] /\ spent \in [Account -> Nat]
  BY DEF TypeOK
<1>1. pc[t] \in {"one", "two"} => from[t] # c
  BY DEF Holds
<1>2. pc[t] = "two" => into[t] # c
  BY DEF Holds
<1>3. CASE Deposit(t)
  BY <1>0, <1>1, <1>3 DEF Deposit
<1>4. CASE WithdrawBlocked(t) \/ TransferRefused(t)
  BY <1>4 DEF WithdrawBlocked, TransferRefused
<1>5. CASE WithdrawRefused(t)
  BY <1>0, <1>1, <1>5 DEF WithdrawRefused
<1>6. CASE Withdraw(t)
  BY <1>0, <1>1, <1>6 DEF Withdraw
<1>7. CASE Transfer(t)
  BY <1>0, <1>1, <1>2, <1>7 DEF Transfer
<1>8. CASE UpdateStatus(t)
  BY <1>0, <1>1, <1>8 DEF UpdateStatus
<1>9. CASE CloseFd(t)
  BY <1>0, <1>1, <1>9 DEF CloseFd
<1>10. CASE CreditInterest(t)
  <2>1. seen[t][c] \in Row /\ row[c] \in Row /\ clock \in Nat
    BY DEF TypeOK
  <2>2. ~IsActive(seen[t][c])
    BY <1>10 DEF CreditInterest, Holds
  <2>3. WithInterest(c, seen[t][c]) = seen[t][c]
    BY <2>1, <2>2, InterestAdds
  <2>4. row'[c] = row[c]
    BY <1>10, <2>1, <2>3, FlushNothing DEF CreditInterest
  <2>5. /\ posted'[c] = posted[c] + (seen[t][c].balance - seen[t][c].balance)
        /\ UNCHANGED <<paidOut, spent>>
    BY <1>10, <2>3 DEF CreditInterest
  <2>6. seen[t][c].balance \in Int /\ posted[c] \in Int
    BY <1>0, <2>1, Columns
  <2> QED BY <2>4, <2>5, <2>6
<1> QED BY <1>3, <1>4, <1>5, <1>6, <1>7, <1>8, <1>9, <1>10 DEF Handler

\* The requests that others hold stay as they are, and what an answered request
\* held is free.
LEMMA OthersHold ==
  ASSUME TypeOK, NEW t \in Thread, Serve(t), NEW u \in Thread \ {t},
         NEW a \in Account
  PROVE  /\ Holds(u, a)' <=> Holds(u, a)
         /\ seen'[u] = seen[u]
<1>1. /\ pc'[u] = pc[u] /\ from'[u] = from[u] /\ into'[u] = into[u]
      /\ seen'[u] = seen[u]
  <2>1. CASE LoadAccount(t)
    BY <2>1 DEF LoadAccount, TypeOK
  <2>2. CASE LoadDestination(t)
    BY <2>2 DEF LoadDestination, TypeOK
  <2>3. CASE LoadBatch(t)
    BY <2>3 DEF LoadBatch, TypeOK
  <2>4. CASE Handler(t)
    BY <2>4, HandlersAnswer DEF Answer, TypeOK
  <2> QED BY <2>1, <2>2, <2>3, <2>4 DEF Serve, Handler
<1> QED BY <1>1 DEF Holds, IsActive

LEMMA AnsweredHoldsNothing ==
  ASSUME TypeOK, NEW t \in Thread, Answer(t), NEW a \in Account
  PROVE  ~Holds(t, a)'
BY DEF Answer, TypeOK, Holds

\* What t holds after a query it held before, or it loaded it just now and nobody
\* else holds it.
LEMMA LoadedFresh ==
  ASSUME TypeOK, NEW t \in Thread,
         LoadAccount(t) \/ LoadDestination(t) \/ LoadBatch(t),
         NEW a \in Account \ contended', Holds(t, a)'
  PROVE  \/ Holds(t, a) /\ seen'[t][a] = seen[t][a]
         \/ /\ seen'[t][a] = row[a]
            /\ \A u \in Thread \ {t} : ~Holds(u, a)
<1>1. CASE LoadAccount(t)
  <2>1. PICK b \in Account : /\ from' = [from EXCEPT ![t] = b]
                             /\ seen' = [seen EXCEPT ![t][b] = row[b]]
                             /\ contended' = contended \cup Meeting(t, {b})
    BY <1>1 DEF LoadAccount
  <2>2. a = b
    BY <1>1, <2>1 DEF LoadAccount, Holds, TypeOK
  <2> QED BY <2>1, <2>2 DEF TypeOK, Meeting
<1>2. CASE LoadDestination(t)
  <2>1. PICK b \in Account \ {from[t]} :
          /\ into' = [into EXCEPT ![t] = b]
          /\ seen' = [seen EXCEPT ![t][b] = row[b]]
          /\ contended' = contended \cup Meeting(t, {b})
    BY <1>2 DEF LoadDestination
  <2>2. CASE a = b
    BY <2>1, <2>2 DEF TypeOK, Meeting
  <2>3. CASE a # b
    <3>1. from[t] = a
      BY <1>2, <2>1, <2>3 DEF LoadDestination, Holds, TypeOK
    <3> QED BY <1>2, <2>1, <2>3, <3>1 DEF LoadDestination, Holds, TypeOK
  <2> QED BY <2>2, <2>3
<1>3. CASE LoadBatch(t)
  <2>1. pc'[t] = "batch"
    BY <1>3 DEF LoadBatch, TypeOK
  <2>2. IsActive(seen'[t][a])
    BY <2>1 DEF Holds, IsActive
  <2>3. seen'[t][a] = IF BearsInterest(a) THEN row[a] ELSE NoRow
    BY <1>3 DEF LoadBatch, TypeOK
  <2>4. BearsInterest(a)
    BY <2>2, <2>3 DEF IsActive, NoRow
  <2> QED BY <1>3, <2>3, <2>4 DEF LoadBatch, Meeting
<1> QED BY <1>1, <1>2, <1>3

LEMMA ContendedGrows ==
  ASSUME [Next]_vars
  PROVE  contended \subseteq contended'
BY DEF Next, vars, Tick, Quiet, Serve, LoadAccount, LoadDestination, LoadBatch,
       Deposit, WithdrawBlocked, WithdrawRefused, Withdraw, TransferRefused,
       Transfer, UpdateStatus, CloseFd, CreditInterest, Answer

LEMMA FreshLoad ==
  ASSUME FreshInv, NEW t \in Thread,
         LoadAccount(t) \/ LoadDestination(t) \/ LoadBatch(t),
         NEW a \in Account \ contended', NEW u \in Thread
  PROVE  Fresh(u, a)'
<1>0. /\ TypeOK /\ Serve(t) /\ UNCHANGED row
      /\ a \in Account \ contended
      /\ \A w \in Thread : Fresh(w, a)
  <2>1. Serve(t) /\ UNCHANGED row
    BY DEF Serve, LoadAccount, LoadDestination, LoadBatch
  <2>2. a \in Account \ contended
    BY <2>1, ContendedGrows DEF Next
  <2> QED BY <2>1, <2>2 DEF FreshInv, FloorInv
<1>1. \A w \in Thread \ {t} : (Holds(w, a)' <=> Holds(w, a)) /\ seen'[w] = seen[w]
  BY <1>0, OthersHold
<1>2. SUFFICES ASSUME Holds(u, a)'
               PROVE  /\ seen'[u][a] = row[a]
                      /\ \A w \in Thread \ {u} : ~Holds(w, a)'
  BY <1>0 DEF Fresh
<1>3. CASE u = t
  BY <1>0, <1>1, <1>2, <1>3, LoadedFresh DEF Fresh
<1>4. CASE u # t
  <2>1. Holds(u, a) /\ seen[u][a] = row[a]
    BY <1>0, <1>1, <1>2, <1>4 DEF Fresh
  <2>2. ~Holds(t, a)
    BY <1>0, <1>4, <2>1 DEF Fresh
  <2>3. ~Holds(t, a)'
    BY <1>0, <1>4, <2>1, <2>2, LoadedFresh
  <2> QED BY <1>0, <1>1, <1>4, <2>1, <2>3 DEF Fresh
<1> QED BY <1>3, <1>4

LEMMA FreshHandler ==
  ASSUME FreshInv, NEW t \in Thread, Handler(t),
         NEW a \in Account \ contended', NEW u \in Thread
  PROVE  Fresh(u, a)'
<1>0. /\ TypeOK /\ Serve(t) /\ Answer(t)
      /\ a \in Account \ contended
      /\ \A w \in Thread : Fresh(w, a)
  BY HandlersAnswer DEF FreshInv, FloorInv, Serve, Handler, Answer
<1>1. ~Holds(t, a)'
  BY <1>0, AnsweredHoldsNothing
<1>2. \A w \in Thread \ {t} : (Holds(w, a)' <=> Holds(w, a)) /\ seen'[w] = seen[w]
  BY <1>0, OthersHold
<1>3. SUFFICES ASSUME Holds(u, a)'
               PROVE  /\ seen'[u][a] = row'[a]
                      /\ \A w \in Thread \ {u} : ~Holds(w, a)'
  BY DEF Fresh
<1>4. u # t /\ Holds(u, a) /\ seen'[u][a] = row[a]
  BY <1>0, <1>1, <1>2, <1>3 DEF Fresh
<1>5. ~Holds(t, a)
  BY <1>0, <1>4 DEF Fresh
<1>6. row'[a] = row[a]
  BY <1>0, <1>5, OnlyHeldRows
<1> QED BY <1>0, <1>1, <1>2, <1>4, <1>6 DEF Fresh

LEMMA FreshNext ==
  ASSUME FreshInv, [Next]_vars
  PROVE  FreshInv'
<1>1. FloorInv'
  BY FloorNext DEF FreshInv
<1>2. ASSUME UNCHANGED <<row, pc, from, into, seen, contended>>
      PROVE  FreshInv'
  BY <1>1, <1>2 DEF FreshInv, Fresh, Holds
<1>3. CASE Tick \/ Quiet \/ UNCHANGED vars
  BY <1>2, <1>3 DEF Tick, Quiet, vars
<1>4. ASSUME NEW t \in Thread, Serve(t) PROVE FreshInv'
  <2>1. CASE LoadAccount(t) \/ LoadDestination(t) \/ LoadBatch(t)
    BY <1>1, <2>1, FreshLoad DEF FreshInv
  <2>2. CASE Handler(t)
    BY <1>1, <2>2, FreshHandler DEF FreshInv
  <2> QED BY <1>4, <2>1, <2>2 DEF Serve, Handler
<1> QED BY <1>3, <1>4 DEF Next

LEMMA FreshInit == Init => FreshInv
BY FloorInit DEF Init, FreshInv, Fresh, Holds

\* On an account that is not contended a handler's UPDATE is its computation.
LEMMA Unmoved ==
  ASSUME FreshInv, NEW t \in Thread, NEW c \in Account \ contended, Holds(t, c)
  PROVE  /\ seen[t][c] = row[c]
         /\ \A r \in Row : Flush(row[c], seen[t][c], r) = r
<1>1. Fresh(t, c) /\ row[c] \in Row
  BY DEF FreshInv, FloorInv, TypeOK
<1> QED BY <1>1, FlushUnmoved DEF Fresh

-----------------------------------------------------------------------------
\* The refinement of Ledger.

LEMMA BookInit == Init => Book!LedgerInit
<1> SUFFICES ASSUME Init PROVE Book!LedgerInit
  OBVIOUS
<1>1. Funds = Opening
  BY AccountsAssumption DEF Init, Funds
<1>2. Life = [a \in Account |-> "ACTIVE"]
  BY DEF Init, Life
<1> QED BY <1>1, <1>2 DEF Init, Book!LedgerInit

\* The ledger's view of the rows.
LEMMA BookView ==
  \A c \in Account : /\ Funds[c] = row[c].balance /\ Funds'[c] = row'[c].balance
                     /\ Life[c] = row[c].status /\ Life'[c] = row'[c].status
BY DEF Funds, Life

\* A step that posts nothing on the accounts that the ledger vouches for, or
\* posts what it moves.
Posts(c) ==
  /\ row'[c].balance - row[c].balance = posted'[c] - posted[c]
  /\ row'[c].status = row[c].status
  /\ row'[c].balance # row[c].balance => row[c].status = "ACTIVE"
  /\ paidOut'[c] = paidOut[c]

LEMMA BookPost ==
  ASSUME FloorInv', contended \subseteq contended',
         \A c \in Account \ contended' : Posts(c)
  PROVE  Book!LedgerNext
<1>1. \A c \in Account : row'[c].balance >= 0
  <2> TAKE c \in Account
  <2>1. row'[c].balance >= Floor(c) /\ row'[c].balance \in Int
    BY DEF FloorInv, FloorsKept, Floor, TypeOK, Row
  <2> QED BY <2>1, FloorIsInteger
<1>2. Book!Post
  BY <1>1, BookView DEF Book!Post, Book!Vouched, Posts
<1> QED BY <1>2 DEF Book!LedgerNext

\* An account whose row stays as it is.
LEMMA NothingPosted ==
  ASSUME TypeOK, NEW c \in Account, row'[c] = row[c], posted'[c] = posted[c],
         paidOut'[c] = paidOut[c]
  PROVE  Posts(c)
<1>1. row[c].balance \in Int /\ posted[c] \in Int
  BY Columns DEF TypeOK
<1> QED BY <1>1 DEF Posts

\* A posting of n on account c.
LEMMA Posted ==
  ASSUME TypeOK, NEW c \in Account, NEW n \in Int,
         row'[c].balance = row[c].balance + n, posted'[c] = posted[c] + n,
         row'[c].status = row[c].status, row[c].status = "ACTIVE",
         paidOut'[c] = paidOut[c]
  PROVE  Posts(c)
<1>1. row[c].balance \in Int /\ posted[c] \in Int
  BY Columns DEF TypeOK
<1> QED BY <1>1 DEF Posts

\* What a handler does not hold it does not post on.
LEMMA NotHeldNotPosted ==
  ASSUME TypeOK, NEW t \in Thread, Handler(t), NEW c \in Account, ~Holds(t, c)
  PROVE  Posts(c)
BY OnlyHeldRows, NothingPosted

LEMMA PostsDeposit ==
  ASSUME FreshInv, NEW t \in Thread, Deposit(t), NEW c \in Account \ contended
  PROVE  Posts(c)
<1>0. TypeOK /\ Handler(t)
  BY DEF FreshInv, FloorInv, Handler
<1> DEFINE old == seen[t][c]
<1>1. CASE ~Holds(t, c)
  BY <1>0, <1>1, NotHeldNotPosted
<1>2. CASE Holds(t, c)
  <2>1. from[t] = c /\ UNCHANGED paidOut
    BY <1>2 DEF Deposit, Holds
  <2>2. /\ old = row[c] /\ old \in Row
        /\ \A r \in Row : Flush(row[c], old, r) = r
        /\ row \in [Account -> Row] /\ posted \in [Account -> Int]
    BY <1>0, <1>2, Unmoved DEF TypeOK
  <2>3. CASE UNCHANGED <<row, posted>>
    BY <1>0, <2>1, <2>3, NothingPosted
  <2>4. ASSUME NEW m \in Amounts, IsActive(old),
               row' = [row EXCEPT ![c] = Flush(@, old, Credited(old, m))],
               posted' = [posted EXCEPT ![c] = @ + m]
        PROVE  Posts(c)
    <3>1. /\ Credited(old, m) \in Row
          /\ Credited(old, m).balance = old.balance + m
          /\ Credited(old, m).status = old.status
      BY <2>2, DebitedIsRow, ComputedBalances DEF Status
    <3> HIDE DEF old
    <3>2. row'[c] = Credited(old, m) /\ posted'[c] = posted[c] + m
      BY <2>2, <2>4, <3>1
    <3>3. m \in Int /\ row[c].status = "ACTIVE"
      BY <2>2, <2>4, AccountsAssumption DEF IsActive
    <3> QED BY <1>0, <2>1, <2>2, <3>1, <3>2, <3>3, Posted
  <2> QED BY <2>1, <2>3, <2>4, Zenon DEF Deposit, old
<1> QED BY <1>1, <1>2

\* The reset of a daily counter is nothing to the ledger.
LEMMA PostsWithdrawRefused ==
  ASSUME FreshInv, NEW t \in Thread, WithdrawRefused(t),
         NEW c \in Account \ contended
  PROVE  Posts(c)
<1>0. TypeOK /\ Handler(t) /\ clock \in Nat
  BY DEF FreshInv, FloorInv, TypeOK, Handler
<1> DEFINE old == seen[t][c]
           r == ResetIfNewDay(old)
<1>1. CASE ~Holds(t, c)
  BY <1>0, <1>1, NotHeldNotPosted
<1>2. CASE Holds(t, c)
  <2>1. from[t] = c /\ UNCHANGED <<posted, paidOut>>
    BY <1>2 DEF WithdrawRefused, Holds
  <2>2. /\ old = row[c] /\ old \in Row
        /\ \A q \in Row : Flush(row[c], old, q) = q
        /\ row \in [Account -> Row] /\ posted \in [Account -> Int]
    BY <1>0, <1>2, Unmoved DEF TypeOK
  <2>3. r \in Row /\ r.balance = old.balance /\ r.status = old.status
    BY <1>0, <2>2, ResetIsRow, ResetKeeps
  <2>4. row' = [row EXCEPT ![c] = Flush(@, old, r)]
    BY <2>1, Zenon DEF WithdrawRefused
  <2> HIDE DEF old, r
  <2>5. row'[c].balance = row[c].balance /\ row'[c].status = row[c].status
    BY <2>2, <2>3, <2>4
  <2>6. row[c].balance \in Int /\ posted[c] \in Int
    BY <2>2, Columns
  <2> QED BY <2>1, <2>5, <2>6 DEF Posts
<1> QED BY <1>1, <1>2

LEMMA PostsWithdraw ==
  ASSUME FreshInv, NEW t \in Thread, Withdraw(t), NEW c \in Account \ contended
  PROVE  Posts(c)
<1>0. TypeOK /\ Handler(t) /\ clock \in Nat
  BY DEF FreshInv, FloorInv, TypeOK, Handler
<1> DEFINE old == seen[t][c]
           r == ResetIfNewDay(old)
<1>1. CASE ~Holds(t, c)
  BY <1>0, <1>1, NotHeldNotPosted
<1>2. CASE Holds(t, c)
  <2>1. from[t] = c /\ UNCHANGED paidOut
    BY <1>2 DEF Withdraw, Holds
  <2>2. /\ old = row[c] /\ old \in Row
        /\ \A q \in Row : Flush(row[c], old, q) = q
        /\ row \in [Account -> Row] /\ posted \in [Account -> Int]
    BY <1>0, <1>2, Unmoved DEF TypeOK
  <2>3. r \in Row /\ r.balance = old.balance /\ r.status = old.status
    BY <1>0, <2>2, ResetIsRow, ResetKeeps
  <2>4. PICK m \in Amounts :
          /\ row' = [row EXCEPT ![c] = Flush(@, old, Debited(r, m))]
          /\ posted' = [posted EXCEPT ![c] = @ - m]
    BY <2>1, Zenon DEF Withdraw
  <2>5. old.status = "ACTIVE"
    BY <2>1 DEF Withdraw, IsActive
  <2> HIDE DEF old, r
  <2>6. /\ Debited(r, m) \in Row
        /\ Debited(r, m).balance = old.balance - m
        /\ Debited(r, m).status = old.status
    BY <2>3, DebitedIsRow, ComputedBalances DEF Status
  <2>7. row'[c] = Debited(r, m) /\ posted'[c] = posted[c] - m
    BY <2>2, <2>4, <2>6
  <2>8. /\ m \in Int /\ -m \in Int /\ row[c].balance \in Int /\ posted[c] \in Int
    BY <2>2, Columns, AccountsAssumption
  <2>9. /\ row'[c].balance = row[c].balance + (-m)
        /\ posted'[c] = posted[c] + (-m)
    BY <2>2, <2>6, <2>7, <2>8
  <2> QED BY <1>0, <2>1, <2>2, <2>5, <2>6, <2>7, <2>8, <2>9, Posted
<1> QED BY <1>1, <1>2

LEMMA PostsTransfer ==
  ASSUME FreshInv, NEW t \in Thread, Transfer(t), NEW c \in Account \ contended
  PROVE  Posts(c)
<1>0. TypeOK /\ Handler(t) /\ clock \in Nat
  BY DEF FreshInv, FloorInv, TypeOK, Handler
<1> DEFINE a == from[t]
           b == into[t]
           old == seen[t][a]
           dst == seen[t][b]
           r == ResetIfNewDay(old)
<1>1. /\ a \in Account /\ old \in Row /\ b \in Account /\ dst \in Row
      /\ a # b /\ row \in [Account -> Row] /\ posted \in [Account -> Int]
      /\ UNCHANGED paidOut /\ pc[t] = "two"
  BY <1>0, ServedAccount DEF Transfer, TypeOK
<1>2. r \in Row /\ r.balance = old.balance /\ r.status = old.status
  BY <1>0, <1>1, ResetIsRow, ResetKeeps
<1>3. PICK m \in Amounts :
        /\ TransferAllowed(a, old, dst, m)
        /\ row' = [row EXCEPT ![a] = Flush(@, old, Debited(r, m)),
                              ![b] = Flush(@, dst, Credited(dst, m))]
        /\ posted' = [posted EXCEPT ![a] = @ - m, ![b] = @ + m]
  BY Zenon DEF Transfer
<1>4. old.status = "ACTIVE" /\ dst.status = "ACTIVE"
  BY <1>3 DEF TransferAllowed, IsActive
<1>5. c = a => Holds(t, c) /\ old = row[a] /\ \A q \in Row : Flush(row[a], old, q) = q
  BY <1>1, Unmoved DEF Holds
<1>6. c = b => Holds(t, c) /\ dst = row[b] /\ \A q \in Row : Flush(row[b], dst, q) = q
  BY <1>1, Unmoved DEF Holds
<1>7. c # a /\ c # b => ~Holds(t, c)
  BY <1>1 DEF Holds
<1> HIDE DEF a, b, old, dst, r
<1>8. /\ Debited(r, m) \in Row /\ Credited(dst, m) \in Row
      /\ Debited(r, m).balance = old.balance - m
      /\ Debited(r, m).status = old.status
      /\ Credited(dst, m).balance = dst.balance + m
      /\ Credited(dst, m).status = dst.status
  BY <1>1, <1>2, DebitedIsRow, ComputedBalances DEF Status
<1>9. /\ m \in Int /\ -m \in Int /\ row[c].balance \in Int /\ posted[c] \in Int
  BY <1>1, Columns, AccountsAssumption
<1>10. CASE c = a
  <2>1. row'[c] = Debited(r, m) /\ posted'[c] = posted[c] - m
    BY <1>1, <1>3, <1>5, <1>8, <1>10
  <2>2. /\ row'[c].balance = row[c].balance + (-m)
        /\ posted'[c] = posted[c] + (-m)
        /\ row'[c].status = row[c].status /\ row[c].status = "ACTIVE"
    BY <1>4, <1>5, <1>8, <1>9, <1>10, <2>1
  <2> QED BY <1>0, <1>1, <1>9, <2>2, Posted
<1>11. CASE c = b
  <2>1. row'[c] = Credited(dst, m) /\ posted'[c] = posted[c] + m
    BY <1>1, <1>3, <1>6, <1>8, <1>11
  <2>2. /\ row'[c].balance = row[c].balance + m
        /\ row'[c].status = row[c].status /\ row[c].status = "ACTIVE"
    BY <1>4, <1>6, <1>8, <1>9, <1>11, <2>1
  <2> QED BY <1>0, <1>1, <1>9, <2>1, <2>2, Posted
<1>12. CASE c # a /\ c # b
  BY <1>0, <1>7, <1>12, NotHeldNotPosted
<1> QED BY <1>10, <1>11, <1>12

LEMMA PostsInterest ==
  ASSUME FreshInv, NEW t \in Thread, CreditInterest(t),
         NEW c \in Account \ contended
  PROVE  Posts(c)
<1>0. TypeOK /\ Handler(t) /\ clock \in Nat
  BY DEF FreshInv, FloorInv, TypeOK, Handler
<1> DEFINE old == seen[t][c]
           r == WithInterest(c, old)
<1>1. CASE ~Holds(t, c)
  BY <1>0, <1>1, NotHeldNotPosted
<1>2. CASE Holds(t, c)
  <2>1. IsActive(old) /\ UNCHANGED paidOut
    BY <1>2 DEF CreditInterest, Holds
  <2>2. /\ old = row[c] /\ old \in Row
        /\ \A q \in Row : Flush(row[c], old, q) = q
    BY <1>0, <1>2, Unmoved DEF TypeOK
  <2>3. r \in Row /\ r.status = old.status
    BY <1>0, <2>2, InterestRow, InterestAdds
  <2>4. /\ row'[c] = Flush(row[c], old, r)
        /\ posted'[c] = posted[c] + (r.balance - old.balance)
    BY DEF CreditInterest
  <2> HIDE DEF old, r
  <2>5. r.balance - old.balance \in Int /\ r.balance \in Int /\ old.balance \in Int
    BY <2>2, <2>3, Columns
  <2>6. /\ row'[c].balance = row[c].balance + (r.balance - old.balance)
        /\ row'[c].status = row[c].status
        /\ row[c].status = "ACTIVE"
    BY <2>1, <2>2, <2>3, <2>4, <2>5 DEF IsActive
  <2> QED BY <1>0, <2>1, <2>4, <2>5, <2>6, Posted
<1> QED BY <1>1, <1>2

\* The handlers that write one row leave the others untouched.
LEMMA OthersUntouched ==
  ASSUME TypeOK, NEW t \in Thread, Handler(t), pc[t] = "one",
         NEW c \in Account, c # from[t]
  PROVE  Book!Untouched(c) /\ Posts(c)
<1>1. ~Holds(t, c)
  BY DEF Holds
<1>2. /\ row'[c] = row[c] /\ posted'[c] = posted[c] /\ paidOut'[c] = paidOut[c]
  BY <1>1, OnlyHeldRows
<1> QED BY <1>1, <1>2, NotHeldNotPosted, BookView DEF Book!Untouched

LEMMA BookUpdateStatus ==
  ASSUME FreshInv, FloorInv', NEW t \in Thread, UpdateStatus(t)
  PROVE  Book!LedgerNext
<1>0. TypeOK /\ Handler(t) /\ pc[t] = "one" /\ UNCHANGED contended
  BY DEF FreshInv, FloorInv, Handler, UpdateStatus, Answer
<1> DEFINE a == from[t]
           old == seen[t][a]
<1>1. /\ a \in Account /\ old \in Row /\ row \in [Account -> Row]
      /\ posted \in [Account -> Int]
  BY <1>0, ServedAccount DEF TypeOK
<1>2. \A c \in Account \ {a} : Book!Untouched(c) /\ Posts(c)
  BY <1>0, OthersUntouched
<1>3. UNCHANGED <<posted, paidOut>>
  BY Zenon DEF UpdateStatus
<1>4. CASE a \in contended
  BY <1>0, <1>2, <1>4, BookPost
<1>5. CASE a \notin contended
  <2>1. old = row[a] /\ \A q \in Row : Flush(row[a], old, q) = q
    BY <1>0, <1>1, <1>5, Unmoved DEF Holds
  <2> HIDE DEF a, old
  <2>2. CASE UNCHANGED row
    <3>1. \A c \in Account : Posts(c)
      BY <1>0, <1>3, <2>2, NothingPosted
    <3> QED BY <1>0, <3>1, BookPost
  <2>3. ASSUME NEW s \in Status, old.status # "CLOSED",
               row' = [row EXCEPT ![a] = Flush(@, old, [old EXCEPT !.status = s])]
        PROVE  Book!ChangeLife
    <3> DEFINE r == [old EXCEPT !.status = s]
    <3>1. r \in Row
      BY <1>1, SetColumn, Zenon DEF Row
    <3>2. r.balance = old.balance /\ r.status = s
      BY <1>1 DEF Row
    <3>3. row' = [row EXCEPT ![a] = Flush(row[a], old, r)]
      BY <2>3
    <3> HIDE DEF r
    <3>4. row'[a] = r
      BY <1>1, <2>1, <3>1, <3>3
    <3>5. /\ Life[a] # "CLOSED" /\ Life'[a] = s /\ Funds'[a] = Funds[a]
      BY <1>1, <2>1, <2>3, <3>2, <3>4, BookView
    <3> QED BY <1>0, <1>1, <1>2, <1>3, <1>5, <3>5
            DEF Book!ChangeLife, Book!Vouched, Status
  <2> QED BY <1>0, <2>2, <2>3, Zenon DEF UpdateStatus, a, old, Book!LedgerNext
<1> QED BY <1>4, <1>5

\* A penalty is a part of the balance.
LEMMA PenaltyIsPart ==
  ASSUME NEW n \in Nat
  PROVE  Penalty(n) \in 0 .. n
<1>1. PenaltyUnit \in Int /\ PenaltyUnit >= 1
  BY AccountsAssumption
<1> DEFINE q == n \div PenaltyUnit
<1>2. q \in Int /\ n >= q * PenaltyUnit /\ n < (q + 1) * PenaltyUnit
  BY <1>1
<1> HIDE DEF q
<1>3. q >= 0
  <2>1. ASSUME q < 0 PROVE FALSE
    <3>1. (q + 1) * PenaltyUnit <= 0
      BY <1>1, <1>2, <2>1
    <3> QED BY <1>2, <3>1, <1>1
  <2> QED BY <2>1, <1>2
<1>4. q <= n
  <2>1. q * PenaltyUnit >= q
    BY <1>1, <1>2, <1>3
  <2> QED BY <1>1, <1>2, <2>1
<1> QED BY <1>2, <1>3, <1>4 DEF q, Penalty

LEMMA BookCloseFd ==
  ASSUME FreshInv, FloorInv', NEW t \in Thread, CloseFd(t)
  PROVE  Book!LedgerNext
<1>0. /\ TypeOK /\ FloorsKept /\ Handler(t) /\ pc[t] = "one"
      /\ UNCHANGED contended
  BY DEF FreshInv, FloorInv, Handler, CloseFd, Answer
<1> DEFINE a == from[t]
           old == seen[t][a]
<1>1. /\ a \in Account /\ old \in Row /\ row \in [Account -> Row]
      /\ posted \in [Account -> Int] /\ paidOut \in [Account -> Int]
  BY <1>0, ServedAccount DEF TypeOK
<1>2. \A c \in Account \ {a} : Book!Untouched(c) /\ Posts(c)
  BY <1>0, OthersUntouched
<1>3. CASE a \in contended
  BY <1>0, <1>2, <1>3, BookPost
<1>4. CASE a \notin contended
  <2>1. old = row[a] /\ \A q \in Row : Flush(row[a], old, q) = q
    BY <1>0, <1>1, <1>4, Unmoved DEF Holds
  <2> HIDE DEF a, old
  <2>2. CASE UNCHANGED <<row, posted, paidOut>>
    <3>1. \A c \in Account : Posts(c)
      BY <1>0, <2>2, NothingPosted
    <3> QED BY <1>0, <3>1, BookPost
  <2>3. ASSUME IsActive(old),
               row' = [row EXCEPT ![a] =
                         Flush(@, old, [old EXCEPT !.balance = 0,
                                                   !.status = "CLOSED"])],
               posted' = [posted EXCEPT ![a] = @ - Penalty(old.balance)],
               paidOut' = [paidOut EXCEPT
                             ![a] = @ + (old.balance - Penalty(old.balance))]
        PROVE  Book!PayOut
    <3> DEFINE r == [old EXCEPT !.balance = 0, !.status = "CLOSED"]
    <3>1. r \in Row
      BY <1>1, ClosedIsRow
    <3>2. r.balance = 0 /\ r.status = "CLOSED"
      BY <1>1 DEF Row
    <3>3. row' = [row EXCEPT ![a] = Flush(row[a], old, r)]
      BY <2>3
    <3> HIDE DEF r
    <3>4. row'[a] = r
      BY <1>1, <2>1, <3>1, <3>3
    <3>5. /\ Funds'[a] = 0 /\ Funds[a] = old.balance
          /\ Life'[a] = "CLOSED" /\ Life[a] = "ACTIVE"
      BY <1>1, <2>1, <2>3, <3>2, <3>4, BookView DEF IsActive
    <3>6. old.balance \in Nat
      <4>1. old.balance \in Int /\ old.balance >= Floor(a)
        BY <1>0, <1>1, <2>1, Columns DEF FloorsKept
      <4> QED BY <1>1, <4>1, FloorIsInteger
    <3>7. Penalty(old.balance) \in 0 .. Funds[a]
      BY <3>5, <3>6, PenaltyIsPart
    <3> HIDE DEF Penalty
    <3>8. /\ posted'[a] = posted[a] - Penalty(old.balance)
          /\ paidOut'[a] = paidOut[a] + (Funds[a] - Penalty(old.balance))
      BY <1>1, <2>3, <3>5
    <3> QED BY <1>0, <1>1, <1>2, <1>4, <3>5, <3>7, <3>8
            DEF Book!PayOut, Book!Vouched
  <2> QED BY <1>0, <2>2, <2>3, Zenon DEF CloseFd, a, old, Book!LedgerNext
<1> QED BY <1>3, <1>4

LEMMA BookNext ==
  ASSUME FreshInv, [Next]_vars
  PROVE  [Book!LedgerNext]_(Book!ledgerVars)
<1>0. FloorInv' /\ TypeOK /\ contended \subseteq contended'
  BY FloorNext, ContendedGrows DEF FreshInv, FloorInv
<1>1. ASSUME UNCHANGED <<row, posted, paidOut>> PROVE Book!LedgerNext
  BY <1>0, <1>1, NothingPosted, BookPost
<1>2. CASE Tick \/ Quiet \/ UNCHANGED vars
  BY <1>1, <1>2 DEF Tick, Quiet, vars
<1>3. ASSUME NEW t \in Thread, Serve(t) PROVE Book!LedgerNext
  <2>1. CASE LoadAccount(t) \/ LoadDestination(t) \/ LoadBatch(t)
    BY <1>1, <2>1 DEF LoadAccount, LoadDestination, LoadBatch
  <2>2. CASE WithdrawBlocked(t) \/ TransferRefused(t)
    BY <1>1, <2>2 DEF WithdrawBlocked, TransferRefused
  <2>3. CASE \/ Deposit(t) \/ WithdrawRefused(t) \/ Withdraw(t) \/ Transfer(t)
             \/ CreditInterest(t)
    <3>1. \A c \in Account \ contended : Posts(c)
      BY <2>3, PostsDeposit, PostsWithdrawRefused, PostsWithdraw, PostsTransfer,
         PostsInterest
    <3> QED BY <1>0, <3>1, BookPost
  <2> QED BY <1>0, <1>3, <2>1, <2>2, <2>3, BookUpdateStatus, BookCloseFd
          DEF Serve
<1> QED BY <1>2, <1>3 DEF Next

\* Whatever runs at once, the handlers implement the ledger, which vouches for
\* the accounts that are not contended: postings are atomic, entered in full and
\* on ACTIVE accounts, and CLOSED is final.
THEOREM LedgerImplemented == Spec => ImplementsLedger
<1>1. Init => FreshInv /\ Book!LedgerInit
  BY FreshInit, BookInit
<1>2. FreshInv /\ [Next]_vars => FreshInv'
  BY FreshNext
<1>3. FreshInv /\ [Next]_vars => [Book!LedgerNext]_(Book!ledgerVars)
  BY BookNext
<1> QED BY <1>1, <1>2, <1>3, PTL DEF Spec, ImplementsLedger, Book!LedgerSpec

-----------------------------------------------------------------------------
\* The books, from the ledger's steps.

LEMMA BookKeepsBalance ==
  ASSUME TypeOK, TypeOK', BooksBalance, [Book!LedgerNext]_(Book!ledgerVars)
  PROVE  BooksBalance'
<1>0. \A c \in Account :
        /\ row[c].balance \in Int /\ row'[c].balance \in Int
        /\ Opening[c] \in Int
        /\ posted[c] \in Int /\ posted'[c] \in Int
        /\ paidOut[c] \in Int /\ paidOut'[c] \in Int
  BY Columns, AccountsAssumption DEF TypeOK
<1>1. CASE UNCHANGED Book!ledgerVars
  <2>1. \A c \in Account : row'[c].balance = row[c].balance
    BY <1>1, BookView DEF Book!ledgerVars
  <2> QED BY <1>1, <2>1 DEF Book!ledgerVars, BooksBalance, Balanced
<1>2. ASSUME Book!LedgerNext, NEW c \in Account \ contended'
      PROVE  Balanced(c)'
  <2>1. Balanced(c)
    BY <1>2 DEF Book!LedgerNext, BooksBalance
  <2>2. CASE Book!Untouched(c)
    BY <1>0, <2>1, <2>2, BookView DEF Book!Untouched, Balanced
  <2>3. CASE Book!Post
    BY <1>0, <1>2, <2>1, <2>3, BookView DEF Book!Post, Book!Vouched, Balanced
  <2>4. CASE Book!PayOut
    <3>1. PICK a \in Account :
            /\ Funds'[a] = 0
            /\ \E penalty \in 0 .. Funds[a] :
                 /\ posted'[a] = posted[a] - penalty
                 /\ paidOut'[a] = paidOut[a] + (Funds[a] - penalty)
            /\ \A b \in Book!Vouched \ {a} : Book!Untouched(b)
      BY <2>4 DEF Book!PayOut, Book!Vouched
    <3>2. CASE c # a
      BY <1>2, <2>2, <3>1, <3>2 DEF Book!Vouched
    <3>3. CASE c = a
      <4>1. PICK penalty \in Int :
              /\ posted'[c] = posted[c] - penalty
              /\ paidOut'[c] = paidOut[c] + (Funds[c] - penalty)
        BY <3>1, <3>3
      <4> QED BY <1>0, <2>1, <3>1, <3>3, <4>1, BookView DEF Balanced
    <3> QED BY <3>2, <3>3
  <2>5. CASE Book!ChangeLife
    <3>1. \/ Book!Untouched(c)
          \/ /\ Funds'[c] = Funds[c] /\ posted'[c] = posted[c]
             /\ paidOut'[c] = paidOut[c]
      BY <1>2, <2>5 DEF Book!ChangeLife, Book!Vouched
    <3> QED BY <1>0, <2>1, <2>2, <3>1, BookView DEF Balanced
  <2> QED BY <1>2, <2>3, <2>4, <2>5 DEF Book!LedgerNext
<1> QED BY <1>1, <1>2 DEF BooksBalance

\* Whatever runs at once, on an account that two requests have never held at
\* once no posting is lost and none is made up.
THEOREM BooksAlwaysBalance == Spec => []BooksBalance
<1> DEFINE Inv == FreshInv /\ BooksBalance
<1>1. Init => Inv
  <2>1. Init => BooksBalance
    BY AccountsAssumption DEF Init, BooksBalance, Balanced
  <2> QED BY <2>1, FreshInit
<1>2. Inv /\ [Next]_vars => Inv'
  <2> SUFFICES ASSUME Inv, [Next]_vars PROVE Inv'
    OBVIOUS
  <2>1. FreshInv'
    BY FreshNext
  <2>2. BooksBalance'
    BY <2>1, BookNext, BookKeepsBalance DEF FreshInv, FloorInv
  <2> QED BY <2>1, <2>2
<1> QED BY <1>1, <1>2, PTL DEF Spec

\* Requests are served by at most one thread, as in a deployment with one worker
\* whose pool has one thread.
OneAtATime == \A t, u \in Thread : t = u

LEMMA NobodyMeets ==
  ASSUME OneAtATime
  PROVE  Spec => [](contended = {})
<1>1. Init => contended = {}
  BY DEF Init
<1>2. contended = {} /\ [Next]_vars => (contended = {})'
  <2> SUFFICES ASSUME contended = {}, [Next]_vars PROVE contended' = {}
    OBVIOUS
  <2>1. \A t \in Thread : Thread \ {t} = {}
    BY DEF OneAtATime
  <2>2. \A t \in Thread : \A A : Meeting(t, A) = {}
    BY <2>1 DEF Meeting
  <2>3. ASSUME NEW t \in Thread, LoadAccount(t) \/ LoadDestination(t) \/ LoadBatch(t)
        PROVE  contended' = {}
    BY <2>2, <2>3 DEF LoadAccount, LoadDestination, LoadBatch
  <2>4. ASSUME NEW t \in Thread, Handler(t) PROVE contended' = {}
    BY <2>4, HandlersAnswer DEF Answer
  <2> QED BY <2>3, <2>4 DEF Next, Serve, Handler, Tick, Quiet, vars
<1> QED BY <1>1, <1>2, PTL DEF Spec

\* Served one at a time, no account ever loses a posting.
THEOREM NoPostingLostAlone ==
  ASSUME OneAtATime
  PROVE  Spec => []NoPostingLost
<1>1. contended = {} /\ BooksBalance => NoPostingLost
  BY DEF BooksBalance, NoPostingLost
<1> QED BY <1>1, NobodyMeets, BooksAlwaysBalance, PTL

-----------------------------------------------------------------------------
\* The daily counters.

\* What the handlers do to the counter of a row.
LEMMA ComputedCounters ==
  ASSUME NEW r \in Row, NEW m \in Amounts, NEW s \in Status
  PROVE  /\ Debited(r, m).withdrawn = r.withdrawn + m
         /\ Debited(r, m).resetDay = r.resetDay
         /\ Credited(r, m).withdrawn = r.withdrawn
         /\ Credited(r, m).resetDay = r.resetDay
         /\ [r EXCEPT !.status = s].withdrawn = r.withdrawn
         /\ [r EXCEPT !.status = s].resetDay = r.resetDay
         /\ [r EXCEPT !.balance = 0, !.status = "CLOSED"].withdrawn = r.withdrawn
         /\ [r EXCEPT !.balance = 0, !.status = "CLOSED"].resetDay = r.resetDay
BY DEF Debited, Credited, Row

LEMMA ResetCounter ==
  ASSUME NEW r \in Row
  PROVE  IF r.resetDay < LocalDay(clock)
         THEN /\ ResetIfNewDay(r).withdrawn = 0
              /\ ResetIfNewDay(r).resetDay = UtcDay(clock)
         ELSE ResetIfNewDay(r) = r
BY DEF ResetIfNewDay, Row

LEMMA InterestCounter ==
  ASSUME NEW a \in Account, NEW r \in Row
  PROVE  /\ WithInterest(a, r).withdrawn = r.withdrawn
         /\ WithInterest(a, r).resetDay = r.resetDay
<1> HIDE DEF Interest
<1> QED BY DEF WithInterest, Row

LEMMA FlushCounter ==
  ASSUME NEW cur, NEW old, NEW new,
         cur.withdrawn \in Nat, new.withdrawn \in Nat
  PROVE  Flush(cur, old, new).withdrawn \in Nat
BY DEF Flush

\* No counter is ever negative, in the table or in a loaded row.
CountersNatural ==
  \A a \in Account :
    /\ row[a].withdrawn \in Nat
    /\ \A t \in Thread : seen[t][a].withdrawn \in Nat

LEMMA CountersHandler ==
  ASSUME TypeOK, CountersNatural, NEW t \in Thread, Handler(t)
  PROVE  \A c \in Account : row'[c].withdrawn \in Nat
<1> DEFINE a == from[t]
           b == into[t]
           old == seen[t][a]
           dst == seen[t][b]
           Natural(r) == r.withdrawn \in Nat
<1>0. /\ row \in [Account -> Row]
      /\ \A c \in Account : /\ Natural(row[c]) /\ Natural(seen[t][c])
                            /\ seen[t][c] \in Row
      /\ pc[t] \in {"one", "two"} => a \in Account
      /\ pc[t] = "two" => b \in Account
  BY DEF TypeOK, CountersNatural
<1>1. \A r \in Row : Natural(r) => ResetIfNewDay(r) \in Row /\ Natural(ResetIfNewDay(r))
  BY ResetCounter, ResetIsRow DEF TypeOK
<1>2. \A r \in Row, m \in Amounts :
        Natural(r) => Natural(Debited(r, m)) /\ Natural(Credited(r, m))
  BY ComputedCounters, AccountsAssumption DEF Status
<1>3. \A r \in Row, s \in Status :
        Natural(r) => /\ Natural([r EXCEPT !.status = s])
                      /\ Natural([r EXCEPT !.balance = 0, !.status = "CLOSED"])
  <2>1. ASSUME NEW r \in Row, NEW s \in Status, Natural(r)
        PROVE  Natural([r EXCEPT !.status = s])
    BY <2>1 DEF Row
  <2>2. ASSUME NEW r \in Row, Natural(r)
        PROVE  Natural([r EXCEPT !.balance = 0, !.status = "CLOSED"])
    BY <2>2 DEF Row
  <2> QED BY <2>1, <2>2
<1>4. \A c, r : c \in Account /\ Natural(r) => Natural(Flush(row[c], seen[t][c], r))
  BY <1>0, FlushCounter
<1>5. CASE UNCHANGED row
  BY <1>0, <1>5
<1>6. CASE \E c, r : /\ c \in Account /\ Natural(r)
                   /\ row' = [row EXCEPT ![c] = Flush(@, seen[t][c], r)]
  <2>1. PICK c, r : /\ c \in Account /\ Natural(r)
                    /\ row' = [row EXCEPT ![c] = Flush(@, seen[t][c], r)]
    BY <1>6
  <2> DEFINE new == Flush(row[c], seen[t][c], r)
  <2>2. Natural(new)
    BY <1>4, <2>1
  <2>3. row' = [row EXCEPT ![c] = new]
    BY <2>1
  <2> HIDE DEF new
  <2> QED BY <1>0, <2>2, <2>3
<1>7. CASE Deposit(t)
  BY <1>0, <1>2, <1>5, <1>6, <1>7 DEF Deposit
<1>8. CASE WithdrawBlocked(t) \/ TransferRefused(t)
  BY <1>5, <1>8 DEF WithdrawBlocked, TransferRefused
<1>9. CASE WithdrawRefused(t)
  BY <1>0, <1>1, <1>6, <1>9 DEF WithdrawRefused
<1>10. CASE Withdraw(t)
  BY <1>0, <1>1, <1>2, <1>6, <1>10 DEF Withdraw
<1>11. CASE Transfer(t)
  <2>1. PICK m \in Amounts :
          row' = [row EXCEPT ![a] = Flush(@, old, Debited(ResetIfNewDay(old), m)),
                             ![b] = Flush(@, dst, Credited(dst, m))]
    BY <1>11 DEF Transfer
  <2>2. a \in Account /\ b \in Account /\ b # a
    BY <1>0, <1>11 DEF Transfer, TypeOK
  <2> DEFINE debit == Flush(row[a], old, Debited(ResetIfNewDay(old), m))
             credit == Flush(row[b], dst, Credited(dst, m))
  <2>3. Natural(debit) /\ Natural(credit)
    BY <1>0, <1>1, <1>2, <1>4, <2>2
  <2>4. row' = [row EXCEPT ![a] = debit, ![b] = credit]
    BY <2>1, <2>2
  <2> HIDE DEF debit, credit
  <2> QED BY <1>0, <2>2, <2>3, <2>4
<1>12. CASE UpdateStatus(t)
  BY <1>0, <1>3, <1>5, <1>6, <1>12 DEF UpdateStatus
<1>13. CASE CloseFd(t)
  BY <1>0, <1>3, <1>5, <1>6, <1>13 DEF CloseFd, Status
<1>14. CASE CreditInterest(t)
  <2>1. \A c \in Account : Natural(WithInterest(c, seen[t][c]))
    BY <1>0, InterestCounter
  <2>2. \A c \in Account : Natural(Flush(row[c], seen[t][c], WithInterest(c, seen[t][c])))
    BY <1>4, <2>1
  <2> QED BY <1>14, <2>2 DEF CreditInterest
<1> QED BY <1>7, <1>8, <1>9, <1>10, <1>11, <1>12, <1>13, <1>14 DEF Handler

LEMMA CountersNext ==
  ASSUME TypeOK, CountersNatural, [Next]_vars
  PROVE  CountersNatural'
<1>1. ASSUME UNCHANGED <<row, seen>> PROVE CountersNatural'
  BY <1>1 DEF CountersNatural
<1>2. ASSUME NEW t \in Thread, LoadAccount(t) \/ LoadDestination(t) \/ LoadBatch(t)
      PROVE  CountersNatural'
  <2>1. UNCHANGED row /\ seen \in [Thread -> [Account -> Row]]
    BY <1>2 DEF LoadAccount, LoadDestination, LoadBatch, TypeOK
  <2>2. CASE LoadAccount(t)
    BY <2>1, <2>2 DEF LoadAccount, CountersNatural
  <2>3. CASE LoadDestination(t)
    BY <2>1, <2>3 DEF LoadDestination, CountersNatural
  <2>4. CASE LoadBatch(t)
    BY <2>1, <2>4 DEF LoadBatch, CountersNatural, NoRow
  <2> QED BY <1>2, <2>2, <2>3, <2>4
<1>3. ASSUME NEW t \in Thread, Answer(t), \A c \in Account : row'[c].withdrawn \in Nat
      PROVE  CountersNatural'
  BY <1>3 DEF Answer, CountersNatural, TypeOK, NoRow
<1>4. ASSUME NEW t \in Thread, Serve(t) PROVE CountersNatural'
  <2>1. CASE LoadAccount(t) \/ LoadDestination(t) \/ LoadBatch(t)
    BY <1>2, <2>1
  <2>2. CASE Handler(t)
    BY <1>3, <2>2, HandlersAnswer, CountersHandler
  <2> QED BY <1>4, <2>1, <2>2 DEF Serve, Handler
<1>5. CASE Tick \/ Quiet \/ UNCHANGED vars
  BY <1>1, <1>5 DEF Tick, Quiet, vars
<1> QED BY <1>4, <1>5 DEF Next

LEMMA CountersAlwaysNatural == Spec => []CountersNatural
<1>1. Init => CountersNatural
  BY DEF Init, CountersNatural, NoRow
<1>2. TypeOK /\ CountersNatural /\ [Next]_vars => CountersNatural'
  BY CountersNext
<1> QED BY <1>1, <1>2, TypeCorrect, PTL DEF Spec

-----------------------------------------------------------------------------
\* The daily limit, on a server whose clock is UTC.

ServerInUtc == UtcOffset = 0

\* The counter of row r agrees with the money s that left the account today,
\* and was not reset in the future.
Tracks(r, s) ==
  /\ r.resetDay >= LocalDay(clock) => r.withdrawn = s
  /\ r.resetDay < LocalDay(clock) => s = 0
  /\ r.resetDay <= LocalDay(clock)

WithinLimit(a, s) == DailyLimit[Kind[a]] > 0 => s <= DailyLimit[Kind[a]]

LimitInv ==
  /\ FreshInv
  /\ \A a \in Account \ contended :
       Tracks(row[a], spent[a]) /\ WithinLimit(a, spent[a])

\* What a request may do to an account's counter, and to the money that left it:
\* nothing; reset the counter; or debit, within the limit.
CounterStep(a) ==
  LET r == ResetIfNewDay(row[a])
  IN \/ /\ row'[a].withdrawn = row[a].withdrawn
        /\ row'[a].resetDay = row[a].resetDay
        /\ spent'[a] = spent[a]
     \/ row'[a] = r /\ spent'[a] = spent[a]
     \/ \E m \in Amounts : /\ WithinDailyLimit(Kind[a], r, m)
                           /\ row'[a] = Debited(r, m)
                           /\ spent'[a] = spent[a] + m

LEMMA SameDay ==
  ASSUME ServerInUtc, NEW c \in Nat
  PROVE  LocalDay(c) = UtcDay(c) /\ LocalDay(c) \in Int
<1>1. c + UtcOffset = c
  BY DEF ServerInUtc
<1> QED BY <1>1, DaysAreIntegers DEF LocalDay, UtcDay

LEMMA DaysPass ==
  ASSUME ServerInUtc, NEW c \in Nat
  PROVE  LocalDay(c) <= LocalDay(c + 1)
<1>1. LocalDay(c) = c \div DayLength /\ LocalDay(c + 1) = (c + 1) \div DayLength
  BY SameDay DEF UtcDay
<1>2. \A d \in Nat \ {0} : c \div d <= (c + 1) \div d
  OBVIOUS
<1> QED BY <1>1, <1>2, AccountsAssumption

LEMMA ResetTracks ==
  ASSUME ServerInUtc, TypeOK, NEW r \in Row, NEW s \in Nat, Tracks(r, s)
  PROVE  LET q == ResetIfNewDay(r)
         IN /\ q \in Row /\ q.withdrawn = s /\ q.resetDay = LocalDay(clock)
            /\ Tracks(q, s)
<1>1. clock \in Nat /\ LocalDay(clock) \in Int /\ LocalDay(clock) = UtcDay(clock)
  BY SameDay DEF TypeOK
<1>2. ResetIfNewDay(r) \in Row /\ r.resetDay \in Int
  BY <1>1, ResetIsRow, Columns
<1>3. CASE r.resetDay < LocalDay(clock)
  BY <1>1, <1>2, <1>3, ResetCounter DEF Tracks
<1>4. CASE r.resetDay >= LocalDay(clock)
  BY <1>1, <1>2, <1>4, ResetCounter DEF Tracks
<1> QED BY <1>1, <1>2, <1>3, <1>4

LEMMA CounterStepKeeps ==
  ASSUME ServerInUtc, TypeOK, UNCHANGED clock, NEW a \in Account, CounterStep(a),
         Tracks(row[a], spent[a]), WithinLimit(a, spent[a])
  PROVE  Tracks(row[a], spent[a])' /\ WithinLimit(a, spent[a])'
<1> DEFINE r == ResetIfNewDay(row[a])
<1>1. row[a] \in Row /\ spent[a] \in Nat /\ clock \in Nat
  BY DEF TypeOK
<1>2. /\ r \in Row /\ r.withdrawn = spent[a] /\ r.resetDay = LocalDay(clock)
      /\ Tracks(r, spent[a])
  BY <1>1, ResetTracks
<1>3. LocalDay(clock)' = LocalDay(clock) /\ LocalDay(clock) \in Int
  BY <1>1, SameDay DEF LocalDay
<1> HIDE DEF r
<1>4. CASE /\ row'[a].withdrawn = row[a].withdrawn
           /\ row'[a].resetDay = row[a].resetDay
           /\ spent'[a] = spent[a]
  BY <1>3, <1>4 DEF Tracks, WithinLimit
<1>5. CASE row'[a] = r /\ spent'[a] = spent[a]
  BY <1>2, <1>3, <1>5 DEF Tracks, WithinLimit
<1>6. ASSUME NEW m \in Amounts, WithinDailyLimit(Kind[a], r, m),
             row'[a] = Debited(r, m), spent'[a] = spent[a] + m
      PROVE  Tracks(row[a], spent[a])' /\ WithinLimit(a, spent[a])'
  <2>1. /\ Debited(r, m).withdrawn = spent[a] + m
        /\ Debited(r, m).resetDay = LocalDay(clock)
    BY <1>2, ComputedCounters DEF Status
  <2>2. Tracks(row[a], spent[a])'
    BY <1>3, <1>6, <2>1 DEF Tracks
  <2>3. WithinLimit(a, spent[a])'
    BY <1>2, <1>6 DEF WithinDailyLimit, WithinLimit
  <2> QED BY <2>2, <2>3
<1> QED BY <1>4, <1>5, <1>6 DEF CounterStep, r

\* An UPDATE that does not touch the counter leaves it as it is.
LEMMA FlushLeavesCounter ==
  ASSUME NEW cur, NEW old, NEW new,
         new.withdrawn = old.withdrawn, new.resetDay = old.resetDay
  PROVE  /\ Flush(cur, old, new).withdrawn = cur.withdrawn
         /\ Flush(cur, old, new).resetDay = cur.resetDay
BY DEF Flush

\* A change of one row that leaves its counter alone.
LEMMA CounterLeft ==
  ASSUME TypeOK, NEW a \in Account, NEW old \in Row, NEW new,
         new.withdrawn = old.withdrawn, new.resetDay = old.resetDay,
         row' = [row EXCEPT ![a] = Flush(@, old, new)], UNCHANGED spent
  PROVE  CounterStep(a)
<1>1. row'[a] = Flush(row[a], old, new)
  BY DEF TypeOK
<1> QED BY <1>1, FlushLeavesCounter DEF CounterStep

LEMMA CounterHandler ==
  ASSUME FreshInv, NEW t \in Thread, Handler(t), NEW c \in Account \ contended
  PROVE  CounterStep(c)
<1>0. TypeOK /\ clock \in Nat
  BY DEF FreshInv, FloorInv, TypeOK
<1>1. CASE ~Holds(t, c)
  BY <1>0, <1>1, OnlyHeldRows DEF CounterStep
<1>2. ASSUME Holds(t, c) PROVE CounterStep(c)
  <2> DEFINE old == seen[t][c]
             r == ResetIfNewDay(old)
  <2>1. /\ old = row[c] /\ old \in Row /\ row[c] \in Row
        /\ \A q \in Row : Flush(row[c], old, q) = q
        /\ row \in [Account -> Row] /\ spent \in [Account -> Nat]
    BY <1>0, <1>2, Unmoved DEF TypeOK
  <2>2. r \in Row /\ r = ResetIfNewDay(row[c])
    BY <1>0, <2>1, ResetIsRow
  <2>3. \A m \in Amounts : Debited(r, m) \in Row
    BY <2>2, DebitedIsRow
  <2>4. CASE UNCHANGED <<row, spent>>
    BY <2>4 DEF CounterStep
  <2>5. CASE pc[t] = "one"
    <3>0. from[t] = c
      BY <1>2, <2>5 DEF Holds
    <3>1. CASE Deposit(t)
      <4>1. ASSUME NEW m \in Amounts,
                   row' = [row EXCEPT ![c] = Flush(@, old, Credited(old, m))]
            PROVE  CounterStep(c)
        <5>1. /\ Credited(old, m).withdrawn = old.withdrawn
              /\ Credited(old, m).resetDay = old.resetDay
          BY <2>1, ComputedCounters DEF Status
        <5>2. UNCHANGED spent
          BY <3>1 DEF Deposit
        <5> HIDE DEF old
        <5> QED BY <1>0, <2>1, <4>1, <5>1, <5>2, CounterLeft
      <4> QED BY <2>4, <3>0, <3>1, <4>1 DEF Deposit
    <3>2. CASE WithdrawBlocked(t)
      BY <2>4, <3>2 DEF WithdrawBlocked
    <3>3. CASE WithdrawRefused(t)
      <4>1. row' = [row EXCEPT ![c] = Flush(@, old, r)] /\ UNCHANGED spent
        BY <3>0, <3>3 DEF WithdrawRefused
      <4> HIDE DEF old, r
      <4>2. row'[c] = r
        BY <2>1, <2>2, <4>1
      <4> QED BY <2>2, <4>1, <4>2 DEF CounterStep
    <3>4. CASE Withdraw(t)
      <4>1. PICK m \in Amounts :
              /\ WithinDailyLimit(Kind[c], r, m)
              /\ row' = [row EXCEPT ![c] = Flush(@, old, Debited(r, m))]
              /\ spent' = [spent EXCEPT ![c] = @ + m]
        BY <3>0, <3>4 DEF Withdraw
      <4> HIDE DEF old, r
      <4>2. row'[c] = Debited(r, m) /\ spent'[c] = spent[c] + m
        BY <2>1, <2>3, <4>1
      <4> QED BY <2>2, <4>1, <4>2 DEF CounterStep
    <3>5. CASE UpdateStatus(t)
      <4>1. ASSUME NEW s \in Status,
                   row' = [row EXCEPT ![c] = Flush(@, old, [old EXCEPT !.status = s])]
            PROVE  CounterStep(c)
        <5> DEFINE new == [old EXCEPT !.status = s]
        <5>1. new.withdrawn = old.withdrawn /\ new.resetDay = old.resetDay
          BY <2>1 DEF Row
        <5>2. row' = [row EXCEPT ![c] = Flush(@, old, new)] /\ UNCHANGED spent
          BY <3>5, <4>1 DEF UpdateStatus
        <5> HIDE DEF old, new
        <5> QED BY <1>0, <2>1, <5>1, <5>2, CounterLeft
      <4> QED BY <2>4, <3>0, <3>5, <4>1 DEF UpdateStatus
    <3>6. CASE CloseFd(t)
      <4> DEFINE new == [old EXCEPT !.balance = 0, !.status = "CLOSED"]
      <4>1. new.withdrawn = old.withdrawn /\ new.resetDay = old.resetDay
        BY <2>1 DEF Row
      <4>2. /\ UNCHANGED row \/ row' = [row EXCEPT ![c] = Flush(@, old, new)]
            /\ UNCHANGED spent
        BY <3>0, <3>6 DEF CloseFd
      <4> HIDE DEF old, new
      <4> QED BY <1>0, <2>1, <2>4, <4>1, <4>2, CounterLeft
    <3> QED BY <2>5, <3>1, <3>2, <3>3, <3>4, <3>5, <3>6
            DEF Handler, TransferRefused, Transfer, CreditInterest
  <2>6. CASE pc[t] = "two"
    <3>1. CASE TransferRefused(t)
      BY <2>4, <3>1 DEF TransferRefused
    <3>2. CASE Transfer(t)
      <4> DEFINE a == from[t]
                 b == into[t]
                 src == seen[t][a]
                 dst == seen[t][b]
                 q == ResetIfNewDay(src)
      <4>1. PICK m \in Amounts :
              /\ TransferAllowed(a, src, dst, m)
              /\ row' = [row EXCEPT ![a] = Flush(@, src, Debited(q, m)),
                                    ![b] = Flush(@, dst, Credited(dst, m))]
              /\ spent' = [spent EXCEPT ![a] = @ + m]
        BY <3>2 DEF Transfer
      <4>2. a \in Account /\ b \in Account /\ a # b /\ (c = a \/ c = b)
        BY <1>0, <1>2, <2>6 DEF Holds, TypeOK
      <4>3. CASE c = a
        <5>1. src = old /\ q = r /\ WithinDailyLimit(Kind[c], r, m)
          BY <4>1, <4>3 DEF TransferAllowed
        <5> HIDE DEF a, b, src, dst, q, old, r
        <5>2. row'[c] = Debited(r, m) /\ spent'[c] = spent[c] + m
          BY <2>1, <2>3, <4>1, <4>2, <4>3, <5>1
        <5> QED BY <2>2, <5>1, <5>2 DEF CounterStep
      <4>4. CASE c = b
        <5>1. /\ dst = old
              /\ Credited(old, m).withdrawn = old.withdrawn
              /\ Credited(old, m).resetDay = old.resetDay
          BY <2>1, <4>4, ComputedCounters DEF Status
        <5> HIDE DEF a, b, src, dst, q, old, r
        <5>2. row'[c] = Flush(row[c], old, Credited(old, m)) /\ spent'[c] = spent[c]
          BY <2>1, <4>1, <4>2, <4>4, <5>1
        <5> QED BY <5>1, <5>2, FlushLeavesCounter DEF CounterStep
      <4> QED BY <4>2, <4>3, <4>4
    <3> QED BY <2>6, <3>1, <3>2
            DEF Handler, Deposit, WithdrawBlocked, WithdrawRefused, Withdraw,
                UpdateStatus, CloseFd, CreditInterest
  <2>7. CASE pc[t] = "batch"
    <3>1. CreditInterest(t)
      BY <2>7 DEF Handler, Deposit, WithdrawBlocked, WithdrawRefused, Withdraw,
                  TransferRefused, Transfer, UpdateStatus, CloseFd
    <3>2. row'[c] = Flush(row[c], old, WithInterest(c, old)) /\ UNCHANGED spent
      BY <3>1 DEF CreditInterest
    <3>3. /\ WithInterest(c, old).withdrawn = old.withdrawn
          /\ WithInterest(c, old).resetDay = old.resetDay
      BY <2>1, InterestCounter
    <3> HIDE DEF old
    <3> QED BY <3>2, <3>3, FlushLeavesCounter DEF CounterStep
  <2> QED BY <1>2, <2>5, <2>6, <2>7 DEF Holds
<1> QED BY <1>1, <1>2

LEMMA LimitTick ==
  ASSUME ServerInUtc, LimitInv, Tick, NEW a \in Account \ contended
  PROVE  Tracks(row[a], spent[a])' /\ WithinLimit(a, spent[a])'
<1> DEFINE today == LocalDay(clock)
           next == LocalDay(clock + 1)
<1>1. /\ clock \in Nat /\ clock' = clock + 1 /\ UNCHANGED row
      /\ row[a] \in Row /\ spent[a] \in Nat /\ spent \in [Account -> Nat]
      /\ Tracks(row[a], spent[a]) /\ WithinLimit(a, spent[a])
  BY DEF LimitInv, FreshInv, FloorInv, TypeOK, Tick
<1>2. today \in Int /\ next \in Int /\ today <= next
  BY <1>1, SameDay, DaysPass
<1>3. LocalDay(clock)' = next
  BY <1>1 DEF LocalDay
<1>4. row[a].resetDay \in Int /\ DailyLimit[Kind[a]] \in Nat
  BY <1>1, Columns, AccountsAssumption
<1>5. spent' = IF next = today THEN spent ELSE [c \in Account |-> 0]
  BY DEF Tick
<1> HIDE DEF today, next
<1>6. CASE next = today
  <2>1. UNCHANGED spent
    BY <1>5, <1>6
  <2> QED BY <1>1, <1>3, <1>6, <2>1 DEF Tracks, WithinLimit, today
<1>7. CASE next # today
  <2>1. spent'[a] = 0
    BY <1>5, <1>7
  <2>2. row[a].resetDay <= today /\ today < next
    BY <1>1, <1>2, <1>7 DEF Tracks, today
  <2>3. row'[a].resetDay < next
    BY <1>1, <1>2, <1>4, <2>2
  <2>4. Tracks(row[a], spent[a])'
    BY <1>1, <1>2, <1>3, <1>4, <2>1, <2>3 DEF Tracks
  <2>5. WithinLimit(a, spent[a])'
    BY <1>4, <2>1 DEF WithinLimit
  <2> QED BY <2>4, <2>5
<1> QED BY <1>6, <1>7

LEMMA LimitNext ==
  ASSUME ServerInUtc, LimitInv, [Next]_vars
  PROVE  LimitInv'
<1>1. FreshInv' /\ TypeOK /\ contended \subseteq contended'
  BY FreshNext, ContendedGrows DEF LimitInv, FreshInv, FloorInv
<1>2. CASE Tick
  BY <1>1, <1>2, LimitTick DEF LimitInv
<1>3. ASSUME UNCHANGED <<row, spent, clock>> PROVE LimitInv'
  BY <1>1, <1>3 DEF LimitInv, Tracks, WithinLimit, LocalDay
<1>4. ASSUME NEW t \in Thread, Serve(t) PROVE LimitInv'
  <2>1. CASE LoadAccount(t) \/ LoadDestination(t) \/ LoadBatch(t)
    BY <1>3, <2>1 DEF LoadAccount, LoadDestination, LoadBatch
  <2>2. CASE Handler(t)
    <3>1. UNCHANGED clock
      BY <2>2, HandlersAnswer DEF Answer
    <3>2. \A a \in Account \ contended : CounterStep(a)
      BY <2>2, CounterHandler DEF LimitInv
    <3> QED BY <1>1, <3>1, <3>2, CounterStepKeeps DEF LimitInv
  <2> QED BY <1>4, <2>1, <2>2 DEF Serve, Handler
<1>5. CASE Quiet \/ UNCHANGED vars
  BY <1>3, <1>5 DEF Quiet, vars
<1> QED BY <1>2, <1>4, <1>5 DEF Next

LEMMA LimitInit ==
  ASSUME ServerInUtc
  PROVE  Init => LimitInv
<1> SUFFICES ASSUME Init PROVE LimitInv
  OBVIOUS
<1>1. clock = 0 /\ LocalDay(clock) = UtcDay(0) /\ UtcDay(0) \in Int
  BY SameDay DEF Init
<1>2. \A a \in Account : /\ row[a].withdrawn = 0 /\ row[a].resetDay = UtcDay(0)
                        /\ spent[a] = 0 /\ DailyLimit[Kind[a]] \in Nat
  BY AccountsAssumption DEF Init
<1> QED BY <1>1, <1>2, FreshInit DEF LimitInv, Tracks, WithinLimit

\* Whatever runs at once, on a server in UTC and on an account that is not
\* contended, the daily counter is the money that left the account today ...
THEOREM CounterAlwaysTracks ==
  ASSUME ServerInUtc
  PROVE  Spec => []CounterTracksSpending
<1>1. Init => LimitInv
  BY LimitInit
<1>2. LimitInv /\ [Next]_vars => LimitInv'
  BY LimitNext
<1>3. LimitInv => CounterTracksSpending
  BY DEF LimitInv, Tracks, CounterTracksSpending
<1> QED BY <1>1, <1>2, <1>3, PTL DEF Spec

\* ... and the daily limit is never exceeded, whatever refusals reset the counter
\* in between (transaction_service.py:60-66, 203-219).
THEOREM DailyLimitAlwaysKept ==
  ASSUME ServerInUtc
  PROVE  Spec => []DailyLimitKept
<1>1. Init => LimitInv
  BY LimitInit
<1>2. LimitInv /\ [Next]_vars => LimitInv'
  BY LimitNext
<1>3. LimitInv => DailyLimitKept
  BY DEF LimitInv, WithinLimit, DailyLimitKept
<1> QED BY <1>1, <1>2, <1>3, PTL DEF Spec
=============================================================================
