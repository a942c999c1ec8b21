----------------------------- MODULE LoginsProofs -----------------------------
(***************************************************************************)
(* Theorems about Logins, for any number of users, threads and requests    *)
(* and any limits: the lock turns nobody away but for failures that are    *)
(* recent; and that of a user of whom no two requests have run at once     *)
(* lasts its time, and nobody gets past it, whatever the requests of other *)
(* users do meanwhile.                                                     *)
(***************************************************************************)
EXTENDS Logins, SequenceTheorems, FiniteSetTheorems, TLAPS

-----------------------------------------------------------------------------
\* Types.

Attempt == [success : BOOLEAN, at : Nat]

TypeInv == TypeOK /\ attempts \in [User -> Seq(Attempt)]

\* A count of some attempts of a user is a number.
LEMMA CountIsNatural ==
  ASSUME TypeInv, NEW u \in User, NEW S \in SUBSET DOMAIN attempts[u]
  PROVE  Cardinality(S) \in Nat
<1>1. attempts[u] \in Seq(Attempt)
  BY DEF TypeInv
<1>2. DOMAIN attempts[u] = 1 .. Len(attempts[u]) /\ Len(attempts[u]) \in Nat
  BY <1>1, LenProperties
<1>3. IsFiniteSet(DOMAIN attempts[u])
  BY <1>2, FS_Interval
<1> QED BY <1>3, FS_Subset, FS_CardinalityType

LEMMA FailuresAreNatural ==
  ASSUME TypeInv, NEW u \in User
  PROVE  RecentFailures(u) \in Nat
BY CountIsNatural DEF RecentFailures

LEMMA UnlockedIsRow == Unlocked \in LockRow
BY DEF Unlocked, LockRow

LEMMA NewLockIsRow ==
  ASSUME TypeInv
  PROVE  NewLock \in LockRow
BY LoginsAssumption DEF TypeInv, TypeOK, NewLock, LockRow

\* An attempt that is recorded.
LEMMA Recorded ==
  ASSUME TypeInv, NEW u \in User, NEW b \in BOOLEAN
  PROVE  [attempts EXCEPT ![u] = Append(@, [success |-> b, at |-> clock])]
           \in [User -> Seq(Attempt)]
<1>1. [success |-> b, at |-> clock] \in Attempt
  BY DEF TypeInv, TypeOK, Attempt
<1>2. Append(attempts[u], [success |-> b, at |-> clock]) \in Seq(Attempt)
  BY <1>1, AppendProperties DEF TypeInv
<1> QED BY <1>2 DEF TypeInv

\* The attempts that the sequences hold are those that TypeOK speaks of.
LEMMA AttemptsType ==
  ASSUME attempts' \in [User -> Seq(Attempt)]
  PROVE  \A u \in User : \A k \in DOMAIN attempts'[u] :
           attempts'[u][k] \in [success : BOOLEAN, at : Nat]
BY ElementOfSeq, LenProperties DEF Attempt

LEMMA TypeInit == Init => TypeInv
<1> SUFFICES ASSUME Init PROVE TypeInv
  OBVIOUS
<1>1. attempts \in [User -> Seq(Attempt)]
  BY EmptySeq DEF Init
<1>2. \A u \in User : DOMAIN attempts[u] = {}
  BY EmptySeq DEF Init
<1> QED BY <1>1, <1>2, UnlockedIsRow DEF Init, TypeInv, TypeOK, PC

\* The state of the threads after an answer.
LEMMA AnswerType ==
  ASSUME TypeInv, NEW t \in Thread, Answer(t)
  PROVE  /\ pc' \in [Thread -> PC]
         /\ subject' \in [Thread -> User \cup {NoUser}]
         /\ seen' \in [Thread -> LockRow]
         /\ failures' \in [Thread -> Nat]
         /\ clock' \in Nat /\ served' \in Nat /\ contended' \subseteq User
         /\ \A q \in Thread : pc'[q] # "idle" => subject'[q] \in User
BY UnlockedIsRow DEF TypeInv, TypeOK, Answer, PC

LEMMA LoadType ==
  ASSUME TypeInv, NEW t \in Thread, NEW u \in User, NEW stage \in PC, Load(t, u, stage)
  PROVE  TypeInv'
<1>1. /\ pc' = [pc EXCEPT ![t] = stage] /\ subject' = [subject EXCEPT ![t] = u]
      /\ seen' = [seen EXCEPT ![t] = lock[u]] /\ lock[u] \in LockRow
      /\ served' = served + 1 /\ contended' \subseteq User
  BY DEF Load, TypeInv, TypeOK
<1>2. UNCHANGED <<lock, attempts, token, failures, clock>>
  BY DEF Load
<1>3. \A q \in Thread : pc'[q] # "idle" => subject'[q] \in User
  BY <1>1 DEF TypeInv, TypeOK
<1> QED BY <1>1, <1>2, <1>3 DEF TypeInv, TypeOK

LEMMA TypeNext == TypeInv /\ [Next]_vars => TypeInv'
<1> SUFFICES ASSUME TypeInv, [Next]_vars PROVE TypeInv'
  OBVIOUS
<1> USE LoginsAssumption
<1>1. ASSUME NEW t \in Thread, LoadUser(t) \/ LoadBearer(t) PROVE TypeInv'
  BY <1>1, LoadType DEF LoadUser, LoadBearer, PC
<1>2. ASSUME NEW t \in Thread, RefuseLocked(t) \/ Admit(t) PROVE TypeInv'
  BY <1>2, AnswerType DEF RefuseLocked, Admit, TypeInv, TypeOK
<1>3. ASSUME NEW t \in Thread, Unlock(t) PROVE TypeInv'
  <2>1. lock' \in [User -> LockRow]
    BY <1>3, UnlockedIsRow DEF Unlock, TypeInv, TypeOK
  <2>2. pc' \in [Thread -> PC]
    BY <1>3 DEF Unlock, TypeInv, TypeOK, PC
  <2>3. seen' \in [Thread -> LockRow]
    BY <1>3, UnlockedIsRow DEF Unlock, TypeInv, TypeOK
  <2>4. \A q \in Thread : pc'[q] # "idle" => subject'[q] \in User
    BY <1>3 DEF Unlock, TypeInv, TypeOK
  <2> QED BY <1>3, <2>1, <2>2, <2>3, <2>4 DEF Unlock, TypeInv, TypeOK
<1>4. ASSUME NEW t \in Thread, LogIn(t) PROVE TypeInv'
  <2>1. subject[t] \in User
    BY <1>4 DEF LogIn, TypeInv, TypeOK
  <2>2. attempts' \in [User -> Seq(Attempt)]
    BY <1>4, <2>1, Recorded DEF LogIn
  <2> QED BY <1>4, <2>1, <2>2, AttemptsType DEF LogIn, TypeInv, TypeOK, PC
<1>5. ASSUME NEW t \in Thread, IssueToken(t) PROVE TypeInv'
  <2>1. token' \in [User -> Nat]
    BY <1>5 DEF IssueToken, TypeInv, TypeOK
  <2> QED BY <1>5, <2>1, AnswerType DEF IssueToken, TypeInv, TypeOK
<1>6. ASSUME NEW t \in Thread, CountFailures(t) PROVE TypeInv'
  <2>1. subject[t] \in User
    BY <1>6 DEF CountFailures, TypeInv, TypeOK
  <2>2. failures' \in [Thread -> Nat]
    BY <1>6, <2>1, FailuresAreNatural DEF CountFailures, TypeInv, TypeOK
  <2> QED BY <1>6, <2>1, <2>2 DEF CountFailures, TypeInv, TypeOK, PC
<1>7. ASSUME NEW t \in Thread, Fail(t) PROVE TypeInv'
  <2>1. subject[t] \in User
    BY <1>7 DEF Fail, TypeInv, TypeOK
  <2>2. attempts' \in [User -> Seq(Attempt)]
    BY <1>7, <2>1, Recorded DEF Fail
  <2>3. lock' \in [User -> LockRow]
    BY <1>7, <2>1, NewLockIsRow DEF Fail, TypeInv, TypeOK
  <2> QED BY <1>7, <2>2, <2>3, AttemptsType, AnswerType DEF Fail, TypeInv, TypeOK
<1>8. CASE Tick
  BY <1>8 DEF Tick, TypeInv, TypeOK
<1>9. CASE Quiet \/ UNCHANGED vars
  BY <1>9 DEF Quiet, vars, TypeInv, TypeOK
<1> QED BY <1>1, <1>2, <1>3, <1>4, <1>5, <1>6, <1>7, <1>8, <1>9 DEF Next, Serve

\* Every variable keeps its type, for every value of the constants.
THEOREM TypeCorrect == Spec => []TypeOK
<1>1. TypeInv => TypeOK
  BY DEF TypeInv
<1> QED BY TypeInit, TypeNext, <1>1, PTL DEF Spec

-----------------------------------------------------------------------------
\* Users of whom no two requests have run at once.

\* One thread at most serves such a user, the lock it has loaded is the user's, and
\* past the check of the lock there is no lock.
Agrees(t) ==
  /\ pc[t] \in {"login", "bearer"} => seen[t] = lock[subject[t]]
  /\ pc[t] \in {"open", "admitted", "counted", "passed"} => ~lock[subject[t]].locked

Alone ==
  /\ \A t \in Thread : \A q \in Thread :
       pc[t] # "idle" /\ pc[q] # "idle" /\ subject[t] = subject[q] =>
         t = q \/ subject[t] \in contended
  /\ \A t \in Thread : subject[t] \notin contended => Agrees(t)

LEMMA AloneInit == Init => Alone
<1> SUFFICES ASSUME Init PROVE Alone
  OBVIOUS
<1>1. \A t \in Thread : pc[t] = "idle"
  BY DEF Init
<1> QED BY <1>1 DEF Alone, Agrees

\* A request that touches no lock but its user's, and agrees with that one
\* afterwards unless it has ended.
LEMMA OwnLockAlone ==
  ASSUME TypeInv, Alone, NEW t \in Thread, pc[t] # "idle", UNCHANGED contended,
         \A q \in Thread : q # t =>
           pc'[q] = pc[q] /\ subject'[q] = subject[q] /\ seen'[q] = seen[q],
         \A v \in User : v # subject[t] => lock'[v] = lock[v],
         \/ pc'[t] = "idle"
         \/ /\ subject'[t] = subject[t]
            /\ subject[t] \notin contended => Agrees(t)'
  PROVE  Alone'
<1>1. \A q \in Thread : q # t /\ pc[q] # "idle" /\ subject[q] \notin contended
                          => subject[q] # subject[t]
  BY DEF Alone
<1>2. \A q \in Thread : pc[q] # "idle" => subject[q] \in User
  BY DEF TypeInv, TypeOK
<1>3. \A q \in Thread : q # t /\ pc'[q] # "idle" /\ subject'[q] \notin contended'
        => lock'[subject'[q]] = lock[subject[q]]
  BY <1>1, <1>2
<1>4. ASSUME NEW q \in Thread, subject'[q] \notin contended'
      PROVE  Agrees(q)'
  <2>1. CASE q = t
    BY <1>4, <2>1 DEF Agrees
  <2>2. CASE q # t
    BY <1>3, <1>4, <2>2 DEF Alone, Agrees
  <2> QED BY <2>1, <2>2
<1>5. ASSUME NEW p \in Thread, NEW q \in Thread, pc'[p] # "idle", pc'[q] # "idle",
             subject'[p] = subject'[q], subject'[p] \notin contended'
      PROVE  p = q
  <2>1. /\ pc[p] # "idle" /\ subject'[p] = subject[p]
        /\ pc[q] # "idle" /\ subject'[q] = subject[q]
    BY <1>5
  <2> QED BY <1>5, <2>1 DEF Alone
<1> QED BY <1>4, <1>5 DEF Alone

LEMMA LoadAlone ==
  ASSUME TypeInv, Alone, NEW t \in Thread, NEW u \in User, NEW stage \in {"login", "bearer"},
         Load(t, u, stage)
  PROVE  Alone'
<1>1. /\ pc'[t] = stage /\ subject'[t] = u /\ seen'[t] = lock[u] /\ lock' = lock
      /\ \A q \in Thread : q # t =>
           pc'[q] = pc[q] /\ subject'[q] = subject[q] /\ seen'[q] = seen[q]
  BY DEF Load, TypeInv, TypeOK
<1>2. contended \subseteq contended'
  BY DEF Load
<1>3. \A q \in Thread : subject[q] = u => u \in contended'
  BY DEF Load
<1>4. ASSUME NEW p \in Thread, NEW q \in Thread, pc'[p] # "idle", pc'[q] # "idle",
             subject'[p] = subject'[q], subject'[p] \notin contended'
      PROVE  p = q
  <2>1. CASE p # t /\ q # t
    BY <1>1, <1>2, <1>4, <2>1 DEF Alone
  <2>2. CASE p = t \/ q = t
    BY <1>1, <1>3, <1>4, <2>2
  <2> QED BY <2>1, <2>2
<1>5. ASSUME NEW q \in Thread, subject'[q] \notin contended'
      PROVE  Agrees(q)'
  <2>1. CASE q = t
    BY <1>1, <2>1 DEF Agrees
  <2>2. CASE q # t
    BY <1>1, <1>2, <1>5, <2>2 DEF Alone, Agrees
  <2> QED BY <2>1, <2>2
<1> QED BY <1>4, <1>5 DEF Alone

LEMMA AloneNext == TypeInv /\ Alone /\ [Next]_vars => Alone'
<1> SUFFICES ASSUME TypeInv, Alone, [Next]_vars PROVE Alone'
  OBVIOUS
<1>1. ASSUME NEW t \in Thread, LoadUser(t) \/ LoadBearer(t) PROVE Alone'
  BY <1>1, LoadAlone DEF LoadUser, LoadBearer
<1>2. ASSUME NEW t \in Thread, pc[t] # "idle", Answer(t),
             \A v \in User : v # subject[t] => lock'[v] = lock[v]
      PROVE  Alone'
  <2>1. /\ pc'[t] = "idle" /\ UNCHANGED contended
        /\ \A q \in Thread : q # t =>
             pc'[q] = pc[q] /\ subject'[q] = subject[q] /\ seen'[q] = seen[q]
    BY <1>2 DEF Answer, TypeInv, TypeOK
  <2> QED BY <1>2, <2>1, OwnLockAlone
<1>3. ASSUME NEW t \in Thread, Unlock(t) PROVE Alone'
  <2>1. /\ pc[t] \in {"login", "bearer"} /\ ~LockRuns(seen[t]) /\ subject[t] \in User
        /\ subject[t] \notin contended => seen[t] = lock[subject[t]]
    BY <1>3 DEF Unlock, Alone, Agrees, TypeInv, TypeOK
  <2>2. /\ pc'[t] \in {"open", "admitted"} /\ subject' = subject /\ UNCHANGED contended
        /\ \A q \in Thread : q # t => pc'[q] = pc[q] /\ seen'[q] = seen[q]
        /\ \A v \in User : v # subject[t] => lock'[v] = lock[v]
    BY <1>3 DEF Unlock, TypeInv, TypeOK
  <2>3. subject[t] \notin contended => ~lock'[subject[t]].locked
    BY <1>3, <2>1 DEF Unlock, Unlocked, TypeInv, TypeOK
  <2>4. subject[t] \notin contended => Agrees(t)'
    BY <2>2, <2>3 DEF Agrees
  <2> QED BY <2>1, <2>2, <2>4, OwnLockAlone
<1>4. ASSUME NEW t \in Thread, LogIn(t) \/ CountFailures(t) PROVE Alone'
  <2>1. /\ pc[t] = "open" /\ pc'[t] \in {"passed", "counted"}
        /\ \A q \in Thread : q # t => pc'[q] = pc[q]
        /\ UNCHANGED <<lock, subject, seen, contended>>
    BY <1>4 DEF LogIn, CountFailures, TypeInv, TypeOK
  <2>2. subject[t] \notin contended => Agrees(t)'
    BY <2>1 DEF Alone, Agrees
  <2> QED BY <2>1, <2>2, OwnLockAlone
<1>5. ASSUME NEW t \in Thread, Fail(t) PROVE Alone'
  <2>1. \A v \in User : v # subject[t] => lock'[v] = lock[v]
    BY <1>5 DEF Fail, TypeInv, TypeOK
  <2> QED BY <1>2, <1>5, <2>1 DEF Fail
<1>6. CASE Tick \/ Quiet \/ UNCHANGED vars
  BY <1>6 DEF Tick, Quiet, vars, Alone, Agrees
<1> QED BY <1>1, <1>2, <1>3, <1>4, <1>5, <1>6
        DEF Next, Serve, RefuseLocked, Admit, IssueToken

LEMMA AloneAlways == Spec => [](TypeInv /\ Alone)
BY TypeInit, TypeNext, AloneInit, AloneNext, PTL DEF Spec

\* The lock of a user of whom no two requests have run at once lasts its time.
THEOREM LocksAlwaysLast == Spec => LockLasts
<1>1. TypeInv /\ Alone /\ [Next]_vars
        => [\A u \in User \ contended :
              lock[u].locked /\ clock < lock[u].until => lock'[u] = lock[u]]_vars
  <2> SUFFICES ASSUME TypeInv, Alone, Next,
                      NEW u \in User \ contended, lock[u].locked, clock < lock[u].until
               PROVE  lock'[u] = lock[u]
    OBVIOUS
  <2>0. LockRuns(lock[u])
    BY DEF LockRuns
  <2>1. ASSUME NEW t \in Thread, Unlock(t) PROVE lock'[u] = lock[u]
    <3>1. subject[t] # u
      BY <2>0, <2>1 DEF Unlock, Alone, Agrees
    <3> QED BY <2>1, <3>1 DEF Unlock, TypeInv, TypeOK
  <2>2. ASSUME NEW t \in Thread, Fail(t) PROVE lock'[u] = lock[u]
    <3>1. subject[t] # u
      BY <2>2 DEF Fail, Alone, Agrees
    <3> QED BY <2>2, <3>1 DEF Fail, TypeInv, TypeOK
  <2>3. CASE UNCHANGED lock
    BY <2>3
  <2> QED BY <2>1, <2>2, <2>3
          DEF Next, Serve, LoadUser, LoadBearer, Load, RefuseLocked, Admit, LogIn,
              IssueToken, CountFailures, Quiet, Tick, vars
<1> QED BY <1>1, AloneAlways, PTL DEF Spec, LockLasts

\* Nobody gets past the lock of such a user while it runs.
THEOREM LockedOutAlways == Spec => LockedOut
<1>1. TypeInv /\ Alone /\ [Next]_vars
        => [\A t \in Thread :
              /\ subject[t] \notin contended
              /\ pc[t] \in {"open", "admitted"} /\ pc'[t] \in {"passed", "idle"}
              => ~LockRuns(lock[subject[t]])]_vars
  BY DEF Alone, Agrees, LockRuns
<1> QED BY <1>1, AloneAlways, PTL DEF Spec, LockedOut
-----------------------------------------------------------------------------
\* The count of the failures.

\* The failures of u that the lockout window still reaches.
InWindow(u) ==
  {k \in DOMAIN attempts[u] : ~attempts[u][k].success /\ attempts[u][k].at + Lockout > clock}

\* Attempts are in the past; of a user of whom no two requests have run at once,
\* the failures are few if it is not locked and out of the window when its lock ends
\* if it is, and a login that fails has counted those in the window.
FewOrLocked(u) ==
  /\ ~lock[u].locked => Cardinality(InWindow(u)) < MaxAttempts
  /\ lock[u].locked => \A k \in DOMAIN attempts[u] :
       ~attempts[u][k].success => attempts[u][k].at + Lockout <= lock[u].until

Counted ==
  /\ \A u \in User : \A k \in DOMAIN attempts[u] : attempts[u][k].at <= clock
  /\ \A u \in User \ contended : FewOrLocked(u)
  /\ \A t \in Thread : pc[t] = "counted" /\ subject[t] \notin contended
       => Cardinality(InWindow(subject[t])) <= failures[t]

LEMMA WindowFinite ==
  ASSUME TypeInv, NEW u \in User
  PROVE  /\ IsFiniteSet(DOMAIN attempts[u]) /\ IsFiniteSet(InWindow(u))
         /\ Cardinality(InWindow(u)) \in Nat
         /\ DOMAIN attempts[u] = 1 .. Len(attempts[u]) /\ Len(attempts[u]) \in Nat
<1>1. attempts[u] \in Seq(Attempt)
  BY DEF TypeInv
<1>2. DOMAIN attempts[u] = 1 .. Len(attempts[u]) /\ Len(attempts[u]) \in Nat
  BY <1>1, LenProperties
<1>3. IsFiniteSet(DOMAIN attempts[u])
  BY <1>2, FS_Interval
<1>4. InWindow(u) \in SUBSET DOMAIN attempts[u]
  BY DEF InWindow
<1> QED BY <1>2, <1>3, <1>4, FS_Subset, FS_CardinalityType

LEMMA WindowPrimed ==
  ASSUME TypeInv', NEW u \in User
  PROVE  Cardinality(InWindow(u)') \in Nat
<1>1. attempts'[u] \in Seq(Attempt)
  BY DEF TypeInv
<1>2. DOMAIN attempts'[u] = 1 .. Len(attempts'[u]) /\ Len(attempts'[u]) \in Nat
  BY <1>1, LenProperties
<1>3. IsFiniteSet(DOMAIN attempts'[u])
  BY <1>2, FS_Interval
<1>4. InWindow(u)' \in SUBSET DOMAIN attempts'[u]
  BY DEF InWindow
<1> QED BY <1>3, <1>4, FS_Subset, FS_CardinalityType

\* What a failed login counts are at least the failures in the window.
LEMMA CountCoversWindow ==
  ASSUME TypeInv, NEW u \in User
  PROVE  Cardinality(InWindow(u)) <= RecentFailures(u)
<1> DEFINE R == {k \in DOMAIN attempts[u] :
                   ~attempts[u][k].success /\ attempts[u][k].at + Lockout >= clock}
<1>1. InWindow(u) \in SUBSET R
  BY LoginsAssumption DEF InWindow, TypeInv, TypeOK
<1>2. R \in SUBSET DOMAIN attempts[u]
  OBVIOUS
<1>3. IsFiniteSet(R)
  BY <1>2, WindowFinite, FS_Subset
<1>4. RecentFailures(u) = Cardinality(R)
  BY DEF RecentFailures
<1> HIDE DEF R
<1> QED BY <1>1, <1>3, <1>4, FS_Subset

\* One attempt more.
LEMMA OneMore ==
  ASSUME TypeInv, NEW u \in User, NEW b \in BOOLEAN, UNCHANGED clock,
         attempts' = [attempts EXCEPT ![u] = Append(@, [success |-> b, at |-> clock])]
  PROVE  /\ Len(attempts[u]) + 1 \in DOMAIN attempts'[u]
         /\ attempts'[u][Len(attempts[u]) + 1] = [success |-> b, at |-> clock]
         /\ DOMAIN attempts'[u] = DOMAIN attempts[u] \cup {Len(attempts[u]) + 1}
         /\ \A k \in DOMAIN attempts[u] : attempts'[u][k] = attempts[u][k]
         /\ \A v \in User : v # u => attempts'[v] = attempts[v]
<1> DEFINE e == [success |-> b, at |-> clock]
<1>1. e \in Attempt /\ attempts[u] \in Seq(Attempt)
  BY DEF TypeInv, TypeOK, Attempt
<1>2. attempts'[u] = Append(attempts[u], e)
  BY DEF TypeInv
<1> HIDE DEF e
<1>3. /\ attempts'[u] \in Seq(Attempt)
      /\ Len(attempts'[u]) = Len(attempts[u]) + 1
      /\ \A k \in 1 .. Len(attempts[u]) : attempts'[u][k] = attempts[u][k]
      /\ attempts'[u][Len(attempts[u]) + 1] = e
  BY <1>1, <1>2, AppendProperties
<1>4. /\ DOMAIN attempts[u] = 1 .. Len(attempts[u]) /\ Len(attempts[u]) \in Nat
      /\ DOMAIN attempts'[u] = 1 .. Len(attempts'[u])
  BY <1>1, <1>3, LenProperties
<1>5. \A v \in User : v # u => attempts'[v] = attempts[v]
  BY DEF TypeInv
<1> QED BY <1>3, <1>4, <1>5 DEF e

\* The windows of users of whom nothing is recorded, and that of u.
LEMMA WindowGrows ==
  ASSUME TypeInv, NEW u \in User, NEW b \in BOOLEAN, UNCHANGED clock,
         attempts' = [attempts EXCEPT ![u] = Append(@, [success |-> b, at |-> clock])]
  PROVE  /\ \A v \in User : v # u => InWindow(v)' = InWindow(v)
         /\ b => InWindow(u)' = InWindow(u)
         /\ Cardinality(InWindow(u)') <= Cardinality(InWindow(u)) + 1
<1> DEFINE n == Len(attempts[u]) + 1
<1>1. /\ attempts'[u][n] = [success |-> b, at |-> clock]
      /\ DOMAIN attempts'[u] = DOMAIN attempts[u] \cup {n}
      /\ \A k \in DOMAIN attempts[u] : attempts'[u][k] = attempts[u][k]
      /\ \A v \in User : v # u => attempts'[v] = attempts[v]
  BY OneMore
<1>2. \A v \in User : v # u => InWindow(v)' = InWindow(v)
  BY <1>1 DEF InWindow
<1>3. n \notin DOMAIN attempts[u]
  BY WindowFinite
<1> HIDE DEF n
<1>4. b => InWindow(u)' = InWindow(u)
  BY <1>1, <1>3 DEF InWindow
<1>5. InWindow(u)' \in SUBSET (InWindow(u) \cup {n})
  BY <1>1 DEF InWindow
<1>6. /\ IsFiniteSet(InWindow(u) \cup {n})
      /\ Cardinality(InWindow(u) \cup {n}) <= Cardinality(InWindow(u)) + 1
  <2>1. IsFiniteSet(InWindow(u)) /\ Cardinality(InWindow(u)) \in Nat
    BY WindowFinite
  <2>2. /\ IsFiniteSet(InWindow(u) \cup {n})
        /\ Cardinality(InWindow(u) \cup {n}) =
             IF n \in InWindow(u) THEN Cardinality(InWindow(u))
                                  ELSE Cardinality(InWindow(u)) + 1
    BY <2>1, FS_AddElement
  <2> QED BY <2>1, <2>2
<1>7. /\ IsFiniteSet(InWindow(u)')
      /\ Cardinality(InWindow(u)') <= Cardinality(InWindow(u) \cup {n})
  BY <1>5, <1>6, FS_Subset
<1>8. /\ Cardinality(InWindow(u)') \in Nat /\ Cardinality(InWindow(u)) \in Nat
      /\ Cardinality(InWindow(u) \cup {n}) \in Nat
  BY <1>6, <1>7, WindowFinite, FS_CardinalityType
<1> QED BY <1>2, <1>4, <1>6, <1>7, <1>8

LEMMA CountedInit == Init => Counted
<1> SUFFICES ASSUME Init PROVE Counted
  OBVIOUS
<1>1. \A u \in User : DOMAIN attempts[u] = {}
  BY EmptySeq DEF Init
<1>2. \A u \in User : InWindow(u) = {}
  BY <1>1 DEF InWindow
<1>3. \A u \in User : Cardinality(InWindow(u)) < MaxAttempts
  BY <1>2, FS_EmptySet, LoginsAssumption
<1>4. \A u \in User : ~lock[u].locked
  BY DEF Init, Unlocked
<1>5. \A t \in Thread : pc[t] # "counted"
  BY DEF Init
<1> QED BY <1>1, <1>3, <1>4, <1>5 DEF Counted, FewOrLocked

LEMMA TickCounted ==
  ASSUME TypeInv, Counted, Tick
  PROVE  Counted'
<1>1. \A u \in User : InWindow(u)' \in SUBSET InWindow(u)
  BY LoginsAssumption DEF Tick, InWindow, TypeInv, TypeOK
<1>2. \A u \in User : /\ Cardinality(InWindow(u)') \in Nat
                      /\ Cardinality(InWindow(u)') <= Cardinality(InWindow(u))
  BY <1>1, WindowFinite, FS_Subset, FS_CardinalityType
<1>3. \A u \in User : \A k \in DOMAIN attempts'[u] : attempts'[u][k].at <= clock'
  BY DEF Tick, Counted, FewOrLocked, TypeInv, TypeOK
<1>4. \A u \in User \ contended' : ~lock'[u].locked
        => Cardinality(InWindow(u)') < MaxAttempts
  BY <1>2, WindowFinite, LoginsAssumption DEF Tick, Counted, FewOrLocked
<1>5. \A t \in Thread : pc'[t] = "counted" /\ subject'[t] \notin contended'
        => Cardinality(InWindow(subject[t])') <= failures'[t]
  BY <1>2, WindowFinite DEF Tick, Counted, FewOrLocked, TypeInv, TypeOK
<1> QED BY <1>3, <1>4, <1>5 DEF Tick, Counted, FewOrLocked

\* What a lock that has run out leaves in the window: nothing.
LEMMA UnlockCounted ==
  ASSUME TypeInv, Alone, Counted, NEW t \in Thread, Unlock(t)
  PROVE  Counted'
<1> DEFINE u == subject[t]
<1>1. /\ u \in User /\ pc'[t] # "counted" /\ \A q \in Thread : q # t => pc'[q] = pc[q]
      /\ UNCHANGED <<attempts, clock, contended, subject, failures>>
  BY DEF Unlock, TypeInv, TypeOK
<1>2. \A v \in User : InWindow(v)' = InWindow(v)
  BY <1>1 DEF InWindow
<1>3. \A q \in Thread : pc'[q] = "counted" => pc[q] = "counted" /\ subject[q] \in User
  BY <1>1 DEF TypeInv, TypeOK
<1>4. CASE UNCHANGED lock
  BY <1>1, <1>2, <1>4, <1>3 DEF Counted, FewOrLocked
<1>5. CASE seen[t].locked /\ lock' = [lock EXCEPT ![u] = Unlocked]
           /\ u \notin contended
  <2>1. lock[u].locked /\ lock[u].until <= clock
    BY <1>1, <1>5 DEF Unlock, Alone, Agrees, LockRuns, TypeInv, TypeOK, LockRow
  <2>2. InWindow(u) = {}
    <3>1. \A k \in DOMAIN attempts[u] :
            ~attempts[u][k].success => attempts[u][k].at + Lockout <= lock[u].until
      BY <1>1, <1>5, <2>1 DEF Counted, FewOrLocked
    <3>2. /\ \A k \in DOMAIN attempts[u] : attempts[u][k].at \in Nat
          /\ lock[u].until \in Nat /\ clock \in Nat /\ Lockout \in Nat
      BY <1>1, LoginsAssumption DEF TypeInv, TypeOK, LockRow
    <3> HIDE DEF u
    <3> QED BY <2>1, <3>1, <3>2 DEF InWindow
  <2>3. Cardinality(InWindow(u)) < MaxAttempts
    BY <2>2, FS_EmptySet, LoginsAssumption
  <2>4. /\ ~lock'[u].locked /\ \A v \in User : v # u => lock'[v] = lock[v]
    BY <1>1, <1>5 DEF Unlocked, TypeInv, TypeOK
  <2> HIDE DEF u
  <2> QED BY <1>1, <1>2, <1>3, <2>3, <2>4 DEF Counted, FewOrLocked
<1>6. CASE seen[t].locked /\ lock' = [lock EXCEPT ![u] = Unlocked] /\ u \in contended
  <2>1. \A v \in User : v # u => lock'[v] = lock[v]
    BY <1>1, <1>6 DEF TypeInv, TypeOK
  <2> HIDE DEF u
  <2> QED BY <1>1, <1>2, <1>3, <1>6, <2>1 DEF Counted, FewOrLocked
<1> QED BY <1>4, <1>5, <1>6 DEF Unlock

LEMMA AttemptsInPast ==
  ASSUME TypeInv, Counted, NEW u \in User, NEW b \in BOOLEAN, UNCHANGED clock,
         attempts' = [attempts EXCEPT ![u] = Append(@, [success |-> b, at |-> clock])]
  PROVE  \A v \in User : \A k \in DOMAIN attempts'[v] : attempts'[v][k].at <= clock'
<1> TAKE v \in User
<1>1. CASE v # u
  BY <1>1, OneMore DEF Counted, FewOrLocked
<1>2. CASE v = u
  <2> TAKE k \in DOMAIN attempts'[v]
  <2>1. CASE k \in DOMAIN attempts[u]
    BY <1>2, <2>1, OneMore DEF Counted, FewOrLocked
  <2>2. CASE k = Len(attempts[u]) + 1
    BY <1>2, <2>2, OneMore DEF TypeInv, TypeOK
  <2> QED BY <1>2, <2>1, <2>2, OneMore
<1> QED BY <1>1, <1>2

LEMMA LogInCounted ==
  ASSUME TypeInv, Alone, Counted, NEW t \in Thread, LogIn(t)
  PROVE  Counted'
<1> DEFINE u == subject[t]
<1>1. /\ u \in User /\ pc[t] = "open"
      /\ attempts' = [attempts EXCEPT ![u] = Append(@, [success |-> TRUE, at |-> clock])]
      /\ pc' = [pc EXCEPT ![t] = "passed"]
      /\ UNCHANGED <<lock, clock, contended, subject, failures>>
  BY DEF LogIn, TypeInv, TypeOK
<1> HIDE DEF u
<1>2. \A v \in User : InWindow(v)' = InWindow(v)
  BY <1>1, WindowGrows
<1>3. \A v \in User : \A k \in DOMAIN attempts'[v] : attempts'[v][k].at <= clock'
  BY <1>1, AttemptsInPast
<1>4. \A q \in Thread : pc'[q] = "counted" => pc[q] = "counted"
  BY <1>1 DEF TypeInv, TypeOK
<1>5. u \notin contended => ~lock[u].locked
  BY <1>1 DEF Alone, Agrees, u
<1>6. \A v \in User : v # u => attempts'[v] = attempts[v]
  BY <1>1, OneMore
<1> QED BY <1>1, <1>2, <1>3, <1>4, <1>5, <1>6 DEF Counted, FewOrLocked, TypeInv, TypeOK

LEMMA CountFailuresCounted ==
  ASSUME TypeInv, Counted, NEW t \in Thread, CountFailures(t)
  PROVE  Counted'
<1>1. /\ subject[t] \in User /\ failures' = [failures EXCEPT ![t] = RecentFailures(subject[t])]
      /\ pc' = [pc EXCEPT ![t] = "counted"]
      /\ UNCHANGED <<lock, attempts, clock, contended, subject>>
  BY DEF CountFailures, TypeInv, TypeOK
<1>2. \A v \in User : InWindow(v)' = InWindow(v)
  BY <1>1 DEF InWindow
<1>3. failures'[t] = RecentFailures(subject[t])
      /\ \A q \in Thread : q # t => failures'[q] = failures[q] /\ pc'[q] = pc[q]
  BY <1>1 DEF TypeInv, TypeOK
<1>4. \A q \in Thread : pc'[q] = "counted" /\ subject'[q] \notin contended'
        => Cardinality(InWindow(subject[q])) <= failures'[q]
  BY <1>1, <1>3, CountCoversWindow DEF Counted, FewOrLocked
<1>5. \A q \in Thread : pc'[q] = "counted" => subject[q] \in User
  BY <1>1 DEF TypeInv, TypeOK
<1> QED BY <1>1, <1>2, <1>4, <1>5 DEF Counted, FewOrLocked

LEMMA FailCounted ==
  ASSUME TypeInv, Alone, Counted, NEW t \in Thread, Fail(t),
         NEW u \in User, u = subject[t]
  PROVE  Counted'
<1>1. /\ pc[t] = "counted"
      /\ attempts' = [attempts EXCEPT ![u] = Append(@, [success |-> FALSE, at |-> clock])]
      /\ lock' = IF TooMany(failures[t]) THEN [lock EXCEPT ![u] = NewLock] ELSE lock
      /\ UNCHANGED <<clock, contended>>
  BY DEF Fail, Answer, TypeInv, TypeOK
<1>2. \A v \in User : \A k \in DOMAIN attempts'[v] : attempts'[v][k].at <= clock'
  BY <1>1, AttemptsInPast
<1>3. \A v \in User : v # u => attempts'[v] = attempts[v] /\ lock'[v] = lock[v]
                               /\ InWindow(v)' = InWindow(v)
  BY <1>1, OneMore, WindowGrows DEF TypeInv, TypeOK
<1>4. /\ pc'[t] = "idle" /\ \A q \in Thread : q # t =>
                pc'[q] = pc[q] /\ subject'[q] = subject[q] /\ failures'[q] = failures[q]
  BY DEF Fail, Answer, TypeInv, TypeOK
<1>5. ASSUME NEW q \in Thread, pc'[q] = "counted", subject'[q] \notin contended'
      PROVE  Cardinality(InWindow(subject[q]))' <= failures'[q]
  <2>1. q # t /\ pc[q] = "counted" /\ failures'[q] = failures[q]
    BY <1>4, <1>5
  <2>2. PICK v \in User : v = subject[q] /\ v = subject'[q]
    BY <1>4, <2>1 DEF TypeInv, TypeOK
  <2>3. v \notin contended
    BY <1>1, <1>5, <2>2
  <2>4. v # u
    BY <1>1, <2>1, <2>2, <2>3 DEF Alone
  <2>5. Cardinality(InWindow(v))' = Cardinality(InWindow(v))
    BY <1>3, <2>4
  <2>6. Cardinality(InWindow(v)) <= failures[q]
    BY <2>1, <2>2, <2>3 DEF Counted
  <2>7. Cardinality(InWindow(subject[q]))' = Cardinality(InWindow(v))'
    BY <2>2 DEF InWindow
  <2> QED BY <2>1, <2>5, <2>6, <2>7
<1>6. CASE TooMany(failures[t])
  <2>1. lock'[u].locked /\ lock'[u].until = clock + Lockout
    BY <1>1, <1>6 DEF NewLock, TypeInv, TypeOK
  <2>2. \A k \in DOMAIN attempts'[u] : attempts'[u][k].at + Lockout <= lock'[u].until
    <3>1. attempts' \in [User -> Seq(Attempt)]
      BY <1>1, Recorded
    <3>2. \A k \in DOMAIN attempts'[u] : attempts'[u][k].at \in Nat
      BY <3>1, AttemptsType
    <3>3. \A k \in DOMAIN attempts'[u] : attempts'[u][k].at <= clock
      BY <1>1, <1>2
    <3> QED BY <2>1, <3>2, <3>3, LoginsAssumption DEF TypeInv, TypeOK
  <2>3. FewOrLocked(u)'
    BY <2>1, <2>2 DEF FewOrLocked
  <2>4. \A v \in User \ contended' : FewOrLocked(v)'
    BY <1>1, <1>3, <2>3 DEF Counted, FewOrLocked
  <2> QED BY <1>2, <1>5, <2>4 DEF Counted
<1>7. CASE ~TooMany(failures[t])
  <2>1. u \notin contended => Cardinality(InWindow(u)) + 1 < MaxAttempts
    BY <1>1, <1>7, WindowFinite, LoginsAssumption DEF Counted, FewOrLocked, TooMany, TypeInv, TypeOK
  <2>2. u \notin contended => Cardinality(InWindow(u)') < MaxAttempts
    <3>1. Cardinality(InWindow(u)') <= Cardinality(InWindow(u)) + 1
      BY <1>1, WindowGrows
    <3>2. Cardinality(InWindow(u)') \in Nat
      <4>1. TypeInv'
        BY TypeNext DEF Next, Serve
      <4> QED BY <1>1, <4>1, WindowPrimed
    <3> QED BY <1>1, <2>1, <3>1, <3>2, WindowFinite, LoginsAssumption
  <2>3. lock' = lock /\ (u \notin contended => ~lock[u].locked)
    BY <1>1, <1>7 DEF Alone, Agrees
  <2>4. u \notin contended => FewOrLocked(u)'
    BY <2>2, <2>3 DEF FewOrLocked
  <2>5. \A v \in User \ contended' : FewOrLocked(v)'
    BY <1>1, <1>3, <2>4 DEF Counted, FewOrLocked
  <2> QED BY <1>2, <1>5, <2>5 DEF Counted
<1> QED BY <1>6, <1>7

LEMMA CountedNext == TypeInv /\ Alone /\ Counted /\ [Next]_vars => Counted'
<1> SUFFICES ASSUME TypeInv, Alone, Counted, [Next]_vars PROVE Counted'
  OBVIOUS
<1>1. ASSUME UNCHANGED <<attempts, lock, clock, failures>>,
             contended \subseteq contended',
             \A t \in Thread : pc'[t] = "counted" => pc[t] = "counted" /\ subject'[t] = subject[t]
      PROVE  Counted'
  <2>1. \A v \in User : InWindow(v)' = InWindow(v)
    BY <1>1 DEF InWindow
  <2>2. \A t \in Thread : pc[t] = "counted" => subject[t] \in User
    BY DEF TypeInv, TypeOK
  <2> QED BY <1>1, <2>1, <2>2 DEF Counted, FewOrLocked
<1>2. ASSUME NEW t \in Thread, LoadUser(t) \/ LoadBearer(t) PROVE Counted'
  BY <1>1, <1>2 DEF LoadUser, LoadBearer, Load, TypeInv, TypeOK
<1>3. ASSUME NEW t \in Thread, Answer(t), UNCHANGED <<lock, attempts>> PROVE Counted'
  <2>1. \A q \in Thread : q # t => subject'[q] = subject[q] /\ failures'[q] = failures[q]
                                   /\ pc'[q] = pc[q]
    BY <1>3 DEF Answer, TypeInv, TypeOK
  <2>2. pc'[t] = "idle"
    BY <1>3 DEF Answer, TypeInv, TypeOK
  <2>3. \A v \in User : InWindow(v)' = InWindow(v)
    BY <1>3 DEF Answer, InWindow
  <2>4. \A q \in Thread : pc[q] = "counted" => subject[q] \in User
    BY DEF TypeInv, TypeOK
  <2> QED BY <1>3, <2>1, <2>2, <2>3, <2>4 DEF Counted, FewOrLocked, Answer
<1>4. CASE Quiet \/ UNCHANGED vars
  BY <1>1, <1>4 DEF Quiet, vars
<1>5. \A t \in Thread : Fail(t) => subject[t] \in User
  BY DEF Fail, TypeInv, TypeOK
<1> QED BY <1>2, <1>3, <1>4, TickCounted, UnlockCounted, LogInCounted, CountFailuresCounted,
           FailCounted, <1>5
        DEF Next, Serve, RefuseLocked, Admit, IssueToken

\* A user of whom no two requests have run at once, and who is not locked, has had
\* fewer failures in the window than MAX_LOGIN_ATTEMPTS.
THEOREM FewFailuresAlways == Spec => []FewRecentFailures
<1>1. Counted => FewRecentFailures
  BY DEF Counted, FewOrLocked, InWindow, FewRecentFailures
<1> QED BY <1>1, TypeInit, TypeNext, AloneInit, AloneNext, CountedInit, CountedNext,
           PTL DEF Spec
-----------------------------------------------------------------------------
\* Nobody is turned away for nothing.

\* Lock r of user u is deserved: u has failed often enough, and one of the failures
\* was no longer before the end of the lock than the lockout.
Deserved(r, u) ==
  r.locked => /\ Cardinality(Failed(u)) >= MaxAttempts
              /\ \E k \in Failed(u) : r.until <= attempts[u][k].at + Lockout

\* So are the locks in the table and their copies, however stale; and a login that
\* fails has counted no more than there are.
DeservedInv ==
  /\ \A u \in User : Deserved(lock[u], u)
  /\ \A t \in Thread : pc[t] \in {"login", "bearer"} => Deserved(seen[t], subject[t])
  /\ \A t \in Thread : pc[t] = "counted"
       => failures[t] <= Cardinality(Failed(subject[t]))

LEMMA FailedFinite ==
  ASSUME TypeInv, NEW u \in User
  PROVE  IsFiniteSet(Failed(u)) /\ Cardinality(Failed(u)) \in Nat
<1>1. attempts[u] \in Seq(Attempt)
  BY DEF TypeInv
<1>2. DOMAIN attempts[u] = 1 .. Len(attempts[u]) /\ Len(attempts[u]) \in Nat
  BY <1>1, LenProperties
<1>3. IsFiniteSet(DOMAIN attempts[u])
  BY <1>2, FS_Interval
<1>4. Failed(u) \in SUBSET DOMAIN attempts[u]
  BY DEF Failed
<1> QED BY <1>3, <1>4, FS_Subset, FS_CardinalityType

\* What a failed login counts is part of the failures.
LEMMA CountIsPart ==
  ASSUME TypeInv, NEW u \in User
  PROVE  RecentFailures(u) <= Cardinality(Failed(u))
<1> DEFINE R == {k \in DOMAIN attempts[u] :
                   ~attempts[u][k].success /\ attempts[u][k].at + Lockout >= clock}
<1>1. R \in SUBSET Failed(u)
  BY DEF Failed
<1>2. RecentFailures(u) = Cardinality(R)
  BY DEF RecentFailures
<1> HIDE DEF R
<1> QED BY <1>1, <1>2, FailedFinite, FS_Subset

\* An attempt takes no failure away, and a failed one adds one.
LEMMA FailedGrows ==
  ASSUME TypeInv, NEW u \in User, NEW b \in BOOLEAN, UNCHANGED clock,
         attempts' = [attempts EXCEPT ![u] = Append(@, [success |-> b, at |-> clock])]
  PROVE  /\ \A v \in User :
              /\ Failed(v) \subseteq Failed(v)'
              /\ Cardinality(Failed(v)') \in Nat
              /\ Cardinality(Failed(v)) <= Cardinality(Failed(v)')
              /\ \A k \in Failed(v) : attempts'[v][k] = attempts[v][k]
         /\ ~b => /\ Cardinality(Failed(u)') = Cardinality(Failed(u)) + 1
                  /\ Len(attempts[u]) + 1 \in Failed(u)'
                  /\ attempts'[u][Len(attempts[u]) + 1].at = clock
<1> DEFINE n == Len(attempts[u]) + 1
<1>1. /\ n \in DOMAIN attempts'[u]
      /\ attempts'[u][n] = [success |-> b, at |-> clock]
      /\ DOMAIN attempts'[u] = DOMAIN attempts[u] \cup {n}
      /\ \A k \in DOMAIN attempts[u] : attempts'[u][k] = attempts[u][k]
      /\ \A v \in User : v # u => attempts'[v] = attempts[v]
  BY OneMore
<1>2. n \notin DOMAIN attempts[u]
  BY WindowFinite
<1> HIDE DEF n
<1>3. \A v \in User : v # u => Failed(v)' = Failed(v)
  BY <1>1 DEF Failed
<1>4. Failed(u)' = IF b THEN Failed(u) ELSE Failed(u) \cup {n}
  BY <1>1, <1>2 DEF Failed
<1>5. n \notin Failed(u)
  BY <1>2 DEF Failed
<1>6. /\ IsFiniteSet(Failed(u)) /\ Cardinality(Failed(u)) \in Nat
      /\ Cardinality(Failed(u) \cup {n}) = Cardinality(Failed(u)) + 1
  BY <1>5, FailedFinite, FS_AddElement
<1>7. \A v \in User : Cardinality(Failed(v)) \in Nat
  BY FailedFinite
<1>8. ASSUME NEW v \in User
      PROVE  /\ Failed(v) \subseteq Failed(v)'
             /\ Cardinality(Failed(v)') \in Nat
             /\ Cardinality(Failed(v)) <= Cardinality(Failed(v)')
             /\ \A k \in Failed(v) : attempts'[v][k] = attempts[v][k]
  <2>1. CASE v = u
    <3>1. /\ Failed(u) \subseteq Failed(u)'
          /\ \A k \in Failed(u) : attempts'[u][k] = attempts[u][k]
      BY <1>1, <1>4 DEF Failed
    <3>2. /\ Cardinality(Failed(u)') \in Nat
          /\ Cardinality(Failed(u)) <= Cardinality(Failed(u)')
      BY <1>4, <1>6
    <3> QED BY <2>1, <3>1, <3>2
  <2>2. CASE v # u
    BY <1>1, <1>3, <1>7, <2>2
  <2> QED BY <2>1, <2>2
<1>9. ~b => /\ Cardinality(Failed(u)') = Cardinality(Failed(u)) + 1
            /\ n \in Failed(u)' /\ attempts'[u][n].at = clock
  BY <1>1, <1>4, <1>6
<1> QED BY <1>8, <1>9 DEF n

\* An attempt leaves deserved what was.
LEMMA StaysDeserved ==
  ASSUME TypeInv, NEW u \in User, NEW b \in BOOLEAN, UNCHANGED clock,
         attempts' = [attempts EXCEPT ![u] = Append(@, [success |-> b, at |-> clock])],
         NEW v \in User, NEW r \in LockRow, Deserved(r, v)
  PROVE  r.locked => /\ Cardinality(Failed(v)') >= MaxAttempts
                     /\ \E k \in Failed(v)' : r.until <= attempts'[v][k].at + Lockout
<1>1. /\ Failed(v) \subseteq Failed(v)'
      /\ Cardinality(Failed(v)') \in Nat
      /\ Cardinality(Failed(v)) <= Cardinality(Failed(v)')
      /\ \A k \in Failed(v) : attempts'[v][k] = attempts[v][k]
  BY FailedGrows
<1>2. Cardinality(Failed(v)) \in Nat
  BY FailedFinite
<1> SUFFICES ASSUME r.locked
             PROVE  /\ Cardinality(Failed(v)') >= MaxAttempts
                    /\ \E k \in Failed(v)' : r.until <= attempts'[v][k].at + Lockout
  OBVIOUS
<1>3. Cardinality(Failed(v)) >= MaxAttempts
  BY DEF Deserved
<1>4. PICK k \in Failed(v) : r.until <= attempts[v][k].at + Lockout
  BY DEF Deserved
<1>5. k \in Failed(v)' /\ attempts'[v][k] = attempts[v][k]
  BY <1>1
<1>6. r.until <= attempts'[v][k].at + Lockout
  BY <1>4, <1>5
<1>7. Cardinality(Failed(v)') >= MaxAttempts
  BY <1>1, <1>2, <1>3, LoginsAssumption
<1> QED BY <1>5, <1>6, <1>7

\* So does every step, which takes no failure away either.
LEMMA FailuresKept ==
  ASSUME TypeInv, [Next]_vars, NEW v \in User
  PROVE  /\ Cardinality(Failed(v)) \in Nat /\ Cardinality(Failed(v)') \in Nat
         /\ Cardinality(Failed(v)) <= Cardinality(Failed(v)')
         /\ \A r \in LockRow : Deserved(r, v) =>
              (r.locked => /\ Cardinality(Failed(v)') >= MaxAttempts
                           /\ \E k \in Failed(v)' :
                                r.until <= attempts'[v][k].at + Lockout)
<1>1. Cardinality(Failed(v)) \in Nat
  BY FailedFinite
<1>2. CASE UNCHANGED attempts
  <2>1. Failed(v)' = Failed(v)
    BY <1>2 DEF Failed
  <2> QED BY <1>1, <1>2, <2>1 DEF Deserved
<1>3. ASSUME NEW t \in Thread, LogIn(t) \/ Fail(t)
      PROVE  \E b \in BOOLEAN :
               /\ UNCHANGED clock /\ subject[t] \in User
               /\ attempts' = [attempts EXCEPT ![subject[t]] =
                                 Append(@, [success |-> b, at |-> clock])]
  <2>1. subject[t] \in User
    BY <1>3 DEF LogIn, Fail, TypeInv, TypeOK
  <2> QED BY <1>3, <2>1 DEF LogIn, Fail, Answer
<1>4. ASSUME NEW t \in Thread, LogIn(t) \/ Fail(t)
      PROVE  /\ Cardinality(Failed(v)') \in Nat
             /\ Cardinality(Failed(v)) <= Cardinality(Failed(v)')
             /\ \A r \in LockRow : Deserved(r, v) =>
                  (r.locked => /\ Cardinality(Failed(v)') >= MaxAttempts
                               /\ \E k \in Failed(v)' :
                                    r.until <= attempts'[v][k].at + Lockout)
  <2>1. PICK b \in BOOLEAN :
               /\ UNCHANGED clock /\ subject[t] \in User
               /\ attempts' = [attempts EXCEPT ![subject[t]] =
                                 Append(@, [success |-> b, at |-> clock])]
    BY <1>3, <1>4
  <2> QED BY <2>1, FailedGrows, StaysDeserved
<1> QED BY <1>1, <1>2, <1>4
        DEF Next, Serve, LoadUser, LoadBearer, Load, RefuseLocked, Unlock, Admit,
            IssueToken, CountFailures, Tick, Quiet, vars

LEMMA DeservedInit == Init => DeservedInv
BY DEF Init, DeservedInv, Deserved, Unlocked

\* The lock that a failed login sets is deserved by its own attempt.
LEMMA NewLockDeserved ==
  ASSUME TypeInv, DeservedInv, NEW t \in Thread, NEW u \in User, u = subject[t],
         Fail(t), TooMany(failures[t])
  PROVE  /\ Cardinality(Failed(u)') >= MaxAttempts
         /\ \E k \in Failed(u)' : NewLock.until <= attempts'[u][k].at + Lockout
<1>1. failures[t] \in Nat /\ clock \in Nat /\ failures[t] <= Cardinality(Failed(u))
  BY DEF Fail, TypeInv, TypeOK, DeservedInv
<1>2. /\ UNCHANGED clock
      /\ attempts' = [attempts EXCEPT ![u] = Append(@, [success |-> FALSE, at |-> clock])]
  BY DEF Fail, Answer
<1>3. /\ Cardinality(Failed(u)') = Cardinality(Failed(u)) + 1
      /\ Len(attempts[u]) + 1 \in Failed(u)'
      /\ attempts'[u][Len(attempts[u]) + 1].at = clock
  BY <1>2, FailedGrows
<1>4. Cardinality(Failed(u)) \in Nat
  BY FailedFinite
<1>5. Cardinality(Failed(u)') >= MaxAttempts
  BY <1>1, <1>3, <1>4, LoginsAssumption DEF TooMany
<1>6. \E k \in Failed(u)' : NewLock.until <= attempts'[u][k].at + Lockout
  BY <1>1, <1>3, LoginsAssumption DEF NewLock
<1> QED BY <1>5, <1>6

LEMMA DeservedNext == TypeInv /\ TypeInv' /\ DeservedInv /\ [Next]_vars => DeservedInv'
<1> SUFFICES ASSUME TypeInv, TypeInv', DeservedInv, [Next]_vars PROVE DeservedInv'
  OBVIOUS
<1> DEFINE Kept(q) == /\ pc'[q] = pc[q] /\ subject'[q] = subject[q]
                      /\ seen'[q] = seen[q] /\ failures'[q] = failures[q]
           Good(q) == /\ pc'[q] \in {"login", "bearer"} => Deserved(seen[q], subject[q])'
                      /\ pc'[q] = "counted"
                           => failures'[q] <= Cardinality(Failed(subject[q])')
<1>1. ASSUME NEW u \in User, lock'[u] \in {lock[u], Unlocked}
      PROVE  Deserved(lock[u], u)'
  <2>1. lock[u] \in LockRow /\ Deserved(lock[u], u)
    BY DEF TypeInv, TypeOK, DeservedInv
  <2>2. lock[u].locked =>
          /\ Cardinality(Failed(u)') >= MaxAttempts
          /\ \E k \in Failed(u)' : lock[u].until <= attempts'[u][k].at + Lockout
    BY <2>1, FailuresKept
  <2>3. CASE lock'[u] = lock[u]
    BY <2>2, <2>3 DEF Deserved
  <2>4. CASE lock'[u] = Unlocked
    BY <2>4 DEF Deserved, Unlocked
  <2> QED BY <1>1, <2>3, <2>4
<1>2. ASSUME NEW q \in Thread, Kept(q) PROVE Good(q)
  <2>1. CASE pc[q] \in {"login", "bearer"}
    <3>1. /\ subject[q] \in User /\ seen[q] \in LockRow
          /\ Deserved(seen[q], subject[q])
      BY <2>1 DEF TypeInv, TypeOK, DeservedInv
    <3>2. PICK v \in User : v = subject[q] /\ subject'[q] = v /\ seen'[q] = seen[q]
      BY <1>2, <3>1
    <3>3. seen[q].locked =>
            /\ Cardinality(Failed(v)') >= MaxAttempts
            /\ \E k \in Failed(v)' : seen[q].until <= attempts'[v][k].at + Lockout
      BY <3>1, <3>2, FailuresKept
    <3>4. Failed(v)' = Failed(subject[q])'
      BY <3>2 DEF Failed
    <3>5. Deserved(seen[q], subject[q])'
      BY <3>2, <3>3, <3>4 DEF Deserved
    <3> QED BY <1>2, <2>1, <3>5
  <2>2. CASE pc[q] = "counted"
    <3>1. /\ subject[q] \in User /\ failures[q] \in Nat
          /\ failures[q] <= Cardinality(Failed(subject[q]))
      BY <2>2 DEF TypeInv, TypeOK, DeservedInv
    <3>2. /\ Cardinality(Failed(subject[q])) \in Nat
          /\ Cardinality(Failed(subject[q])') \in Nat
          /\ Cardinality(Failed(subject[q])) <= Cardinality(Failed(subject[q])')
      <4>1. PICK v \in User : v = subject[q]
        BY <3>1
      <4>2. subject'[q] = v
        BY <1>2, <4>1
      <4> QED BY <4>1, <4>2, FailuresKept DEF Failed
    <3> QED BY <1>2, <2>2, <3>1, <3>2
  <2>3. CASE pc[q] \notin {"login", "bearer", "counted"}
    BY <1>2, <2>3
  <2> QED BY <2>1, <2>2, <2>3
<1>3. (\A u \in User : Deserved(lock[u], u)') /\ (\A q \in Thread : Good(q)) => DeservedInv'
  BY DEF DeservedInv
<1>4. \A q \in Thread : pc'[q] \notin {"login", "bearer", "counted"} => Good(q)
  OBVIOUS
<1> HIDE DEF Good
<1>5. ASSUME NEW t \in Thread, NEW u \in User, NEW stage \in {"login", "bearer"},
             Load(t, u, stage)
      PROVE  DeservedInv'
  <2>1. UNCHANGED <<lock, attempts>> /\ \A q \in Thread \ {t} : Kept(q)
    BY <1>5 DEF Load, TypeInv, TypeOK
  <2>2. pc'[t] = stage /\ subject'[t] = u /\ seen'[t] = lock[u]
    BY <1>5 DEF Load, TypeInv, TypeOK
  <2>3. Deserved(lock[u], u)'
    BY <1>1, <2>1
  <2>4. Good(t)
    BY <2>1, <2>2, <2>3 DEF Good, Deserved, Failed
  <2> QED BY <1>1, <1>2, <1>3, <2>1, <2>4
<1>6. ASSUME NEW t \in Thread,
             RefuseLocked(t) \/ Unlock(t) \/ Admit(t) \/ LogIn(t) \/ IssueToken(t)
      PROVE  DeservedInv'
  <2>1. \A q \in Thread \ {t} : Kept(q)
    BY <1>6 DEF RefuseLocked, Unlock, Admit, LogIn, IssueToken, Answer, TypeInv, TypeOK
  <2>2. pc'[t] \in {"idle", "open", "admitted", "passed"}
    BY <1>6 DEF RefuseLocked, Unlock, Admit, LogIn, IssueToken, Answer, TypeInv, TypeOK
  <2>3. \A u \in User : lock'[u] \in {lock[u], Unlocked}
    BY <1>6 DEF RefuseLocked, Unlock, Admit, LogIn, IssueToken, TypeInv, TypeOK
  <2> QED BY <1>1, <1>2, <1>3, <1>4, <2>1, <2>2, <2>3
<1>7. ASSUME NEW t \in Thread, CountFailures(t) PROVE DeservedInv'
  <2>1. UNCHANGED <<lock, attempts>> /\ \A q \in Thread \ {t} : Kept(q)
    BY <1>7 DEF CountFailures, TypeInv, TypeOK
  <2>2. subject[t] \in User
    BY <1>7 DEF CountFailures, TypeInv, TypeOK
  <2>3. /\ pc'[t] = "counted" /\ subject'[t] = subject[t]
        /\ failures'[t] = RecentFailures(subject[t])
    BY <1>7 DEF CountFailures, TypeInv, TypeOK
  <2>4. Failed(subject[t])' = Failed(subject[t])
    BY <2>1, <2>3 DEF Failed
  <2>5. Good(t)
    BY <2>2, <2>3, <2>4, CountIsPart DEF Good
  <2> QED BY <1>1, <1>2, <1>3, <2>1, <2>5
<1>8. ASSUME NEW t \in Thread, Fail(t) PROVE DeservedInv'
  <2>1. \A q \in Thread \ {t} : Kept(q)
    BY <1>8 DEF Fail, Answer, TypeInv, TypeOK
  <2>2. pc'[t] = "idle"
    BY <1>8 DEF Fail, Answer, TypeInv, TypeOK
  <2>3. PICK u \in User : u = subject[t]
    BY <1>8 DEF Fail, TypeInv, TypeOK
  <2>4. \A v \in User : v # u => lock'[v] = lock[v]
    BY <1>8, <2>3 DEF Fail, TypeInv, TypeOK
  <2>5. TooMany(failures[t]) \/ lock'[u] = lock[u]
    BY <1>8 DEF Fail
  <2>6. ASSUME TooMany(failures[t]) PROVE Deserved(lock[u], u)'
    <3>1. lock'[u] = NewLock
      BY <1>8, <2>3, <2>6 DEF Fail, TypeInv, TypeOK
    <3> QED BY <1>8, <2>3, <2>6, <3>1, NewLockDeserved DEF Deserved
  <2> QED BY <1>1, <1>2, <1>3, <1>4, <2>1, <2>2, <2>4, <2>5, <2>6
<1>9. CASE Tick \/ Quiet \/ UNCHANGED vars
  <2>1. UNCHANGED lock /\ \A q \in Thread : Kept(q)
    BY <1>9 DEF Tick, Quiet, vars
  <2> QED BY <1>1, <1>2, <1>3, <2>1
<1> HIDE DEF Kept
<1>10. ASSUME NEW t \in Thread, LoadUser(t) \/ LoadBearer(t) PROVE DeservedInv'
  BY <1>5, <1>10 DEF LoadUser, LoadBearer
<1> QED BY <1>6, <1>7, <1>8, <1>9, <1>10 DEF Next, Serve

\* However many requests overlap and whatever stale copies they hold, the lock turns
\* a user away only after MAX_LOGIN_ATTEMPTS failures, and no longer than the lockout
\* after one of them (routes/auth.py:54-65, auth_middleware.py:74-86).
THEOREM RefusedOnlyForFailures == Spec => RefusedForFailures
<1> DEFINE Refused ==
      \A t \in Thread :
        pc[t] \in {"login", "bearer"} /\ pc'[t] = "idle" =>
          /\ Cardinality(Failed(subject[t])) >= MaxAttempts
          /\ \E k \in Failed(subject[t]) :
               clock < attempts[subject[t]][k].at + Lockout
<1>1. TypeInv /\ DeservedInv /\ [Next]_vars => [Refused]_vars
  <2> SUFFICES ASSUME TypeInv, DeservedInv, Next, NEW t \in Thread,
                      pc[t] \in {"login", "bearer"}, pc'[t] = "idle"
               PROVE  /\ Cardinality(Failed(subject[t])) >= MaxAttempts
                      /\ \E k \in Failed(subject[t]) :
                           clock < attempts[subject[t]][k].at + Lockout
    OBVIOUS
  <2>1. RefuseLocked(t)
    BY DEF Next, Serve, LoadUser, LoadBearer, Load, RefuseLocked, Unlock, Admit, LogIn,
           IssueToken, CountFailures, Fail, Answer, Tick, Quiet, vars, TypeInv, TypeOK
  <2>2. seen[t].locked /\ clock < seen[t].until
    BY <2>1 DEF RefuseLocked, LockRuns
  <2>3. /\ subject[t] \in User /\ clock \in Nat /\ seen[t].until \in Nat
        /\ Deserved(seen[t], subject[t])
    BY DEF TypeInv, TypeOK, LockRow, DeservedInv
  <2>4. \A k \in Failed(subject[t]) : attempts[subject[t]][k].at \in Nat
    BY <2>3 DEF Failed, TypeInv, TypeOK
  <2> QED BY <2>2, <2>3, <2>4, LoginsAssumption DEF Deserved
<1> QED BY <1>1, TypeInit, TypeNext, DeservedInit, DeservedNext, PTL
        DEF Spec, RefusedForFailures
=============================================================================
