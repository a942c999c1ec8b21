-------------------------------- MODULE Logins --------------------------------
(***************************************************************************)
(* The lockout of users and their tokens: login (routes/auth) counts       *)
(* failed attempts, locks, and hands out tokens; login and                 *)
(* get_current_user (middleware/auth_middleware) unlock a user whose lock  *)
(* has run out.                                                            *)
(*                                                                         *)
(* A request loads the user, may commit an unlock, and a failed login      *)
(* counts the failures that are committed before it commits its own.       *)
(* Which password is right and what a role may do is not modelled.         *)
(***************************************************************************)
EXTENDS Integers, Sequences, FiniteSets

CONSTANTS
  User,           \* the users
  NoUser,         \* the user of a thread that serves none
  Thread,         \* the threads that serve requests
  MaxAttempts,    \* MAX_LOGIN_ATTEMPTS
  Lockout,        \* LOCKOUT_MINUTES, in clock units
  TokenLife,      \* ACCESS_TOKEN_EXPIRE_MINUTES, in clock units
  MaxClock,       \* bound: the clock stops there
  MaxRequests     \* bound: the requests that arrive

ASSUME LoginsAssumption ==
  /\ NoUser \notin User
  /\ MaxAttempts \in Nat \ {0}
  /\ Lockout \in Nat \ {0} /\ TokenLife \in Nat \ {0}
  /\ MaxClock \in Nat /\ MaxRequests \in Nat

VARIABLES
  lock,           \* lock[u]: is_locked and locked_until of user u
  attempts,       \* attempts[u]: its login_attempts, in order
  token,          \* when the newest token of user u expires; 0 if u has none
  pc,             \* how far the request of thread t has come
  subject,        \* the user it is about
  seen,           \* the user's lock, as loaded
  failures,       \* the recent failures that a failed login has counted
  clock,          \* the time
  served,         \* the requests that have arrived
  contended       \* history: the users of whom two requests have been served
                  \*   at the same time

vars == <<lock, attempts, token, pc, subject, seen, failures, clock, served,
          contended>>

PC == {"idle", "login", "bearer", "open", "admitted", "counted", "passed"}

LockRow == [locked : BOOLEAN, until : Nat]

Unlocked == [locked |-> FALSE, until |-> 0]     \* locked_until is NULL

Init ==
  /\ lock = [u \in User |-> Unlocked]
  /\ attempts = [u \in User |-> <<>>]
  /\ token = [u \in User |-> 0]
  /\ pc = [t \in Thread |-> "idle"]
  /\ subject = [t \in Thread |-> NoUser]
  /\ seen = [t \in Thread |-> Unlocked]
  /\ failures = [t \in Thread |-> 0]
  /\ clock = 0
  /\ served = 0
  /\ contended = {}

Answer(t) ==
  /\ pc' = [pc EXCEPT ![t] = "idle"]
  /\ subject' = [subject EXCEPT ![t] = NoUser]
  /\ seen' = [seen EXCEPT ![t] = Unlocked]
  /\ failures' = [failures EXCEPT ![t] = 0]
  /\ UNCHANGED <<clock, served, contended>>

\* A request of u begins: u is looked up.
Load(t, u, stage) ==
  /\ pc[t] = "idle" /\ served < MaxRequests
  /\ subject' = [subject EXCEPT ![t] = u]
  /\ seen' = [seen EXCEPT ![t] = lock[u]]
  /\ pc' = [pc EXCEPT ![t] = stage]
  /\ served' = served + 1
  /\ contended' = contended \cup ({u} \cap {subject[q] : q \in Thread})
  /\ UNCHANGED <<lock, attempts, token, failures, clock>>

LoadUser(t) == \E u \in User : Load(t, u, "login")

\* jwt.decode accepts a token until it expires.
ValidToken(u) == token[u] > 0 /\ clock <= token[u]

\* Every other request brings a token.
LoadBearer(t) == \E u \in User : ValidToken(u) /\ Load(t, u, "bearer")

\* Mutants of LockRuns: every lock is taken to have run out; nothing looks at
\* locked_until.
LockNeverRuns(r) == FALSE

LockRunsOn(r) == r.locked

LockRuns(r) == r.locked /\ clock < r.until

\* 403 while the lock runs.
RefuseLocked(t) ==
  /\ pc[t] \in {"login", "bearer"} /\ LockRuns(seen[t])
  /\ Answer(t)
  /\ UNCHANGED <<lock, attempts, token>>

\* Mutant of Unlock: get_current_user does not look at the lock.
UnlockInLogin(t) ==
  /\ \/ /\ pc[t] = "login" /\ ~LockRuns(seen[t])
        /\ lock' = IF seen[t].locked THEN [lock EXCEPT ![subject[t]] = Unlocked]
                                     ELSE lock
     \/ pc[t] = "bearer" /\ UNCHANGED lock
  /\ seen' = [seen EXCEPT ![t] = Unlocked]
  /\ pc' = [pc EXCEPT ![t] = IF @ = "login" THEN "open" ELSE "admitted"]
  /\ UNCHANGED <<attempts, token, subject, failures, clock, served, contended>>

\* A lock that has run out is removed, in a commit of its own.
Unlock(t) ==
  /\ pc[t] \in {"login", "bearer"} /\ ~LockRuns(seen[t])
  /\ lock' = IF seen[t].locked THEN [lock EXCEPT ![subject[t]] = Unlocked] ELSE lock
  /\ seen' = [seen EXCEPT ![t] = Unlocked]
  /\ pc' = [pc EXCEPT ![t] = IF @ = "login" THEN "open" ELSE "admitted"]
  /\ UNCHANGED <<attempts, token, subject, failures, clock, served, contended>>

\* The user is let in by its token; nothing is recorded.
Admit(t) ==
  /\ pc[t] = "admitted"
  /\ Answer(t)
  /\ UNCHANGED <<lock, attempts, token>>

\* The right password: the attempt is committed ...
LogIn(t) ==
  /\ pc[t] = "open"
  /\ attempts' = [attempts EXCEPT ![subject[t]] =
                    Append(@, [success |-> TRUE, at |-> clock])]
  /\ pc' = [pc EXCEPT ![t] = "passed"]
  /\ UNCHANGED <<lock, token, subject, seen, failures, clock, served, contended>>

\* ... and then the token made.
IssueToken(t) ==
  /\ pc[t] = "passed"
  /\ token' = [token EXCEPT ![subject[t]] = clock + TokenLife]
  /\ Answer(t)
  /\ UNCHANGED <<lock, attempts>>

\* Mutant of RecentFailures: a success makes up for a failure.
FailuresLessSuccesses(u) ==
  Cardinality({k \in DOMAIN attempts[u] : ~attempts[u][k].success})
    - Cardinality({k \in DOMAIN attempts[u] : attempts[u][k].success})

\* The failed attempts of u in the last Lockout units of time.
RecentFailures(u) ==
  Cardinality({k \in DOMAIN attempts[u] :
                 ~attempts[u][k].success /\ attempts[u][k].at + Lockout >= clock})

\* The wrong password: the failures committed so far are counted ...
CountFailures(t) ==
  /\ pc[t] = "open"
  /\ failures' = [failures EXCEPT ![t] = RecentFailures(subject[t])]
  /\ pc' = [pc EXCEPT ![t] = "counted"]
  /\ UNCHANGED <<lock, attempts, token, subject, seen, clock, served, contended>>

\* Mutant of TooMany: the attempt at hand is not counted.
OneTooFew(n) == n >= MaxAttempts

\* The attempt at hand is not committed yet, hence the + 1.
TooMany(n) == n + 1 >= MaxAttempts

NewLock == [locked |-> TRUE, until |-> clock + Lockout]

\* ... the attempt is recorded and, if it is one too many, the user is locked.
Fail(t) ==
  /\ pc[t] = "counted"
  /\ attempts' = [attempts EXCEPT ![subject[t]] =
                    Append(@, [success |-> FALSE, at |-> clock])]
  /\ lock' = IF TooMany(failures[t]) THEN [lock EXCEPT ![subject[t]] = NewLock]
                                     ELSE lock
  /\ Answer(t)
  /\ UNCHANGED token

Tick ==
  /\ clock < MaxClock
  /\ clock' = clock + 1
  /\ UNCHANGED <<lock, attempts, token, pc, subject, seen, failures, served,
                 contended>>

\* All the requests of the run are answered.
Quiet ==
  /\ served = MaxRequests /\ clock = MaxClock
  /\ \A t \in Thread : pc[t] = "idle"
  /\ UNCHANGED vars

Serve(t) ==
  \/ LoadUser(t) \/ LoadBearer(t) \/ RefuseLocked(t) \/ Unlock(t) \/ Admit(t)
  \/ LogIn(t) \/ IssueToken(t) \/ CountFailures(t) \/ Fail(t)

Next == Tick \/ Quiet \/ \E t \in Thread : Serve(t)

Spec == Init /\ [][Next]_vars

-----------------------------------------------------------------------------
\* Properties.

\* Every variable keeps its type; a busy thread is about a user.
TypeOK ==
  /\ lock \in [User -> LockRow]
  /\ \A u \in User : \A k \in DOMAIN attempts[u] :
       attempts[u][k] \in [success : BOOLEAN, at : Nat]
  /\ token \in [User -> Nat]
  /\ pc \in [Thread -> PC]
  /\ subject \in [Thread -> User \cup {NoUser}]
  /\ seen \in [Thread -> LockRow]
  /\ failures \in [Thread -> Nat]
  /\ clock \in Nat /\ served \in Nat /\ contended \subseteq User
  /\ \A t \in Thread : pc[t] # "idle" => subject[t] \in User

\* The failed attempts of u.
Failed(u) == {k \in DOMAIN attempts[u] : ~attempts[u][k].success}

\* Whatever requests run at once, about whomever, the lock turns a user away, with
\* a password or a token, only if it has failed MAX_LOGIN_ATTEMPTS times and the
\* last time less than the lockout ago: who waits the lockout out without another
\* wrong password is let in again (routes/auth.py:54-65, 90-93,
\* auth_middleware.py:74-86).
RefusedForFailures ==
  [][\A t \in Thread :
       pc[t] \in {"login", "bearer"} /\ pc'[t] = "idle" =>
         /\ Cardinality(Failed(subject[t])) >= MaxAttempts
         /\ \E k \in Failed(subject[t]) :
              clock < attempts[subject[t]][k].at + Lockout]_vars

\* Whatever requests run at once, a user of whom no two have, and who is not
\* locked, has had fewer failures in the lockout window than MAX_LOGIN_ATTEMPTS
\* (routes/auth.py:78-93).
FewRecentFailures ==
  \A u \in User \ contended : ~lock[u].locked =>
    Cardinality({k \in DOMAIN attempts[u] :
                   ~attempts[u][k].success /\ attempts[u][k].at + Lockout > clock})
      < MaxAttempts

\* The lock of a user of whom no two requests have run at once lasts its time:
\* no request, of login or with a token, removes it before locked_until.
LockLasts ==
  [][\A u \in User \ contended :
       lock[u].locked /\ clock < lock[u].until => lock'[u] = lock[u]]_vars

\* Nobody gets past such a lock while it runs, with the right password or with a
\* token from before the lock (routes/auth.py:54-60, auth_middleware.py:74-81).
LockedOut ==
  [][\A t \in Thread :
       /\ subject[t] \notin contended
       /\ pc[t] \in {"open", "admitted"} /\ pc'[t] \in {"passed", "idle"}
       => ~LockRuns(lock[subject[t]])]_vars
=============================================================================
