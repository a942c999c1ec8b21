---------------------------- MODULE AccountTable ----------------------------
(***************************************************************************)
(* The accounts table: the columns of a row that the services read and     *)
(* write, and what the ORM session does with a row.                        *)
(*                                                                         *)
(* A service loads a row, computes new values for some of its attributes   *)
(* in Python, and flushes.  SQLAlchemy then issues an UPDATE that sets      *)
(* only the columns whose value differs from the one that was loaded, and  *)
(* there is neither SELECT ... FOR UPDATE nor a version column: Flush is   *)
(* the effect of that UPDATE on a row that may have moved on meanwhile.    *)
(***************************************************************************)
EXTENDS Integers

\* AccountStatus and AccountType (models/account.py).
Status == {"ACTIVE", "DORMANT", "FROZEN", "CLOSED"}
AccountType == {"SAVINGS", "CURRENT", "FIXED_DEPOSIT"}

\* The columns that decide anything: the balance, the status, the daily
\* withdrawal counter with the UTC day of its last reset, and the instant
\* interest was last credited (the creation of the account at first).
Row == [balance   : Int,
        status    : Status,
        withdrawn : Int,
        resetDay  : Int,
        credited  : Int]

\* What a thread holds for a row it has not loaded.
NoRow == [balance |-> 0, status |-> "CLOSED", withdrawn |-> 0,
          resetDay |-> 0, credited |-> 0]

\* The UPDATE of a session that loaded `old` and leaves `new` in the object,
\* applied to the row `cur` that the table holds by then.
Flush(cur, old, new) ==
  [balance   |-> IF new.balance = old.balance THEN cur.balance ELSE new.balance,
   status    |-> IF new.status = old.status THEN cur.status ELSE new.status,
   withdrawn |-> IF new.withdrawn = old.withdrawn THEN cur.withdrawn
                                                  ELSE new.withdrawn,
   resetDay  |-> IF new.resetDay = old.resetDay THEN cur.resetDay
                                                ELSE new.resetDay,
   credited  |-> IF new.credited = old.credited THEN cur.credited
                                                ELSE new.credited]

\* Mutant of IsActive: only CLOSED accounts are refused.
IsOpen(r) == r.status # "CLOSED"

IsActive(r) == r.status = "ACTIVE"
=============================================================================
