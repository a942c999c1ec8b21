------------------------------- MODULE Ledger -------------------------------
(***************************************************************************)
(* What the bank promises of the money it keeps.  Every account has funds, *)
(* a life (its status) and the net of the successful rows that the         *)
(* transactions table holds for it.  Money moves only by postings that     *)
(* take effect at once on all the accounts they touch, that are entered in *)
(* full, and that touch ACTIVE accounts only.  A fixed deposit may be paid *)
(* out, which closes it, and a CLOSED account stays closed.                *)
(*                                                                         *)
(* The promise is for the accounts that are not in dispute.  Any account   *)
(* may come into dispute, and stays there; of such an account nothing is   *)
(* promised but that its funds are not negative after a posting, and the   *)
(* others keep theirs whatever they exchange with it.                      *)
(***************************************************************************)
EXTENDS Integers

CONSTANTS Account,      \* the accounts
          Opening       \* Opening[a]: the opening balance of account a

VARIABLES funds,        \* funds[a]: the money in account a
          life,         \* life[a]: the status of account a
          posted,       \* posted[a]: net of a's successful transactions
          paid,         \* paid[a]: what was handed out when a was closed
          disputed      \* the accounts that the ledger does not vouch for

ledgerVars == <<funds, life, posted, paid, disputed>>

LedgerInit ==
  /\ funds = Opening
  /\ life = [a \in Account |-> "ACTIVE"]
  /\ posted = [a \in Account |-> 0]
  /\ paid = [a \in Account |-> 0]
  /\ disputed = {}

Vouched == Account \ disputed'

Untouched(a) ==
  /\ funds'[a] = funds[a] /\ life'[a] = life[a]
  /\ posted'[a] = posted[a] /\ paid'[a] = paid[a]

\* A posting: a deposit, a withdrawal, both sides of a transfer, or the
\* interest of many accounts.
Post ==
  /\ \A a \in Account : funds'[a] >= 0
  /\ \A a \in Vouched :
       /\ funds'[a] - funds[a] = posted'[a] - posted[a]
       /\ funds'[a] # funds[a] => life[a] = "ACTIVE"
       /\ life'[a] = life[a] /\ paid'[a] = paid[a]

\* The payout of an ACTIVE account: part of its funds is posted as a penalty
\* and the rest is handed out.
PayOut ==
  \E a \in Vouched :
    /\ life[a] = "ACTIVE" /\ life'[a] = "CLOSED"
    /\ funds'[a] = 0
    /\ \E penalty \in 0 .. funds[a] :
         /\ posted'[a] = posted[a] - penalty
         /\ paid'[a] = paid[a] + (funds[a] - penalty)
    /\ \A b \in Vouched \ {a} : Untouched(b)

\* A manager changes the life of an account that is not CLOSED.
ChangeLife ==
  \E a \in Vouched :
    /\ life[a] # "CLOSED"
    /\ life'[a] \in {"ACTIVE", "DORMANT", "FROZEN", "CLOSED"}
    /\ funds'[a] = funds[a] /\ posted'[a] = posted[a] /\ paid'[a] = paid[a]
    /\ \A b \in Vouched \ {a} : Untouched(b)

LedgerNext ==
  /\ disputed \subseteq disputed'
  /\ Post \/ PayOut \/ ChangeLife

LedgerSpec == LedgerInit /\ [][LedgerNext]_ledgerVars
=============================================================================
