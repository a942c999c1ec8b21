----------------------------- MODULE MCAccounts -----------------------------
(***************************************************************************)
(* Small instances of Accounts: one paisa of the model stands for a large  *)
(* amount, so that floors, limits, interest and penalties all happen with  *)
(* balances of a few units.                                                *)
(***************************************************************************)
EXTENDS Accounts, TLC

CONSTANTS sav, cur, fd      \* a savings, a current and a fixed deposit account

MCKind ==
  [a \in Account |-> CASE a = sav -> "SAVINGS"
                       [] a = cur -> "CURRENT"
                       [] OTHER -> "FIXED_DEPOSIT"]

MCMinBalance == [k \in AccountType |-> IF k = "SAVINGS" THEN 1 ELSE 2]

MCDailyLimit ==
  [k \in AccountType |-> CASE k = "SAVINGS" -> 3
                           [] k = "CURRENT" -> 4
                           [] OTHER -> 0]

MCOpening ==
  [a \in Account |-> CASE a = sav -> 4 [] a = cur -> 7 [] OTHER -> 5]

\* At the rate of the model one unit of interest a day needs a balance of 3
\* in a savings account and of 2 in a fixed deposit.
MCRate == [a \in Account |-> CASE a = fd -> 3 [] OTHER -> 2]

ThreadSymmetry == Permutations(Thread)
=============================================================================
