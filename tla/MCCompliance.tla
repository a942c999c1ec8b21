---------------------------- MODULE MCCompliance ----------------------------
(***************************************************************************)
(* Compliance for TLC: a daily limit of 3, amounts from 1 to 5, reports    *)
(* above 3 and flags above 4.                                              *)
(***************************************************************************)
EXTENDS Compliance, TLC

CONSTANTS sav, fd      \* a savings account and a fixed deposit

MCKind == [a \in Account |-> IF a = sav THEN "SAVINGS" ELSE "FIXED_DEPOSIT"]

MCMinBalance == [k \in AccountType |-> IF k = "SAVINGS" THEN 1 ELSE 2]

MCDailyLimit ==
  [k \in AccountType |-> CASE k = "SAVINGS" -> 3
                           [] k = "CURRENT" -> 4
                           [] OTHER -> 0]

MCOpening == [a \in Account |-> IF a = sav THEN 4 ELSE 7]

MCRate == [a \in Account |-> IF a = fd THEN 3 ELSE 2]

Symmetry == Permutations(Thread) \cup Permutations(Reviewer)
=============================================================================
