------------------------------- MODULE MCLoans -------------------------------
(***************************************************************************)
(* Small instances of Loans.  At 25 percent a month a loan of 4 over two   *)
(* months has EMIs of 3 and 2, the last one less than the agreed one: the  *)
(* schedule below is what Amortization computes for it.                    *)
(***************************************************************************)
EXTENDS Loans, TLC

CONSTANTS acc

MCLinked == [l \in Loan |-> acc]

Emi(a, p) == [amount |-> a, principal |-> p]

ScheduleOfTwo == <<Emi(3, 2), Emi(2, 2)>>

Symmetry == Permutations(Thread) \cup Permutations(Loan)
=============================================================================
