--------------------------- MODULE MCAmortization ---------------------------
(***************************************************************************)
(* Amortization for every principal up to 60, at monthly rates high enough *)
(* for interest to show in balances that small, over the shortest tenures  *)
(* that the schema takes, and for one real loan.                           *)
(***************************************************************************)
EXTENDS Amortization

SmallRates == {<<0, 1>>, <<1, 2>>, <<1, 4>>, <<1, 10>>}

SmallCases ==
  {[p |-> p, num |-> r[1], den |-> r[2], n |-> n, emi |-> Emi(p, r[1], r[2], n)] :
     p \in 1 .. 60, r \in SmallRates, n \in 6 .. 7}

\* A personal loan of 10 rupees over ten years at 12 percent a year, whose
\* EMI is 14.35 paise, rounded up to 15.  (The powers in Emi are beyond TLC's
\* integers here.)
RealCase == {[p |-> 1000, num |-> 1, den |-> 100, n |-> 120, emi |-> 15]}
=============================================================================
