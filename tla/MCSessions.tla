----------------------------- MODULE MCSessions -----------------------------
(***************************************************************************)
(* Sessions for TLC.                                                       *)
(***************************************************************************)
EXTENDS Sessions

MCAccount == 1..2
MCLoan == {3}

\* Two workers let two handlers meet in the database; with one, requests that
\* have a connection can wait for the worker of one that has none.
Postgres ==
  {[engine |-> "postgresql", workers |-> w, connections |-> 2] : w \in 1..2}

\* StaticPool.
Sqlite == {[engine |-> "sqlite", workers |-> 2, connections |-> 1]}

All == Postgres \cup Sqlite
=============================================================================
