------------------------------- MODULE MCLogins -------------------------------
(***************************************************************************)
(* Logins for TLC: two users, and a lockout of two units of time.          *)
(***************************************************************************)
EXTENDS Logins, TLC

Symmetry == Permutations(Thread) \cup Permutations(User)
=============================================================================
