---------------------------- MODULE MCCustomers ----------------------------
(***************************************************************************)
(* Customers for TLC, with the symmetries of its sets of model values.     *)
(***************************************************************************)
EXTENDS Customers, TLC

Symmetric == Permutations(Thread) \cup Permutations(Customer)
               \cup Permutations(User)
=============================================================================
