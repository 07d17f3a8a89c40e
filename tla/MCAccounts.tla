----------------------------- MODULE MCAccounts -----------------------------
(* A small instance of Accounts for TLC. *)
EXTENDS Accounts, TLC

CONSTANTS abc, Abc, xyz

\* Two ways to write one licence, and another licence
Capitals == (abc :> Abc) @@ (Abc :> Abc) @@ (xyz :> xyz)

Symmetry == Permutations(Requests) \cup Permutations(Names) \cup Permutations(Emails)
            \cup Permutations(Sources)
=============================================================================
