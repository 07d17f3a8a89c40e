----------------------------- MODULE MCUpgrade ------------------------------
(* A small instance of Upgrade, and of KeyStore after it, for TLC. *)
EXTENDS Upgrade, TLC

CONSTANTS t1, t2, t3, p1, p2

TwoAndOne == (t1 :> p1) @@ (t2 :> p1) @@ (t3 :> p2)

\* The two threads of one process are alike, and so are the voters.
Symmetry == Permutations({t1, t2}) \cup Permutations(Voters)
=============================================================================
