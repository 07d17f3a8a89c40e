--------------------------- MODULE MCSignedResults --------------------------
(* A small instance of SignedResults for TLC. *)
EXTENDS SignedResults, TLC

CONSTANTS r1, r2, p1, p2

OneEach == (r1 :> p1) @@ (r2 :> p2)

\* Exchanging the processes exchanges their threads.
Exchange == (r1 :> r2) @@ (r2 :> r1) @@ (p1 :> p2) @@ (p2 :> p1)
Symmetry == {Exchange} \cup Permutations(Elections) \cup Permutations(Identities)
=============================================================================
