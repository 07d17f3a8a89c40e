------------------------------- MODULE MCOtp -------------------------------
(* Small instances of OtpChallenges for TLC. *)
EXTENDS OtpChallenges, TLC

Symmetry == Permutations(Requests)
=============================================================================
