------------------------------ MODULE MCVoting ------------------------------
(* Small instances of Voting for TLC: initial rows, schedules and symmetry.  *)
EXTENDS Voting, TLC

CONSTANTS u1, u2, e1, e2, c1, c2, g1, g2, p1, p2

HomeRegion == [u \in Voters |-> g1]

NoSchedule   == {<<Nil, Nil>>}
\* Closing or opening at a set time, and a window that is empty; without an
\* opening time open_election fills one in, before or after the closing time.
SomeSchedules == {<<Nil, Nil>>, <<Nil, 1>>, <<1, Nil>>, <<1, 1>>}

AllNew   == [e \in Elections |-> "none"]
AllDraft == [e \in Elections |-> "draft"]

Row(e, g) == [el |-> e, region |-> g, position |-> p1]
NoRows  == [c \in Candidates |-> Nil]
OneRow  == [c \in Candidates |-> IF c = c1 THEN Row(e1, g1) ELSE Nil]
\* A candidate outside the voter's region; the other is yet to be added.
ForeignRow == [c \in Candidates |-> IF c = c2 THEN Row(e1, g2) ELSE Nil]

\* The migration gives the first election a receipt for every user marked as
\* having voted, whatever the election's status.
OldReceipt == {<<u2, e1>>}
FirstReceipt == {<<u1, e1>>}

Symmetry == Permutations(Requests) \cup Permutations(Nonces) \cup Permutations(Voters)
\* Where one voter has a receipt and another is still to be reviewed
ReceiptSymmetry == Permutations(Requests) \cup Permutations(Nonces)
=============================================================================
