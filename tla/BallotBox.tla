----------------------------- MODULE BallotBox -----------------------------
(***************************************************************************)
(* What the voting core promises, without requests, locks or signatures: an  *)
(* election is prepared, open, then closed; while it is open a voter is      *)
(* granted at most one ballot and the box takes at most as many ballots as   *)
(* were granted; what is published is the count of a box that is shut.       *)
(***************************************************************************)
EXTENDS Integers, FiniteSets

CONSTANTS Voters, Elections, Candidates, InitPhase, Unpublished

VARIABLES phase, granted, box, published

boxvars == <<phase, granted, box, published>>

GrantedIn(e) == {g \in granted : g[2] = e}
BoxOf(e) == {v \in box : v.el = e}
Count(e) == [c \in Candidates |-> Cardinality({v \in BoxOf(e) : v.cand = c})]

BoxInit ==
  /\ phase = InitPhase
  /\ granted = {} /\ box = {}
  /\ published = [e \in Elections |-> Unpublished]

Open(e) ==
  /\ phase[e] = "prepared"
  /\ \A f \in Elections : phase[f] # "open"
  /\ phase' = [phase EXCEPT ![e] = "open"]
  /\ UNCHANGED <<granted, box, published>>

Grant(u, e) ==
  /\ phase[e] = "open" /\ <<u, e>> \notin granted
  /\ granted' = granted \cup {<<u, e>>}
  /\ UNCHANGED <<phase, box, published>>

Cast(e, c) ==
  /\ phase[e] = "open"
  /\ Cardinality(BoxOf(e)) < Cardinality(GrantedIn(e))
  /\ \E tx \in 1 .. Cardinality(box) + 1 :
        /\ \A v \in box : v.tx # tx
        /\ box' = box \cup {[tx |-> tx, el |-> e, cand |-> c]}
  /\ UNCHANGED <<phase, granted, published>>

Close(e) ==
  /\ phase[e] = "open"
  /\ phase' = [phase EXCEPT ![e] = "closed"]
  /\ UNCHANGED <<granted, box, published>>

Publish(e) ==
  /\ phase[e] = "closed" /\ published[e] = Unpublished
  /\ published' = [published EXCEPT ![e] = Count(e)]
  /\ UNCHANGED <<phase, granted, box>>

BoxNext ==
  \/ \E e \in Elections : Open(e) \/ Close(e) \/ Publish(e)
  \/ \E e \in Elections, u \in Voters : Grant(u, e)
  \/ \E e \in Elections, c \in Candidates : Cast(e, c)

BoxSpec == BoxInit /\ [][BoxNext]_boxvars
=============================================================================
