---------------------------- MODULE VotingProofs ----------------------------
(***************************************************************************)
(* Theorems about Voting, for every value of its constants: the types, and  *)
(* what the row locks of MySQL are for.  With them what a handler checked is*)
(* still true when it commits; ChecksOutliveWaits is the inductive invariant*)
(* that says so.                                                            *)
(***************************************************************************)
EXTENDS Voting, FiniteSetTheorems, TLAPS

TxnTypes == /\ DOMAIN txn = Requests
            /\ \A r \in Requests : TxnShape(txn[r]) /\ TxnOK(txn[r])

(* A new well-formed value of one request keeps all of them well-formed.     *)
LEMMA TxnStep ==
  ASSUME TypeOK, NEW r \in Requests, NEW t, TxnShape(t), TxnOK(t),
         txn' = [txn EXCEPT ![r] = t]
  PROVE  TxnTypes'
BY DEF TypeOK, TxnTypes

(* A step that writes no table only has to keep the requests well-formed.    *)
LEMMA NoWrite ==
  ASSUME TypeOK, UNCHANGED <<db, outside>>, TxnTypes'
  PROVE  TypeOK'
BY DEF TypeOK, TxnTypes, db, outside

LEMMA IdleOK == TxnShape(Idle) /\ TxnOK(Idle)
BY DEF TxnShape, TxnOK, Idle

LEMMA RollbackType ==
  ASSUME TypeOK, NEW r \in Requests, Rollback(r)
  PROVE  TypeOK'
<1>1. TxnTypes'
  BY IdleOK, TxnStep DEF Rollback
<1> QED
  BY <1>1, NoWrite DEF Rollback

(* What the query operators return.                                          *)
LEMMA ContestsType ==
  ASSUME TypeOK, NEW e \in Elections
  PROVE  ContestsOf(e) \subseteq Contests
BY DEF TypeOK, ContestsOf, Roster, Rows, Contests

LEMMA TallyType ==
  ASSUME TypeOK, NEW e \in Elections
  PROVE  IsTally(Tally(e))
<1>1. ASSUME NEW c PROVE Cardinality({v \in VotesIn(e) : v.cand = c}) \in Nat
  <2>1. IsFiniteSet(votes) /\ {v \in VotesIn(e) : v.cand = c} \subseteq votes
    BY DEF TypeOK, VotesIn
  <2> QED
    BY <2>1, FS_Subset, FS_CardinalityType
<1>2. Tally(e) \in [Roster(e) -> Nat]
  BY <1>1 DEF Tally
<1>3. DOMAIN Tally(e) = Roster(e) /\ Roster(e) \subseteq Candidates
  BY DEF Tally, Roster
<1> QED
  BY <1>2, <1>3 DEF IsTally

LEMMA NextTxType ==
  ASSUME TypeOK
  PROVE  NextTx \in Nat
BY FS_CardinalityType DEF TypeOK, NextTx

LEMMA TypeInit == Init => TypeOK
<1> SUFFICES ASSUME Init PROVE TypeOK
  OBVIOUS
<1>1. now \in Times /\ lost \in 0..MaxLost
  BY BoundsAssumption DEF Init, Times
<1>2. IsFiniteSet(votes) /\ IsFiniteSet(spent)
  BY FS_EmptySet DEF Init
<1>3. TxnTypes
  BY IdleOK DEF Init, TxnTypes
<1> QED
  BY <1>1, <1>2, <1>3, TableAssumption
     DEF Init, TypeOK, TxnTypes, Statuses, MaybeTime, Accounts

-----------------------------------------------------------------------------
(* Arriving requests.                                                        *)

LEMMA TypeArrive ==
  ASSUME TypeOK, NEW r \in Requests, Arrive(r)
  PROVE  TypeOK'
<1>1. ASSUME NEW e \in Elections, NEW times \in Schedules, CreateElection(r, e, times)
      PROVE  TypeOK'
  <2> DEFINE t == [Idle EXCEPT !.op = "create", !.pc = "done", !.el = e]
  <2>1. TxnShape(t) /\ TxnOK(t)
    BY DEF TxnShape, TxnOK, Idle
  <2>2. TxnTypes'
    BY <1>1, <2>1, TxnStep DEF CreateElection, Begin
  <2>3. times[1] \in MaybeTime /\ times[2] \in MaybeTime
    BY TableAssumption
  <2> QED
    BY <1>1, <2>2, <2>3 DEF CreateElection, TypeOK, TxnTypes, outside, Statuses
<1>2. ASSUME NEW e \in Elections, OpenElection(r, e)
      PROVE  TypeOK'
  <2> DEFINE t == [Idle EXCEPT !.op = "open", !.pc = "ready", !.el = e,
                               !.arg = OpeningTime(e)]
  <2>1. OpeningTime(e) \in Times
    BY DEF TypeOK, OpeningTime, MaybeTime
  <2>2. TxnShape(t) /\ TxnOK(t)
    BY <2>1 DEF TxnShape, TxnOK, Idle
  <2>3. TxnTypes'
    BY <1>2, <2>2, TxnStep DEF OpenElection, Begin
  <2> QED
    BY <1>2, <2>3, NoWrite DEF OpenElection
<1>3. ASSUME NEW e \in Elections, CloseElection(r, e)
      PROVE  TypeOK'
  <2> DEFINE t == [Idle EXCEPT !.op = "close", !.pc = "ready", !.el = e,
                               !.arg = now]
  <2>1. TxnShape(t) /\ TxnOK(t)
    BY DEF TxnShape, TxnOK, Idle, TypeOK
  <2>2. TxnTypes'
    BY <1>3, <2>1, TxnStep DEF CloseElection, Begin
  <2> QED
    BY <1>3, <2>2, NoWrite DEF CloseElection
<1>4. ASSUME NEW e \in Elections, SignResults(r, e)
      PROVE  TypeOK'
  <2> DEFINE t == [Idle EXCEPT !.op = "sign", !.pc = "ready", !.el = e,
                               !.seen = Tally(e)]
  <2>1. TxnShape(t) /\ TxnOK(t)
    BY TallyType DEF TxnShape, TxnOK, Idle
  <2>2. TxnTypes'
    BY <1>4, <2>1, TxnStep DEF SignResults, Begin
  <2> QED
    BY <1>4, <2>2, NoWrite DEF SignResults
<1>5. ASSUME NEW e \in Elections, NEW c \in Candidates, NEW g \in Regions,
             NEW p \in Positions, NEW scope \in Scopes,
             AddCandidate(r, e, c, g, p, scope)
      PROVE  TypeOK'
  <2> DEFINE a == [scope |-> scope, region |-> g, position |-> p]
             t == [Idle EXCEPT !.op = "add", !.pc = "ready", !.el = e,
                               !.cand = c, !.arg = a]
  <2>1. a \in NewRows
    BY DEF NewRows
  <2>2. TxnShape(t) /\ TxnOK(t)
    BY <2>1 DEF TxnShape, TxnOK, Idle
  <2>3. TxnTypes'
    BY <1>5, <2>2, TxnStep DEF AddCandidate, Begin
  <2> QED
    BY <1>5, <2>3, NoWrite DEF AddCandidate
<1>6. ASSUME NEW op \in {"edit", "drop"}, NEW c \in Candidates,
             NEW g \in Regions \cup {Keep}, NEW p \in Positions \cup {Keep},
             NEW scope \in Scopes, LockCandidate(r, op, c, g, p, scope)
      PROVE  TypeOK'
  <2> DEFINE a == [scope |-> scope, region |-> g, position |-> p]
             t == [Idle EXCEPT !.op = op, !.pc = "candidate", !.cand = c,
                               !.el = row[c].el, !.seen = row[c].region, !.arg = a]
  <2>1. a \in RowChanges /\ row[c].el \in Elections /\ row[c].region \in Regions
    BY <1>6 DEF RowChanges, LockCandidate, Rows
  <2>2. TxnShape(t) /\ TxnOK(t)
    BY <2>1 DEF TxnShape, TxnOK, Idle
  <2>3. TxnTypes'
    BY <1>6, <2>2, TxnStep DEF LockCandidate, Begin
  <2> QED
    BY <1>6, <2>3, NoWrite DEF LockCandidate
<1>7. ASSUME NEW u \in Voters, NEW e \in Elections, NEW b \in Ballots,
             RequestToken(r, u, e, b)
      PROVE  TypeOK'
  <2> DEFINE t == [Idle EXCEPT !.op = "token", !.pc = "begun", !.user = u,
                     !.el = e, !.arg = b,
                     !.seen = IF SnapshotReads THEN ContestsOf(e) ELSE Nil]
  <2>1. TxnShape(t) /\ TxnOK(t)
    BY ContestsType DEF TxnShape, TxnOK, Idle
  <2>2. TxnTypes'
    BY <1>7, <2>1, TxnStep DEF RequestToken, Begin
  <2> QED
    BY <1>7, <2>2, NoWrite DEF RequestToken
<1>8. ASSUME NEW b \in Ballots, CastBallot(r, b)
      PROVE  TypeOK'
  <2> DEFINE t == [Idle EXCEPT !.op = "cast", !.pc = "ready", !.el = b.el,
                               !.cand = b.cand, !.arg = b.nonce]
  <2>1. b.el \in Elections /\ b.cand \in Candidates /\ b.nonce \in Nonces
    BY DEF Ballots
  <2>2. TxnShape(t) /\ TxnOK(t)
    BY <2>1 DEF TxnShape, TxnOK, Idle
  <2>3. TxnTypes'
    BY <1>8, <2>2, TxnStep DEF CastBallot, Begin
  <2> QED
    BY <1>8, <2>3, NoWrite DEF CastBallot
<1>9. ASSUME NEW op \in {"approve", "reject"}, NEW u \in Reviewed,
             ReviewAccount(r, op, u)
      PROVE  TypeOK'
  <2> DEFINE t == [Idle EXCEPT !.op = op, !.pc = "ready", !.user = u,
                               !.seen = <<account[u], enrolled[u]>>]
  <2>1. u \in Voters
    BY TableAssumption
  <2>2. <<account[u], enrolled[u]>> \in Accounts \X BOOLEAN
    BY <2>1 DEF TypeOK
  <2>3. TxnShape(t) /\ TxnOK(t)
    BY <2>1, <2>2 DEF TxnShape, TxnOK, Idle
  <2>4. TxnTypes'
    BY <1>9, <2>3, TxnStep DEF ReviewAccount, Begin
  <2> QED
    BY <1>9, <2>4, NoWrite DEF ReviewAccount
<1> QED
  BY <1>1, <1>2, <1>3, <1>4, <1>5, <1>6, <1>7, <1>8, <1>9 DEF Arrive

-----------------------------------------------------------------------------
(* Requests inside their handlers.                                           *)

LEMMA TypeAdmin ==
  ASSUME TypeOK, NEW r \in Requests,
         \/ CommitOpen(r) \/ CommitClose(r) \/ CommitAdd(r)
         \/ CheckRosterChange(r) \/ CommitEdit(r) \/ CommitDrop(r)
  PROVE  TypeOK'
<1> DEFINE done == [txn[r] EXCEPT !.pc = "done"]
           ready == [txn[r] EXCEPT !.pc = "ready"]
<1>1. CASE CommitOpen(r)
  <2>1. /\ TxnShape(done) /\ TxnOK(done)
        /\ txn[r].el \in Elections /\ txn[r].arg \in Times
    BY <1>1 DEF TypeOK, TxnShape, TxnOK, Idle, CommitOpen
  <2>2. TxnTypes'
    BY <1>1, <2>1, TxnStep DEF CommitOpen, Goto
  <2> QED
    BY <1>1, <2>1, <2>2 DEF CommitOpen, TypeOK, TxnTypes, outside, Statuses, MaybeTime
<1>2. CASE CommitClose(r)
  <2>1. /\ TxnShape(done) /\ TxnOK(done)
        /\ txn[r].el \in Elections /\ txn[r].arg \in Times
    BY <1>2 DEF TypeOK, TxnShape, TxnOK, Idle, CommitClose
  <2>2. TxnTypes'
    BY <1>2, <2>1, TxnStep DEF CommitClose, Goto
  <2> QED
    BY <1>2, <2>1, <2>2 DEF CommitClose, TypeOK, TxnTypes, outside, Statuses, MaybeTime
<1>3. CASE CommitAdd(r)
  <2>1. /\ TxnShape(done) /\ TxnOK(done)
        /\ txn[r].el \in Elections /\ txn[r].cand \in Candidates
        /\ txn[r].arg \in NewRows
    BY <1>3 DEF TypeOK, TxnShape, TxnOK, Idle, CommitAdd
  <2>2. TxnTypes'
    BY <1>3, <2>1, TxnStep DEF CommitAdd, Goto
  <2>3. [el |-> txn[r].el, region |-> txn[r].arg.region,
         position |-> txn[r].arg.position] \in Rows
    BY <2>1 DEF Rows, NewRows
  <2> QED
    BY <1>3, <2>1, <2>2, <2>3 DEF CommitAdd, TypeOK, TxnTypes, outside
<1>4. CASE CheckRosterChange(r)
  <2>1. TxnShape(ready) /\ TxnOK(ready)
    BY <1>4 DEF TypeOK, TxnShape, TxnOK, Idle, CheckRosterChange
  <2>2. TxnTypes'
    BY <1>4, <2>1, TxnStep DEF CheckRosterChange, Goto
  <2> QED
    BY <1>4, <2>2, NoWrite DEF CheckRosterChange
<1>5. CASE CommitEdit(r)
  <2>1. /\ TxnShape(done) /\ TxnOK(done)
        /\ txn[r].cand \in Candidates /\ txn[r].arg \in RowChanges
    BY <1>5 DEF TypeOK, TxnShape, TxnOK, Idle, CommitEdit
  <2>2. TxnTypes'
    BY <1>5, <2>1, TxnStep DEF CommitEdit, Goto
  <2>3. ASSUME NEW old \in Rows PROVE Edited(old, txn[r].arg) \in Rows
    BY <2>1 DEF Edited, Rows, RowChanges
  <2> QED
    BY <1>5, <2>1, <2>2, <2>3 DEF CommitEdit, TypeOK, TxnTypes, outside
<1>6. CASE CommitDrop(r)
  <2>1. TxnShape(done) /\ TxnOK(done) /\ txn[r].cand \in Candidates
    BY <1>6 DEF TypeOK, TxnShape, TxnOK, Idle, CommitDrop
  <2>2. TxnTypes'
    BY <1>6, <2>1, TxnStep DEF CommitDrop, Goto
  <2>3. votes' \subseteq votes /\ IsFiniteSet(votes')
    BY <1>6, FS_Subset DEF CommitDrop, TypeOK
  <2> QED
    BY <1>6, <2>1, <2>2, <2>3 DEF CommitDrop, TypeOK, TxnTypes, outside
<1> QED
  BY <1>1, <1>2, <1>3, <1>4, <1>5, <1>6

LEMMA TypeBallot ==
  ASSUME TypeOK, NEW r \in Requests,
         \/ ShareOpenElection(r) \/ AuthorizeVoter(r) \/ CommitToken(r)
         \/ CommitCast(r) \/ CommitReview(r) \/ CommitSign(r)
  PROVE  TypeOK'
<1> DEFINE done == [txn[r] EXCEPT !.pc = "done"]
<1>1. CASE ShareOpenElection(r)
  <2> DEFINE t == [txn[r] EXCEPT !.pc = "election"]
  <2>1. TxnShape(t) /\ TxnOK(t)
    BY <1>1 DEF TypeOK, TxnShape, TxnOK, Idle, ShareOpenElection
  <2>2. TxnTypes'
    BY <1>1, <2>1, TxnStep DEF ShareOpenElection, Goto
  <2> QED
    BY <1>1, <2>2, NoWrite DEF ShareOpenElection
<1>2. CASE AuthorizeVoter(r)
  <2> DEFINE t == [txn[r] EXCEPT !.pc = "ready"]
  <2>1. TxnShape(t) /\ TxnOK(t)
    BY <1>2 DEF TypeOK, TxnShape, TxnOK, Idle, AuthorizeVoter
  <2>2. TxnTypes'
    BY <1>2, <2>1, TxnStep DEF AuthorizeVoter, Goto
  <2> QED
    BY <1>2, <2>2, NoWrite DEF AuthorizeVoter
<1>3. CASE CommitToken(r)
  <2>1. /\ TxnShape(done) /\ TxnOK(done)
        /\ txn[r].user \in Voters /\ txn[r].el \in Elections
    BY <1>3 DEF TypeOK, TxnShape, TxnOK, Idle, CommitToken
  <2>2. TxnTypes'
    BY <1>3, <2>1, TxnStep DEF CommitToken, Goto
  <2> QED
    BY <1>3, <2>1, <2>2 DEF CommitToken, TypeOK, TxnTypes, outside
<1>4. CASE CommitCast(r)
  <2> DEFINE t == [txn[r] EXCEPT !.pc = "done", !.seen = NextTx]
             vote == [tx |-> NextTx, el |-> txn[r].el, cand |-> txn[r].cand]
             null == [tx |-> NextTx, el |-> txn[r].el, nonce |-> txn[r].arg]
  <2>1. /\ TxnShape(t) /\ TxnOK(t)
        /\ txn[r].el \in Elections /\ txn[r].cand \in Candidates
        /\ txn[r].arg \in Nonces
    BY <1>4, NextTxType DEF TypeOK, TxnShape, TxnOK, Idle, CommitCast
  <2>2. txn' = [txn EXCEPT ![r] = t]
    BY <1>4 DEF CommitCast
  <2>3. TxnTypes'
    BY <2>1, <2>2, TxnStep
  <2>4. votes' = votes \cup {vote} /\ spent' = spent \cup {null}
    BY <1>4 DEF CommitCast
  <2>5. IsFiniteSet(votes') /\ IsFiniteSet(spent')
    BY <2>4, FS_AddElement DEF TypeOK
  <2> QED
    BY <1>4, <2>1, <2>3, <2>4, <2>5, NextTxType DEF CommitCast, TypeOK, TxnTypes, outside
<1>5. CASE CommitReview(r)
  <2>1. TxnShape(done) /\ TxnOK(done) /\ txn[r].user \in Voters
    BY <1>5 DEF TypeOK, TxnShape, TxnOK, Idle, CommitReview
  <2>2. TxnTypes'
    BY <1>5, <2>1, TxnStep DEF CommitReview, Goto
  <2>3. account' \in [Voters -> Accounts]
    BY <1>5, <2>1 DEF CommitReview, TypeOK, Accounts
  <2>4. enrolled' \in [Voters -> BOOLEAN]
    BY <1>5, <2>1, Zenon DEF CommitReview, TypeOK
  <2> QED
    BY <1>5, <2>2, <2>3, <2>4 DEF CommitReview, TypeOK, TxnTypes, outside
<1>6. CASE CommitSign(r)
  <2>1. /\ TxnShape(done) /\ TxnOK(done)
        /\ txn[r].el \in Elections /\ IsTally(txn[r].seen)
    BY <1>6 DEF TypeOK, TxnShape, TxnOK, Idle, CommitSign
  <2>2. TxnTypes'
    BY <1>6, <2>1, TxnStep DEF CommitSign, Goto
  <2>3. DOMAIN signed' = Elections
    BY <1>6 DEF CommitSign, TypeOK
  <2>4. \A e \in Elections : signed'[e] # Nil => IsTally(signed'[e])
    BY <1>6, <2>1 DEF CommitSign, TypeOK
  <2> QED
    BY <1>6, <2>2, <2>3, <2>4 DEF CommitSign, TypeOK, TxnTypes, outside
<1> QED
  BY <1>1, <1>2, <1>3, <1>4, <1>5, <1>6

LEMMA TypeReturn ==
  ASSUME TypeOK, NEW r \in Requests,
         (\E delivered, logged \in BOOLEAN : Finish(r, delivered, logged)) \/ LoseWorker(r)
  PROVE  TypeOK'
<1>1. TxnTypes'
  BY IdleOK, TxnStep DEF Finish, LoseWorker
<1>2. wallet' \subseteq [user : Voters, el : Elections, ballot : Ballots]
  <2>1. txn[r].op = "token" =>
          Unblinded(txn[r]) \in [user : Voters, el : Elections, ballot : Ballots]
    BY DEF TypeOK, TxnOK, Idle, Unblinded
  <2> QED
    BY <2>1 DEF TypeOK, Finish, Received, LoseWorker
<1>3. lost' \in 0..MaxLost
  BY BoundsAssumption DEF TypeOK, Finish, LoseWorker
<1> QED
  BY <1>1, <1>2, <1>3 DEF Finish, LoseWorker, TypeOK, TxnTypes, db

(* Every table keeps the shape its columns declare (app/models.py), and      *)
(* every request carries what its handler has read.                          *)
THEOREM TypeCorrect == Spec => []TypeOK
<1>1. TypeOK /\ [Next]_vars => TypeOK'
  <2> SUFFICES ASSUME TypeOK, [Next]_vars PROVE TypeOK'
    OBVIOUS
  <2>1. ASSUME NEW r \in Requests, Arrive(r) PROVE TypeOK'
    BY <2>1, TypeArrive
  <2>2. ASSUME NEW r \in Requests, Proceed(r) PROVE TypeOK'
    <3>1. CASE \/ RefuseRosterChange(r) \/ RefuseToken(r)
               \/ RefuseCast(r) \/ RefuseSign(r)
      BY <3>1, RollbackType
         DEF RefuseRosterChange, RefuseToken, RefuseCast, RefuseSign
    <3> QED
      BY <2>2, <3>1, TypeAdmin, TypeBallot, TypeReturn DEF Proceed
  <2>3. ASSUME NEW r \in Requests, Fail(r) PROVE TypeOK'
    BY <2>3, RollbackType DEF Fail
  <2>4. ASSUME NEW r \in Requests, LoseWorker(r) PROVE TypeOK'
    BY <2>4, TypeReturn
  <2>5. ASSUME NEW u \in Reviewed, VerifyEmail(u) PROVE TypeOK'
    <3>1. verified' \in [Voters -> BOOLEAN]
      BY <2>5 DEF VerifyEmail, TypeOK
    <3> QED
      BY <2>5, <3>1 DEF VerifyEmail, TypeOK, outside
  <2>6. CASE Tick
    BY <2>6, BoundsAssumption DEF Tick, TypeOK, db, Times
  <2>7. CASE UNCHANGED vars
    BY <2>7 DEF vars, TypeOK
  <2> QED
    BY <2>1, <2>2, <2>3, <2>4, <2>5, <2>6, <2>7 DEF Next
<1> QED
  BY <1>1, TypeInit, PTL DEF Spec

-----------------------------------------------------------------------------
(* Locks.                                                                    *)

(* A request that only gives locks up, or takes those it could have, keeps   *)
(* the exclusion.                                                            *)
LEMMA LockStep ==
  ASSUME RowLocks, TypeOK, LockExclusion, NEW r \in Requests, NEW t,
         txn' = [txn EXCEPT ![r] = t],
         \A e \in Elections :
           /\ OwnsElection(r, e)' => OwnsElection(r, e) \/ CanOwnElection(r, e)
           /\ SharesElection(r, e)' => SharesElection(r, e) \/ CanShareElection(r, e)
  PROVE  LockExclusion'
<1> SUFFICES ASSUME NEW p \in Requests, NEW q \in Requests, NEW e \in Elections,
                    p # q, OwnsElection(p, e)'
             PROVE  ~OwnsElection(q, e)' /\ ~SharesElection(q, e)'
  BY DEF LockExclusion
<1>1. \A s \in Requests \ {r} : txn'[s] = txn[s]
  BY DEF TypeOK
<1>2. \A s \in Requests \ {r} :
        /\ OwnsElection(s, e)' <=> OwnsElection(s, e)
        /\ SharesElection(s, e)' <=> SharesElection(s, e)
  BY <1>1 DEF OwnsElection, SharesElection
<1>3. CASE p = r
  BY <1>2, <1>3 DEF LockExclusion, CanOwnElection
<1>4. CASE q = r
  BY <1>2, <1>4 DEF LockExclusion, CanOwnElection, CanShareElection
<1>5. CASE p # r /\ q # r
  BY <1>2, <1>5 DEF LockExclusion
<1> QED
  BY <1>3, <1>4, <1>5

(* A request that ends, or is past its commit, holds no lock.                *)
LEMMA NoLockStep ==
  ASSUME RowLocks, TypeOK, LockExclusion, NEW r \in Requests, NEW t,
         txn' = [txn EXCEPT ![r] = t], t.pc \in {"idle", "begun", "candidate", "done"}
  PROVE  LockExclusion'
<1>1. txn'[r] = t
  BY DEF TypeOK
<1>2. \A e \in Elections : ~OwnsElection(r, e)' /\ ~SharesElection(r, e)'
  BY <1>1 DEF OwnsElection, SharesElection
<1> QED
  BY <1>2, LockStep

(* Commits and answers release; so do refusals.                              *)
Releases(r) == \/ txn' = [txn EXCEPT ![r] = Idle]
               \/ txn' = [txn EXCEPT ![r].pc = "done"]
               \/ txn' = [txn EXCEPT ![r].pc = "done", ![r].seen = NextTx]

LEMMA ReleaseStep ==
  ASSUME RowLocks, TypeOK, LockExclusion, NEW r \in Requests, Releases(r)
  PROVE  LockExclusion'
<1>1. CASE txn' = [txn EXCEPT ![r] = Idle]
  BY <1>1, NoLockStep DEF Idle
<1>2. CASE txn' = [txn EXCEPT ![r].pc = "done"]
  <2> DEFINE t == [txn[r] EXCEPT !.pc = "done"]
  <2>1. t.pc = "done" /\ txn' = [txn EXCEPT ![r] = t]
    BY <1>2 DEF TypeOK, TxnShape
  <2> QED
    BY <2>1, NoLockStep
<1>3. CASE txn' = [txn EXCEPT ![r].pc = "done", ![r].seen = NextTx]
  <2> DEFINE t == [txn[r] EXCEPT !.pc = "done", !.seen = NextTx]
  <2>1. t.pc = "done" /\ txn' = [txn EXCEPT ![r] = t]
    BY <1>3 DEF TypeOK, TxnShape
  <2> QED
    BY <2>1, NoLockStep
<1> QED
  BY <1>1, <1>2, <1>3 DEF Releases

LEMMA ExclusionArrive ==
  ASSUME RowLocks, TypeOK, LockExclusion, NEW r \in Requests, Arrive(r)
  PROVE  LockExclusion'
<1>1. ASSUME NEW e \in Elections, NEW times \in Schedules, CreateElection(r, e, times)
      PROVE  LockExclusion'
  <2> DEFINE t == [Idle EXCEPT !.op = "create", !.pc = "done", !.el = e]
  <2> QED
    BY <1>1, NoLockStep DEF CreateElection, Begin, Idle
<1>2. ASSUME NEW e \in Elections, OpenElection(r, e)
      PROVE  LockExclusion'
  <2> DEFINE t == [Idle EXCEPT !.op = "open", !.pc = "ready", !.el = e,
                               !.arg = OpeningTime(e)]
  <2>0. t.op = "open" /\ t.pc = "ready" /\ t.el = e
    BY DEF Idle
  <2>1. txn' = [txn EXCEPT ![r] = t] /\ txn'[r] = t
    BY <1>2 DEF OpenElection, Begin, TypeOK
  <2> HIDE DEF t
  <2>2. \A f \in Elections : CanOwnElection(r, f) /\ ~SharesElection(r, f)'
    BY <2>0, <1>2, <2>1 DEF OpenElection, SharesElection
  <2>9. \A f \in Elections :
          /\ OwnsElection(r, f)' => OwnsElection(r, f) \/ CanOwnElection(r, f)
          /\ SharesElection(r, f)' => SharesElection(r, f) \/ CanShareElection(r, f)
    BY <2>2
  <2> QED
    BY <2>1, <2>9, LockStep
<1>3. ASSUME NEW e \in Elections, CloseElection(r, e)
      PROVE  LockExclusion'
  <2> DEFINE t == [Idle EXCEPT !.op = "close", !.pc = "ready", !.el = e,
                               !.arg = now]
  <2>0. t.op = "close" /\ t.pc = "ready" /\ t.el = e
    BY DEF Idle
  <2>1. txn' = [txn EXCEPT ![r] = t] /\ txn'[r] = t
    BY <1>3 DEF CloseElection, Begin, TypeOK
  <2> HIDE DEF t
  <2>2. \A f \in Elections : (OwnsElection(r, f)' => f = e) /\ ~SharesElection(r, f)'
    BY <2>0, <2>1 DEF OwnsElection, SharesElection
  <2>9. \A f \in Elections :
          /\ OwnsElection(r, f)' => OwnsElection(r, f) \/ CanOwnElection(r, f)
          /\ SharesElection(r, f)' => SharesElection(r, f) \/ CanShareElection(r, f)
    BY <1>3, <2>2 DEF CloseElection
  <2> QED
    BY <2>1, <2>9, LockStep
<1>4. ASSUME NEW e \in Elections, SignResults(r, e)
      PROVE  LockExclusion'
  <2> DEFINE t == [Idle EXCEPT !.op = "sign", !.pc = "ready", !.el = e,
                               !.seen = Tally(e)]
  <2>0. t.op = "sign" /\ t.pc = "ready" /\ t.el = e
    BY DEF Idle
  <2>1. txn' = [txn EXCEPT ![r] = t] /\ txn'[r] = t
    BY <1>4 DEF SignResults, Begin, TypeOK
  <2> HIDE DEF t
  <2>2. \A f \in Elections : (OwnsElection(r, f)' => f = e) /\ ~SharesElection(r, f)'
    BY <2>0, <2>1 DEF OwnsElection, SharesElection
  <2>9. \A f \in Elections :
          /\ OwnsElection(r, f)' => OwnsElection(r, f) \/ CanOwnElection(r, f)
          /\ SharesElection(r, f)' => SharesElection(r, f) \/ CanShareElection(r, f)
    BY <1>4, <2>2 DEF SignResults
  <2> QED
    BY <2>1, <2>9, LockStep
<1>5. ASSUME NEW e \in Elections, NEW c \in Candidates, NEW g \in Regions,
             NEW p \in Positions, NEW scope \in Scopes,
             AddCandidate(r, e, c, g, p, scope)
      PROVE  LockExclusion'
  <2> DEFINE t == [Idle EXCEPT !.op = "add", !.pc = "ready", !.el = e, !.cand = c,
                     !.arg = [scope |-> scope, region |-> g, position |-> p]]
  <2>0. t.op = "add" /\ t.pc = "ready" /\ t.el = e
    BY DEF Idle
  <2>1. txn' = [txn EXCEPT ![r] = t] /\ txn'[r] = t
    BY <1>5 DEF AddCandidate, Begin, TypeOK
  <2> HIDE DEF t
  <2>2. \A f \in Elections : (OwnsElection(r, f)' => f = e) /\ ~SharesElection(r, f)'
    BY <2>0, <2>1 DEF OwnsElection, SharesElection
  <2>9. \A f \in Elections :
          /\ OwnsElection(r, f)' => OwnsElection(r, f) \/ CanOwnElection(r, f)
          /\ SharesElection(r, f)' => SharesElection(r, f) \/ CanShareElection(r, f)
    BY <1>5, <2>2 DEF AddCandidate
  <2> QED
    BY <2>1, <2>9, LockStep
<1>6. ASSUME NEW op \in {"edit", "drop"}, NEW c \in Candidates,
             NEW g \in Regions \cup {Keep}, NEW p \in Positions \cup {Keep},
             NEW scope \in Scopes, LockCandidate(r, op, c, g, p, scope)
      PROVE  LockExclusion'
  <2> DEFINE t == [Idle EXCEPT !.op = op, !.pc = "candidate", !.cand = c,
                     !.el = row[c].el, !.seen = row[c].region,
                     !.arg = [scope |-> scope, region |-> g, position |-> p]]
  <2>1. t.pc = "candidate" /\ txn' = [txn EXCEPT ![r] = t]
    BY <1>6 DEF LockCandidate, Begin, Idle
  <2> HIDE DEF t
  <2> QED
    BY <2>1, NoLockStep
<1>7. ASSUME NEW u \in Voters, NEW e \in Elections, NEW b \in Ballots,
             RequestToken(r, u, e, b)
      PROVE  LockExclusion'
  <2> DEFINE t == [Idle EXCEPT !.op = "token", !.pc = "begun", !.user = u,
                     !.el = e, !.arg = b,
                     !.seen = IF SnapshotReads THEN ContestsOf(e) ELSE Nil]
  <2>1. t.pc = "begun" /\ txn' = [txn EXCEPT ![r] = t]
    BY <1>7 DEF RequestToken, Begin, Idle
  <2> HIDE DEF t
  <2> QED
    BY <2>1, NoLockStep
<1>8. ASSUME NEW b \in Ballots, CastBallot(r, b)
      PROVE  LockExclusion'
  <2> DEFINE t == [Idle EXCEPT !.op = "cast", !.pc = "ready", !.el = b.el,
                               !.cand = b.cand, !.arg = b.nonce]
  <2>0. t.op = "cast" /\ t.pc = "ready" /\ t.el = b.el
    BY DEF Idle
  <2>1. txn' = [txn EXCEPT ![r] = t] /\ txn'[r] = t
    BY <1>8 DEF CastBallot, Begin, TypeOK
  <2> HIDE DEF t
  <2>2. \A f \in Elections : (SharesElection(r, f)' => f = b.el) /\ ~OwnsElection(r, f)'
    BY <2>0, <2>1 DEF OwnsElection, SharesElection
  <2>9. \A f \in Elections :
          /\ OwnsElection(r, f)' => OwnsElection(r, f) \/ CanOwnElection(r, f)
          /\ SharesElection(r, f)' => SharesElection(r, f) \/ CanShareElection(r, f)
    BY <1>8, <2>2 DEF CastBallot
  <2> QED
    BY <2>1, <2>9, LockStep
<1>9. ASSUME NEW op \in {"approve", "reject"}, NEW u \in Reviewed,
             ReviewAccount(r, op, u)
      PROVE  LockExclusion'
  <2> DEFINE t == [Idle EXCEPT !.op = op, !.pc = "ready", !.user = u,
                               !.seen = <<account[u], enrolled[u]>>]
  <2>0. t.op = op /\ t.pc = "ready"
    BY DEF Idle
  <2>1. txn' = [txn EXCEPT ![r] = t] /\ txn'[r] = t
    BY <1>9 DEF ReviewAccount, Begin, TypeOK
  <2> HIDE DEF t
  <2>2. \A f \in Elections : ~SharesElection(r, f)' /\ ~OwnsElection(r, f)'
    BY <2>0, <1>9, <2>1 DEF OwnsElection, SharesElection, ReviewAccount
  <2>9. \A f \in Elections :
          /\ OwnsElection(r, f)' => OwnsElection(r, f) \/ CanOwnElection(r, f)
          /\ SharesElection(r, f)' => SharesElection(r, f) \/ CanShareElection(r, f)
    BY <2>2
  <2> QED
    BY <2>1, <2>9, LockStep
<1> QED
  BY <1>1, <1>2, <1>3, <1>4, <1>5, <1>6, <1>7, <1>8, <1>9 DEF Arrive

LEMMA ExclusionProceed ==
  ASSUME RowLocks, TypeOK, LockExclusion, NEW r \in Requests, Proceed(r)
  PROVE  LockExclusion'
<1>1. CASE Releases(r)
  BY <1>1, ReleaseStep
<1>2. CASE CheckRosterChange(r)
  <2> DEFINE t == [txn[r] EXCEPT !.pc = "ready"]
  <2>1. txn' = [txn EXCEPT ![r] = t] /\ txn'[r] = t
    BY <1>2 DEF CheckRosterChange, Goto, TypeOK
  <2>2. t.op = txn[r].op /\ t.el = txn[r].el
    BY DEF TypeOK, TxnShape
  <2>3. \A f \in Elections : (OwnsElection(r, f)' => f = txn[r].el) /\ ~SharesElection(r, f)'
    BY <1>2, <2>1, <2>2 DEF OwnsElection, SharesElection, CheckRosterChange
  <2>9. \A f \in Elections :
          /\ OwnsElection(r, f)' => OwnsElection(r, f) \/ CanOwnElection(r, f)
          /\ SharesElection(r, f)' => SharesElection(r, f) \/ CanShareElection(r, f)
    BY <1>2, <2>3 DEF CheckRosterChange
  <2> HIDE DEF t
  <2> QED
    BY <2>1, <2>9, LockStep
<1>3. CASE ShareOpenElection(r)
  <2> DEFINE t == [txn[r] EXCEPT !.pc = "election"]
  <2>1. txn' = [txn EXCEPT ![r] = t] /\ txn'[r] = t
    BY <1>3 DEF ShareOpenElection, Goto, TypeOK
  <2>2. t.op = txn[r].op /\ t.el = txn[r].el /\ t.pc = "election"
    BY DEF TypeOK, TxnShape
  <2>3. \A f \in Elections : (SharesElection(r, f)' => f = txn[r].el) /\ ~OwnsElection(r, f)'
    BY <2>1, <2>2 DEF OwnsElection, SharesElection
  <2>9. \A f \in Elections :
          /\ OwnsElection(r, f)' => OwnsElection(r, f) \/ CanOwnElection(r, f)
          /\ SharesElection(r, f)' => SharesElection(r, f) \/ CanShareElection(r, f)
    BY <1>3, <2>3 DEF ShareOpenElection
  <2> HIDE DEF t
  <2> QED
    BY <2>1, <2>9, LockStep
<1>4. CASE AuthorizeVoter(r)
  <2> DEFINE t == [txn[r] EXCEPT !.pc = "ready"]
  <2>1. txn' = [txn EXCEPT ![r] = t] /\ txn'[r] = t
    BY <1>4 DEF AuthorizeVoter, Goto, TypeOK
  <2>2. t.op = txn[r].op /\ t.el = txn[r].el
    BY DEF TypeOK, TxnShape
  <2>3. \A f \in Elections : (SharesElection(r, f)' => SharesElection(r, f)) /\ ~OwnsElection(r, f)'
    BY <1>4, <2>1, <2>2 DEF OwnsElection, SharesElection, AuthorizeVoter
  <2>9. \A f \in Elections :
          /\ OwnsElection(r, f)' => OwnsElection(r, f) \/ CanOwnElection(r, f)
          /\ SharesElection(r, f)' => SharesElection(r, f) \/ CanShareElection(r, f)
    BY <2>3
  <2> HIDE DEF t
  <2> QED
    BY <2>1, <2>9, LockStep
<1>5. \/ Releases(r)
      \/ CheckRosterChange(r) \/ ShareOpenElection(r) \/ AuthorizeVoter(r)
  BY DEF Proceed, Releases, Goto, Rollback, Finish, CommitOpen, CommitClose, CommitAdd,
         RefuseRosterChange, CommitEdit, CommitDrop, CommitToken, RefuseToken,
         CommitCast, RefuseCast, CommitReview, CommitSign, RefuseSign
<1> QED
  BY <1>1, <1>2, <1>3, <1>4, <1>5

-----------------------------------------------------------------------------
(* Steps that write no table.                                                *)

\* The tables that handlers check.
tables == <<status, row, account, verified, enrolled, votes, signed>>

Others(r) == \A q \in Requests \ {r} : txn'[q] = txn[q]

\* The request r inserts no candidate identifier that is already in use.
NoNewAdd(r) ==
  txn'[r].op = "add" =>
     \/ txn[r].op = "add" /\ txn'[r].cand = txn[r].cand
     \/ \A q \in Requests : ~(txn[q].op = "add" /\ txn[q].cand = txn'[r].cand)

LEMMA AddsStep ==
  ASSUME AddsDistinct, NEW r \in Requests, Others(r), NoNewAdd(r)
  PROVE  AddsDistinct'
BY DEF AddsDistinct, Others, NoNewAdd

LEMMA CheckedFrame ==
  ASSUME NEW q, txn'[q] = txn[q], UNCHANGED tables, Checked(q), RowMatches(q)
  PROVE  Checked(q)' /\ RowMatches(q)'
<1>1. UNCHANGED <<status, row, account, verified, enrolled, votes>>
  BY DEF tables
<1>2. \A e : MayOpen(e)' <=> MayOpen(e)
  BY <1>1 DEF MayOpen, SingleContest, ContestsOf, Roster
<1>3. \A e : Tally(e)' = Tally(e)
  BY <1>1 DEF Tally, Roster, VotesIn
<1>4. \A u : Eligible(u)' <=> Eligible(u)
  BY <1>1 DEF Eligible
<1> QED
  BY <1>1, <1>2, <1>3, <1>4 DEF Checked, RowMatches

LEMMA QuietStep ==
  ASSUME TypeOK, ChecksOutliveWaits, NEW r \in Requests, Others(r),
         UNCHANGED tables, LockExclusion', Checked(r)', RowMatches(r)', NoNewAdd(r)
  PROVE  ChecksOutliveWaits'
<1>1. \A q \in Requests : Checked(q)' /\ RowMatches(q)'
  BY CheckedFrame DEF Others, ChecksOutliveWaits
<1>2. AddsDistinct'
  BY AddsStep DEF ChecksOutliveWaits
<1>3. UNCHANGED <<status, row, votes, signed>>
  BY DEF tables
<1>4. VotesHaveRows' /\ OneOpenElection'
  BY <1>3 DEF VotesHaveRows, OneOpenElection, ChecksOutliveWaits
<1>5. \A e : Tally(e)' = Tally(e)
  BY <1>3 DEF Tally, Roster, VotesIn
<1>6. SignedTallyFinal' /\ \A e \in Elections : signed'[e] # Nil => status'[e] = "closed"
  BY <1>3, <1>5 DEF SignedTallyFinal, ChecksOutliveWaits
<1> QED
  BY <1>1, <1>2, <1>4, <1>6 DEF ChecksOutliveWaits

(* A request that holds nothing has nothing to keep true.                    *)
LEMMA NothingChecked ==
  ASSUME NEW r, txn'[r].pc \in {"idle", "begun", "done"}
  PROVE  Checked(r)' /\ RowMatches(r)'
BY DEF Checked, RowMatches

LEMMA ReleaseFacts ==
  ASSUME TypeOK, NEW r \in Requests, Releases(r)
  PROVE  Others(r) /\ txn'[r].pc \in {"idle", "done"} /\ NoNewAdd(r)
BY DEF TypeOK, TxnShape, Releases, Others, NoNewAdd, Idle

-----------------------------------------------------------------------------
(* Arriving requests.                                                        *)

LEMMA LocksArrive ==
  ASSUME RowLocks, TypeOK, ChecksOutliveWaits, NEW r \in Requests, Arrive(r)
  PROVE  ChecksOutliveWaits'
<1>0. LockExclusion'
  BY ExclusionArrive DEF ChecksOutliveWaits
<1>1. ASSUME NEW e \in Elections,
             OpenElection(r, e)
      PROVE  ChecksOutliveWaits'
  <2> DEFINE t == [Idle EXCEPT !.op = "open", !.pc = "ready", !.el = e,
                               !.arg = OpeningTime(e)]
  <2>1. t.op = "open" /\ t.pc = "ready" /\ t.el = e
    BY DEF Idle
  <2>2. txn' = [txn EXCEPT ![r] = t] /\ UNCHANGED tables
    BY <1>1 DEF OpenElection, Begin, db, tables
  <2> HIDE DEF t
  <2>3. txn'[r] = t /\ Others(r)
    BY <2>2 DEF TypeOK, Others
  <2>4. Checked(r)' /\ RowMatches(r)' /\ NoNewAdd(r)
    <3>1. MayOpen(e)'
      BY <1>1, <2>2 DEF OpenElection, tables, MayOpen, SingleContest, ContestsOf, Roster
    <3> QED
      BY <2>1, <2>3, <3>1 DEF Checked, RowMatches, NoNewAdd
  <2> QED
    BY <2>2, <2>3, <2>4, <1>0, QuietStep
<1>2. ASSUME NEW e \in Elections,
             CloseElection(r, e)
      PROVE  ChecksOutliveWaits'
  <2> DEFINE t == [Idle EXCEPT !.op = "close", !.pc = "ready", !.el = e,
                               !.arg = now]
  <2>1. t.op = "close" /\ t.pc = "ready" /\ t.el = e
    BY DEF Idle
  <2>2. txn' = [txn EXCEPT ![r] = t] /\ UNCHANGED tables
    BY <1>2 DEF CloseElection, Begin, db, tables
  <2> HIDE DEF t
  <2>3. txn'[r] = t /\ Others(r)
    BY <2>2 DEF TypeOK, Others
  <2>4. Checked(r)' /\ RowMatches(r)' /\ NoNewAdd(r)
    BY <1>2, <2>1, <2>2, <2>3 DEF CloseElection, tables, Checked, RowMatches, NoNewAdd
  <2> QED
    BY <2>2, <2>3, <2>4, <1>0, QuietStep
<1>3. ASSUME NEW e \in Elections,
             SignResults(r, e)
      PROVE  ChecksOutliveWaits'
  <2> DEFINE t == [Idle EXCEPT !.op = "sign", !.pc = "ready", !.el = e,
                               !.seen = Tally(e)]
  <2>1. t.op = "sign" /\ t.pc = "ready" /\ t.el = e /\ t.seen = Tally(e)
    BY DEF Idle
  <2>2. txn' = [txn EXCEPT ![r] = t] /\ UNCHANGED tables
    BY <1>3 DEF SignResults, Begin, db, tables
  <2> HIDE DEF t
  <2>3. txn'[r] = t /\ Others(r)
    BY <2>2 DEF TypeOK, Others
  <2>4. Checked(r)' /\ RowMatches(r)' /\ NoNewAdd(r)
    <3>1. Tally(e)' = Tally(e)
      BY <2>2 DEF tables, Tally, Roster, VotesIn
    <3> QED
      BY <1>3, <2>1, <2>2, <2>3, <3>1 DEF SignResults, tables, Checked, RowMatches, NoNewAdd
  <2> QED
    BY <2>2, <2>3, <2>4, <1>0, QuietStep
<1>4. ASSUME NEW e \in Elections, NEW c \in Candidates, NEW g \in Regions,
             NEW p \in Positions, NEW scope \in Scopes,
             AddCandidate(r, e, c, g, p, scope)
      PROVE  ChecksOutliveWaits'
  <2> DEFINE t == [Idle EXCEPT !.op = "add", !.pc = "ready", !.el = e, !.cand = c,
                     !.arg = [scope |-> scope, region |-> g, position |-> p]]
  <2>1. t.op = "add" /\ t.pc = "ready" /\ t.el = e /\ t.cand = c
    BY DEF Idle
  <2>2. txn' = [txn EXCEPT ![r] = t] /\ UNCHANGED tables
    BY <1>4 DEF AddCandidate, Begin, db, tables
  <2> HIDE DEF t
  <2>3. txn'[r] = t /\ Others(r)
    BY <2>2 DEF TypeOK, Others
  <2>4. Checked(r)' /\ RowMatches(r)' /\ NoNewAdd(r)
    BY <1>4, <2>1, <2>2, <2>3 DEF AddCandidate, tables, Checked, RowMatches, NoNewAdd
  <2> QED
    BY <2>2, <2>3, <2>4, <1>0, QuietStep
<1>5. ASSUME NEW op \in {"edit", "drop"}, NEW c \in Candidates,
             NEW g \in Regions \cup {Keep}, NEW p \in Positions \cup {Keep},
             NEW scope \in Scopes,
             LockCandidate(r, op, c, g, p, scope)
      PROVE  ChecksOutliveWaits'
  <2> DEFINE t == [Idle EXCEPT !.op = op, !.pc = "candidate", !.cand = c,
                     !.el = row[c].el, !.seen = row[c].region,
                     !.arg = [scope |-> scope, region |-> g, position |-> p]]
  <2>1. t.op = op /\ t.pc = "candidate" /\ t.el = row[c].el /\ t.cand = c
    BY DEF Idle
  <2>2. txn' = [txn EXCEPT ![r] = t] /\ UNCHANGED tables
    BY <1>5 DEF LockCandidate, Begin, db, tables
  <2> HIDE DEF t
  <2>3. txn'[r] = t /\ Others(r)
    BY <2>2 DEF TypeOK, Others
  <2>4. Checked(r)' /\ RowMatches(r)' /\ NoNewAdd(r)
    BY <1>5, <2>1, <2>2, <2>3 DEF LockCandidate, tables, Checked, RowMatches, NoNewAdd
  <2> QED
    BY <2>2, <2>3, <2>4, <1>0, QuietStep
<1>6. ASSUME NEW u \in Voters, NEW e \in Elections, NEW b \in Ballots,
             RequestToken(r, u, e, b)
      PROVE  ChecksOutliveWaits'
  <2> DEFINE t == [Idle EXCEPT !.op = "token", !.pc = "begun", !.user = u,
                     !.el = e, !.arg = b,
                     !.seen = IF SnapshotReads THEN ContestsOf(e) ELSE Nil]
  <2>1. t.op = "token" /\ t.pc = "begun"
    BY DEF Idle
  <2>2. txn' = [txn EXCEPT ![r] = t] /\ UNCHANGED tables
    BY <1>6 DEF RequestToken, Begin, db, tables
  <2> HIDE DEF t
  <2>3. txn'[r] = t /\ Others(r)
    BY <2>2 DEF TypeOK, Others
  <2>4. Checked(r)' /\ RowMatches(r)' /\ NoNewAdd(r)
    BY <2>1, <2>3 DEF Checked, RowMatches, NoNewAdd
  <2> QED
    BY <2>2, <2>3, <2>4, <1>0, QuietStep
<1>7. ASSUME NEW b \in Ballots,
             CastBallot(r, b)
      PROVE  ChecksOutliveWaits'
  <2> DEFINE t == [Idle EXCEPT !.op = "cast", !.pc = "ready", !.el = b.el,
                               !.cand = b.cand, !.arg = b.nonce]
  <2>1. t.op = "cast" /\ t.pc = "ready" /\ t.el = b.el
    BY DEF Idle
  <2>2. txn' = [txn EXCEPT ![r] = t] /\ UNCHANGED tables
    BY <1>7 DEF CastBallot, Begin, db, tables
  <2> HIDE DEF t
  <2>3. txn'[r] = t /\ Others(r)
    BY <2>2 DEF TypeOK, Others
  <2>4. Checked(r)' /\ RowMatches(r)' /\ NoNewAdd(r)
    BY <1>7, <2>1, <2>2, <2>3 DEF CastBallot, IsOpen, tables, Checked, RowMatches, NoNewAdd
  <2> QED
    BY <2>2, <2>3, <2>4, <1>0, QuietStep
<1>8. ASSUME NEW op \in {"approve", "reject"}, NEW u \in Reviewed,
             ReviewAccount(r, op, u)
      PROVE  ChecksOutliveWaits'
  <2> DEFINE t == [Idle EXCEPT !.op = op, !.pc = "ready", !.user = u,
                               !.seen = <<account[u], enrolled[u]>>]
  <2>1. t.op = op /\ t.pc = "ready"
    BY DEF Idle
  <2>2. txn' = [txn EXCEPT ![r] = t] /\ UNCHANGED tables
    BY <1>8 DEF ReviewAccount, Begin, db, tables
  <2> HIDE DEF t
  <2>3. txn'[r] = t /\ Others(r)
    BY <2>2 DEF TypeOK, Others
  <2>4. Checked(r)' /\ RowMatches(r)' /\ NoNewAdd(r)
    BY <1>8, <2>1, <2>3 DEF ReviewAccount, Checked, RowMatches, NoNewAdd
  <2> QED
    BY <2>2, <2>3, <2>4, <1>0, QuietStep
<1>9. ASSUME NEW e \in Elections, NEW times \in Schedules, CreateElection(r, e, times)
      PROVE  ChecksOutliveWaits'
  <2> DEFINE t == [Idle EXCEPT !.op = "create", !.pc = "done", !.el = e]
  <2>1. t.op = "create" /\ t.pc = "done"
    BY DEF Idle
  <2>2. txn' = [txn EXCEPT ![r] = t]
    BY <1>9 DEF CreateElection, Begin
  <2> HIDE DEF t
  <2>3. txn'[r] = t /\ Others(r)
    BY <2>2 DEF TypeOK, Others
  <2>4. /\ UNCHANGED <<row, account, verified, enrolled, votes, signed>>
        /\ status[e] = "none" /\ status'[e] = "draft"
        /\ \A f \in Elections \ {e} : status'[f] = status[f]
    BY <1>9 DEF CreateElection, TypeOK
  <2>5. \A f \in Elections : Tally(f)' = Tally(f)
    BY <2>4 DEF Tally, Roster, VotesIn
  <2>6. \A f \in Elections : MayOpen(f) => MayOpen(f)'
    BY <2>4 DEF MayOpen, SingleContest, ContestsOf, Roster
  <2>7. \A u : Eligible(u)' <=> Eligible(u)
    BY <2>4 DEF Eligible
  <2>8. \A q \in Requests : Checked(q)' /\ RowMatches(q)'
    <3>1. Checked(r)' /\ RowMatches(r)'
      BY <2>1, <2>3, NothingChecked
    <3>2. ASSUME NEW q \in Requests \ {r} PROVE Checked(q)' /\ RowMatches(q)'
      <4>1. txn'[q] = txn[q] /\ Checked(q) /\ RowMatches(q)
        BY <2>3 DEF Others, ChecksOutliveWaits
      <4>2. txn[q].op \in {"open", "close", "add", "edit", "drop", "token", "cast", "sign"}
              => txn[q].el \in Elections
        BY DEF TypeOK, TxnOK, Idle
      <4> QED
        BY <4>1, <4>2, <2>4, <2>5, <2>6, <2>7 DEF Checked, RowMatches
    <3> QED
      BY <3>1, <3>2
  <2>9. AddsDistinct'
    BY <2>1, <2>3, AddsStep DEF NoNewAdd, ChecksOutliveWaits
  <2>10. VotesHaveRows' /\ OneOpenElection' /\ SignedTallyFinal'
    BY <2>4, <2>5 DEF VotesHaveRows, OneOpenElection, SignedTallyFinal, ChecksOutliveWaits
  <2>11. \A f \in Elections : signed'[f] # Nil => status'[f] = "closed"
    BY <2>4 DEF ChecksOutliveWaits
  <2> QED
    BY <1>0, <2>8, <2>9, <2>10, <2>11 DEF ChecksOutliveWaits
<1> QED
  BY <1>1, <1>2, <1>3, <1>4, <1>5, <1>6, <1>7, <1>8, <1>9 DEF Arrive

-----------------------------------------------------------------------------
(* Commits.  What the committing request r writes belongs to an election it  *)
(* has locked, and no other request can have checked that election.          *)

\* The request q relies on no check of election e.
ApartFrom(q, e) ==
  /\ ~(txn[q].op = "open" /\ txn[q].pc = "ready")
  /\ txn[q].op \in {"close", "sign", "add", "edit", "drop"} /\ txn[q].pc = "ready"
       => txn[q].el # e
  /\ txn[q].op \in {"token", "cast"} /\ txn[q].pc \in {"election", "ready"}
       => txn[q].el # e

LEMMA OwnerAlone ==
  ASSUME LockExclusion, NEW r \in Requests, NEW e \in Elections,
         OwnsElection(r, e), NEW q \in Requests \ {r}
  PROVE  ApartFrom(q, e)
BY DEF LockExclusion, OwnsElection, SharesElection, ApartFrom

LEMMA CheckedElection ==
  ASSUME TypeOK, NEW q \in Requests,
         txn[q].op \in {"open", "close", "add", "edit", "drop", "token", "cast", "sign"}
  PROVE  txn[q].el \in Elections
BY DEF TypeOK, TxnOK, Idle

(* Everything a commit has to show, but for the others' checks.              *)
LEMMA CommitStep ==
  ASSUME RowLocks, TypeOK, ChecksOutliveWaits, NEW r \in Requests, Releases(r),
         \A q \in Requests \ {r} : Checked(q)' /\ RowMatches(q)',
         VotesHaveRows', OneOpenElection', SignedTallyFinal',
         \A e \in Elections : signed'[e] # Nil => status'[e] = "closed"
  PROVE  ChecksOutliveWaits'
<1>1. LockExclusion' /\ AddsDistinct'
  BY ReleaseStep, ReleaseFacts, AddsStep DEF ChecksOutliveWaits
<1>2. Checked(r)' /\ RowMatches(r)'
  BY ReleaseFacts, NothingChecked
<1> QED
  BY <1>1, <1>2 DEF ChecksOutliveWaits

(* A change of one election's status.                                        *)
LEMMA StatusCommit ==
  ASSUME RowLocks, TypeOK, ChecksOutliveWaits, NEW r \in Requests,
         CommitOpen(r) \/ CommitClose(r)
  PROVE  ChecksOutliveWaits'
<1> DEFINE e == txn[r].el
<1>1. e \in Elections /\ Releases(r)
  BY CheckedElection DEF CommitOpen, CommitClose, Goto, Releases
<1>2. OwnsElection(r, e)
  BY <1>1 DEF CommitOpen, CommitClose, OwnsElection
<1>3. /\ UNCHANGED <<row, account, verified, enrolled, votes, signed>>
      /\ \A f \in Elections \ {e} : status'[f] = status[f]
      /\ status[e] \in {"draft", "open"} /\ status'[e] \in {"open", "closed"}
      /\ status'[e] = "open" => MayOpen(e)
  BY <1>1 DEF CommitOpen, CommitClose, TypeOK, ChecksOutliveWaits, Checked, MayOpen
<1> HIDE DEF e
<1>4. \A f \in Elections : Tally(f)' = Tally(f)
  BY <1>3 DEF Tally, Roster, VotesIn
<1>5. ASSUME NEW q \in Requests \ {r} PROVE Checked(q)' /\ RowMatches(q)'
  <2>1. ApartFrom(q, e) /\ txn'[q] = txn[q] /\ Checked(q) /\ RowMatches(q)
    BY <1>1, <1>2, OwnerAlone, ReleaseFacts DEF ChecksOutliveWaits, Others
  <2>2. \A u : Eligible(u)' <=> Eligible(u)
    BY <1>3 DEF Eligible
  <2> QED
    BY <1>3, <1>4, <2>1, <2>2, CheckedElection DEF ApartFrom, Checked, RowMatches
<1>6. OneOpenElection'
  BY <1>3 DEF OneOpenElection, MayOpen, ChecksOutliveWaits
<1>7. VotesHaveRows' /\ SignedTallyFinal'
  BY <1>3, <1>4 DEF VotesHaveRows, SignedTallyFinal, ChecksOutliveWaits
<1>8. \A f \in Elections : signed'[f] # Nil => status'[f] = "closed"
  BY <1>3 DEF ChecksOutliveWaits
<1> QED
  BY <1>1, <1>5, <1>6, <1>7, <1>8, CommitStep

(* A change of one candidate row, and of the votes that hang on it.          *)
LEMMA RosterCommit ==
  ASSUME RowLocks, TypeOK, ChecksOutliveWaits, NEW r \in Requests,
         CommitAdd(r) \/ CommitEdit(r) \/ CommitDrop(r)
  PROVE  ChecksOutliveWaits'
<1> DEFINE e == txn[r].el
           c == txn[r].cand
<1>1. e \in Elections /\ c \in Candidates /\ Releases(r)
  BY DEF CommitAdd, CommitEdit, CommitDrop, Goto, Releases, TypeOK, TxnOK, Idle
<1>2. OwnsElection(r, e) /\ status[e] = "draft"
  BY <1>1 DEF CommitAdd, CommitEdit, CommitDrop, OwnsElection, ChecksOutliveWaits, Checked
<1>3. /\ UNCHANGED <<status, account, verified, enrolled, signed>>
      /\ \A d \in Candidates \ {c} : row'[d] = row[d]
  BY <1>1 DEF CommitAdd, CommitEdit, CommitDrop, TypeOK
<1>4. row[c] \in Rows => row[c].el = e
  BY IdentifiersAssumption
     DEF CommitAdd, CommitEdit, CommitDrop, ChecksOutliveWaits, RowMatches
<1>5. \/ row'[c] \in Rows /\ row'[c].el = e /\ votes' = votes
      \/ row'[c] = Gone /\ votes' = {v \in votes : v.cand # c}
  <2>1. CASE CommitAdd(r)
    <3>1. txn[r].arg \in NewRows
      BY <2>1 DEF CommitAdd, TypeOK, TxnOK, Idle
    <3>2. /\ row'[c] = [el |-> e, region |-> txn[r].arg.region,
                        position |-> txn[r].arg.position]
          /\ votes' = votes
      BY <1>1, <2>1 DEF CommitAdd, TypeOK
    <3> QED
      BY <1>1, <3>1, <3>2 DEF NewRows, Rows
  <2>2. CASE CommitEdit(r)
    <3>1. txn[r].arg \in RowChanges /\ row[c] \in Rows
      BY <2>2 DEF CommitEdit, TypeOK, TxnOK, Idle
    <3>2. row'[c] = Edited(row[c], txn[r].arg) /\ votes' = votes
      BY <1>1, <2>2 DEF CommitEdit, TypeOK
    <3> QED
      BY <1>4, <3>1, <3>2 DEF RowChanges, Rows, Edited
  <2>3. CASE CommitDrop(r)
    BY <1>1, <2>3 DEF CommitDrop, TypeOK
  <2> QED
    BY <2>1, <2>2, <2>3
<1>6. Gone \notin Rows
  BY IdentifiersAssumption
<1>8. \A v \in votes : v.cand \in Candidates /\ (v.cand = c => v.el = e)
  BY <1>4 DEF TypeOK, ChecksOutliveWaits, VotesHaveRows
<1> HIDE DEF e, c
<1>9. VotesHaveRows'
  <2>1. \A v \in votes : row[v.cand] \in Rows /\ row[v.cand].el = v.el
    BY DEF ChecksOutliveWaits, VotesHaveRows
  <2>2. \A v \in votes' : v \in votes /\ (v.cand = c => row'[c] # Gone)
    BY <1>5, <1>6
  <2> QED
    BY <1>3, <1>5, <1>8, <2>1, <2>2 DEF VotesHaveRows
<1>10. \A f \in Elections \ {e} : Roster(f)' = Roster(f)
  BY <1>3, <1>4, <1>5, <1>6 DEF Roster
<1>11. \A f \in Elections \ {e} : Tally(f)' = Tally(f)
  <2>1. \A f \in Elections \ {e} : VotesIn(f)' = VotesIn(f)
    BY <1>5, <1>8 DEF VotesIn
  <2> QED
    BY <1>10, <2>1 DEF Tally
<1>12. ASSUME NEW q \in Requests \ {r} PROVE Checked(q)' /\ RowMatches(q)'
  <2>1. ApartFrom(q, e) /\ txn'[q] = txn[q] /\ Checked(q) /\ RowMatches(q)
    BY <1>1, <1>2, OwnerAlone, ReleaseFacts DEF ChecksOutliveWaits, Others
  <2>2. \A u : Eligible(u)' <=> Eligible(u)
    BY <1>3 DEF Eligible
  <2>3. Checked(q)'
    BY <1>3, <1>11, <2>1, <2>2, CheckedElection DEF ApartFrom, Checked
  <2>4. RowMatches(q)'
    <3>1. txn[q].op \in {"add", "edit", "drop"} => txn[q].cand \in Candidates
      BY DEF TypeOK, TxnOK, Idle
    <3>2. txn[q].op = "add" /\ txn[q].pc = "ready" => txn[q].cand # c
      BY IdentifiersAssumption
         DEF c, CommitAdd, CommitEdit, CommitDrop, ChecksOutliveWaits, AddsDistinct, RowMatches
    <3>3. txn[q].op \in {"edit", "drop"} /\ txn[q].pc \in {"candidate", "ready"}
            /\ txn[q].cand = c => row[c] = Gone \/ txn[q].el = e
      BY <1>4, <2>1 DEF RowMatches
    <3>4. row[c] = Gone => row'[c] = Gone
      BY <1>1, IdentifiersAssumption
         DEF c, CommitAdd, CommitEdit, CommitDrop, ChecksOutliveWaits, RowMatches, TypeOK
    <3> QED
      BY <1>3, <1>5, <2>1, <3>1, <3>2, <3>3, <3>4 DEF RowMatches
  <2> QED
    BY <2>3, <2>4
<1>13. OneOpenElection' /\ \A f \in Elections : signed'[f] # Nil => status'[f] = "closed"
  BY <1>3 DEF OneOpenElection, ChecksOutliveWaits
<1>14. SignedTallyFinal'
  BY <1>2, <1>3, <1>11 DEF SignedTallyFinal, ChecksOutliveWaits
<1> QED
  BY <1>1, <1>9, <1>12, <1>13, <1>14, CommitStep

(* A new ballot.  Nobody signs, closes or edits an election it shares.       *)
LEMMA CastCommit ==
  ASSUME RowLocks, TypeOK, ChecksOutliveWaits, NEW r \in Requests, CommitCast(r)
  PROVE  ChecksOutliveWaits'
<1> DEFINE e == txn[r].el
           vote == [tx |-> NextTx, el |-> e, cand |-> txn[r].cand]
<1>1. e \in Elections /\ Releases(r)
  BY CheckedElection DEF CommitCast, Releases
<1>2. SharesElection(r, e) /\ status[e] = "open"
  BY <1>1 DEF CommitCast, SharesElection, ChecksOutliveWaits, Checked
<1>3. /\ UNCHANGED <<status, row, account, verified, enrolled, signed>>
      /\ votes' = votes \cup {vote} /\ vote.el = e /\ vote.cand = txn[r].cand
      /\ txn[r].cand \in Roster(e)
  BY DEF CommitCast
<1> HIDE DEF e, vote
<1>4. VotesHaveRows'
  BY <1>3 DEF VotesHaveRows, ChecksOutliveWaits, Roster
<1>5. \A f \in Elections \ {e} : Tally(f)' = Tally(f)
  <2>1. \A f \in Elections \ {e} : VotesIn(f)' = VotesIn(f) /\ Roster(f)' = Roster(f)
    BY <1>3 DEF VotesIn, Roster
  <2> QED
    BY <2>1 DEF Tally
<1>6. ASSUME NEW q \in Requests \ {r} PROVE Checked(q)' /\ RowMatches(q)'
  <2>1. txn'[q] = txn[q] /\ Checked(q) /\ RowMatches(q)
    BY <1>1, ReleaseFacts DEF ChecksOutliveWaits, Others
  <2>2. txn[q].op = "sign" /\ txn[q].pc = "ready" => txn[q].el # e
    BY <1>1, <1>2 DEF ChecksOutliveWaits, LockExclusion, OwnsElection
  <2>3. \A f : MayOpen(f)' <=> MayOpen(f)
    BY <1>3 DEF MayOpen, SingleContest, ContestsOf, Roster
  <2>4. \A u : Eligible(u)' <=> Eligible(u)
    BY <1>3 DEF Eligible
  <2> QED
    BY <1>3, <1>5, <2>1, <2>2, <2>3, <2>4, CheckedElection DEF Checked, RowMatches
<1>7. OneOpenElection' /\ \A f \in Elections : signed'[f] # Nil => status'[f] = "closed"
  BY <1>3 DEF OneOpenElection, ChecksOutliveWaits
<1>8. SignedTallyFinal'
  BY <1>2, <1>3, <1>5 DEF SignedTallyFinal, ChecksOutliveWaits
<1> QED
  BY <1>1, <1>4, <1>6, <1>7, <1>8, CommitStep

LEMMA SignCommit ==
  ASSUME RowLocks, TypeOK, ChecksOutliveWaits, NEW r \in Requests, CommitSign(r)
  PROVE  ChecksOutliveWaits'
<1> DEFINE e == txn[r].el
<1>1. e \in Elections /\ Releases(r)
  BY CheckedElection DEF CommitSign, Goto, Releases
<1>2. status[e] = "closed" /\ txn[r].seen = Tally(e)
  BY DEF CommitSign, ChecksOutliveWaits, Checked
<1>3. /\ UNCHANGED <<status, row, account, verified, enrolled, votes>>
      /\ signed'[e] = txn[r].seen
      /\ \A f \in Elections \ {e} : signed'[f] = signed[f]
  BY <1>1 DEF CommitSign, TypeOK
<1> HIDE DEF e
<1>4. \A f : Tally(f)' = Tally(f)
  BY <1>3 DEF Tally, Roster, VotesIn
<1>5. ASSUME NEW q \in Requests \ {r} PROVE Checked(q)' /\ RowMatches(q)'
  <2>1. txn'[q] = txn[q] /\ Checked(q) /\ RowMatches(q)
    BY <1>1, ReleaseFacts DEF ChecksOutliveWaits, Others
  <2>2. \A f : MayOpen(f)' <=> MayOpen(f)
    BY <1>3 DEF MayOpen, SingleContest, ContestsOf, Roster
  <2>3. \A u : Eligible(u)' <=> Eligible(u)
    BY <1>3 DEF Eligible
  <2> QED
    BY <1>3, <1>4, <2>1, <2>2, <2>3 DEF Checked, RowMatches
<1>6. OneOpenElection' /\ VotesHaveRows'
  BY <1>3 DEF OneOpenElection, VotesHaveRows, ChecksOutliveWaits
<1>7. \A f \in Elections : signed'[f] # Nil => status'[f] = "closed"
  BY <1>2, <1>3 DEF ChecksOutliveWaits
<1>8. SignedTallyFinal'
  BY <1>2, <1>3, <1>4 DEF SignedTallyFinal, ChecksOutliveWaits
<1> QED
  BY <1>1, <1>5, <1>6, <1>7, <1>8, CommitStep

(* A changed account.  The voter of a ready request keeps its own.           *)
LEMMA AccountWrite ==
  ASSUME TypeOK, ChecksOutliveWaits, NEW Except \in SUBSET Requests,
         \A q \in Requests \ Except : txn'[q] = txn[q],
         \A q \in Requests \ Except :
            txn[q].op = "token" /\ txn[q].pc = "ready" => Eligible(txn[q].user)',
         UNCHANGED <<status, row, votes>>
  PROVE  \A q \in Requests \ Except : Checked(q)' /\ RowMatches(q)'
<1> SUFFICES ASSUME NEW q \in Requests \ Except
             PROVE  Checked(q)' /\ RowMatches(q)'
  OBVIOUS
<1>1. txn'[q] = txn[q] /\ Checked(q) /\ RowMatches(q)
  BY DEF ChecksOutliveWaits
<1>2. \A f : MayOpen(f)' <=> MayOpen(f)
  BY DEF MayOpen, SingleContest, ContestsOf, Roster
<1>3. \A f : Tally(f)' = Tally(f)
  BY DEF Tally, Roster, VotesIn
<1> QED
  BY <1>1, <1>2, <1>3 DEF Checked, RowMatches

LEMMA ReviewCommit ==
  ASSUME RowLocks, TypeOK, ChecksOutliveWaits, NEW r \in Requests, CommitReview(r)
  PROVE  ChecksOutliveWaits'
<1>1. /\ UNCHANGED <<status, row, verified, votes, signed>> /\ Releases(r)
      /\ txn[r].user \in Voters
  BY DEF CommitReview, Goto, Releases, TypeOK, TxnOK, Idle
<1>2. ASSUME NEW q \in Requests \ {r}, txn[q].op = "token", txn[q].pc = "ready"
      PROVE  Eligible(txn[q].user)'
  <2>1. Eligible(txn[q].user) /\ txn[q].user \in Voters
    <3>1. Eligible(txn[q].user)
      BY <1>2 DEF ChecksOutliveWaits, Checked
    <3>2. txn[q].user \in Voters
      BY <1>2 DEF TypeOK, TxnOK, Idle
    <3> QED
      BY <3>1, <3>2
  <2>2. txn'[q] = txn[q]
    BY <1>1, ReleaseFacts DEF Others
  <2>3. account'[txn[q].user] = account[txn[q].user]
    <3>1. CASE txn[q].user # txn[r].user
      BY <3>1, <2>1, <1>1 DEF CommitReview, TypeOK
    <3>2. CASE txn[q].user = txn[r].user
      <4>1. txn[r].op = "approve" /\ txn[r].seen = <<"approved", TRUE>>
        BY <1>2, <3>2 DEF CommitReview, CanOwnVoter, OwnsVoter
      <4> QED
        BY <4>1, <3>2, <2>1, <1>1 DEF CommitReview, TypeOK
    <3> QED
      BY <3>1, <3>2
  <2>4. enrolled'[txn[q].user]
    <3> DEFINE set == IF txn[r].op = "approve" /\ ~txn[r].seen[2]
                        THEN TRUE ELSE enrolled[txn[r].user]
    <3>1. enrolled' = [enrolled EXCEPT ![txn[r].user] = set]
      BY DEF CommitReview
    <3>2. enrolled[txn[q].user] /\ DOMAIN enrolled = Voters
      BY <2>1 DEF Eligible, TypeOK
    <3>3. CASE txn[q].user # txn[r].user
      <4> HIDE DEF set
      <4> QED
        BY <3>1, <3>2, <3>3, <2>1
    <3>4. CASE txn[q].user = txn[r].user
      <4>1. set
        BY <3>2, <3>4
      <4> HIDE DEF set
      <4>2. enrolled'[txn[q].user] = set
        BY <3>1, <3>2, <3>4, <2>1
      <4> QED
        BY <4>1, <4>2
    <3> QED
      BY <3>3, <3>4
  <2> QED
    BY <1>1, <2>1, <2>2, <2>3, <2>4 DEF Eligible
<1>3. \A q \in Requests \ {r} : Checked(q)' /\ RowMatches(q)'
  BY <1>1, <1>2, ReleaseFacts, AccountWrite DEF Others
<1>4. VotesHaveRows' /\ OneOpenElection'
  BY <1>1 DEF VotesHaveRows, OneOpenElection, ChecksOutliveWaits
<1>5. \A f : Tally(f)' = Tally(f)
  BY <1>1 DEF Tally, Roster, VotesIn
<1>6. SignedTallyFinal' /\ \A f \in Elections : signed'[f] # Nil => status'[f] = "closed"
  BY <1>1, <1>5 DEF SignedTallyFinal, ChecksOutliveWaits
<1> QED
  BY <1>1, <1>3, <1>4, <1>6, CommitStep

-----------------------------------------------------------------------------
(* The inductive step.                                                       *)

LEMMA QuietRelease ==
  ASSUME RowLocks, TypeOK, ChecksOutliveWaits, NEW r \in Requests,
         Releases(r), UNCHANGED tables
  PROVE  ChecksOutliveWaits'
<1>1. LockExclusion'
  BY ReleaseStep DEF ChecksOutliveWaits
<1>2. Others(r) /\ Checked(r)' /\ RowMatches(r)' /\ NoNewAdd(r)
  BY ReleaseFacts, NothingChecked
<1> QED
  BY <1>1, <1>2, QuietStep

LEMMA LocksProceed ==
  ASSUME RowLocks, TypeOK, ChecksOutliveWaits, NEW r \in Requests, Proceed(r)
  PROVE  ChecksOutliveWaits'
<1>0. LockExclusion'
  BY ExclusionProceed DEF ChecksOutliveWaits
<1>1. CASE \/ RefuseRosterChange(r) \/ RefuseToken(r) \/ RefuseCast(r)
           \/ RefuseSign(r) \/ CommitToken(r)
           \/ \E delivered, logged \in BOOLEAN : Finish(r, delivered, logged)
  <2>1. Releases(r) /\ UNCHANGED tables
    BY <1>1 DEF RefuseRosterChange, RefuseToken, RefuseCast, RefuseSign, Rollback,
                CommitToken, Goto, Finish, Releases, db, tables
  <2> QED
    BY <2>1, QuietRelease
<1>2. CASE CheckRosterChange(r)
  <2> DEFINE t == [txn[r] EXCEPT !.pc = "ready"]
  <2>1. /\ t.op = txn[r].op /\ t.el = txn[r].el /\ t.cand = txn[r].cand
        /\ t.pc = "ready"
    BY DEF TypeOK, TxnShape
  <2>2. txn' = [txn EXCEPT ![r] = t] /\ UNCHANGED tables
    BY <1>2 DEF CheckRosterChange, Goto, db, tables
  <2> HIDE DEF t
  <2>3. txn'[r] = t /\ Others(r)
    BY <2>2 DEF TypeOK, Others
  <2>4. Checked(r)' /\ NoNewAdd(r)
    BY <1>2, <2>1, <2>2, <2>3
       DEF CheckRosterChange, MayChangeRoster, tables, Checked, NoNewAdd
  <2>5. RowMatches(r)'
    <3>1. RowMatches(r)
      BY DEF ChecksOutliveWaits
    <3> QED
      BY <1>2, <2>1, <2>2, <2>3, <3>1 DEF CheckRosterChange, tables, RowMatches
  <2> QED
    BY <1>0, <2>2, <2>3, <2>4, <2>5, QuietStep
<1>3. CASE ShareOpenElection(r)
  <2> DEFINE t == [txn[r] EXCEPT !.pc = "election"]
  <2>1. t.op = "token" /\ t.el = txn[r].el /\ t.pc = "election"
    BY <1>3 DEF TypeOK, TxnShape, ShareOpenElection
  <2>2. txn' = [txn EXCEPT ![r] = t] /\ UNCHANGED tables
    BY <1>3 DEF ShareOpenElection, Goto, db, tables
  <2> HIDE DEF t
  <2>3. txn'[r] = t /\ Others(r)
    BY <2>2 DEF TypeOK, Others
  <2>4. Checked(r)' /\ RowMatches(r)' /\ NoNewAdd(r)
    BY <1>3, <2>1, <2>2, <2>3
       DEF ShareOpenElection, IsOpen, tables, Checked, RowMatches, NoNewAdd
  <2> QED
    BY <1>0, <2>2, <2>3, <2>4, QuietStep
<1>4. CASE AuthorizeVoter(r)
  <2> DEFINE t == [txn[r] EXCEPT !.pc = "ready"]
  <2>1. /\ t.op = "token" /\ t.el = txn[r].el /\ t.user = txn[r].user
        /\ t.pc = "ready"
    BY <1>4 DEF TypeOK, TxnShape, AuthorizeVoter
  <2>2. txn' = [txn EXCEPT ![r] = t] /\ UNCHANGED tables
    BY <1>4 DEF AuthorizeVoter, Goto, db, tables
  <2> HIDE DEF t
  <2>3. txn'[r] = t /\ Others(r)
    BY <2>2 DEF TypeOK, Others
  <2>4. status[txn[r].el] = "open" /\ txn[r].el \notin Quarantined
    BY <1>4 DEF AuthorizeVoter, ChecksOutliveWaits, Checked
  <2>5. Eligible(txn[r].user)' /\ <<t.user, t.el>> \notin Receipts
    <3>1. Eligible(txn[r].user) /\ <<txn[r].user, txn[r].el>> \notin Receipts
      BY <1>4 DEF AuthorizeVoter, MayVote
    <3>2. account' = account /\ verified' = verified /\ enrolled' = enrolled
      BY <2>2 DEF tables
    <3>3. txn'[r].user = txn[r].user
      BY <2>1, <2>3
    <3> QED
      BY <2>1, <3>1, <3>2, <3>3 DEF Eligible
  <2>6. Checked(r)'
    BY <2>1, <2>2, <2>3, <2>4, <2>5 DEF tables, Checked
  <2>7. RowMatches(r)' /\ NoNewAdd(r)
    BY <2>1, <2>2, <2>3 DEF tables, RowMatches, NoNewAdd
  <2> QED
    BY <1>0, <2>2, <2>3, <2>6, <2>7, QuietStep
<1> QED
  BY <1>1, <1>2, <1>3, <1>4, StatusCommit, RosterCommit, CastCommit, SignCommit,
     ReviewCommit DEF Proceed

LEMMA LocksInit == Init => ChecksOutliveWaits
<1> SUFFICES ASSUME Init PROVE ChecksOutliveWaits
  OBVIOUS
<1>1. \A r \in Requests : txn[r] = Idle
  BY DEF Init
<1>2. LockExclusion /\ AddsDistinct
  BY <1>1 DEF LockExclusion, OwnsElection, AddsDistinct, Idle
<1>3. \A r \in Requests : Checked(r) /\ RowMatches(r)
  BY <1>1 DEF Checked, RowMatches, Idle
<1>4. VotesHaveRows /\ OneOpenElection
  BY TableAssumption DEF Init, VotesHaveRows, OneOpenElection
<1>5. \A e \in Elections : signed[e] = Nil
  BY DEF Init
<1> QED
  BY <1>2, <1>3, <1>4, <1>5 DEF ChecksOutliveWaits, SignedTallyFinal

LEMMA LocksNext ==
  ASSUME RowLocks, TypeOK, ChecksOutliveWaits, [Next]_vars
  PROVE  ChecksOutliveWaits'
<1>1. ASSUME NEW r \in Requests, Arrive(r) PROVE ChecksOutliveWaits'
  BY <1>1, LocksArrive
<1>2. ASSUME NEW r \in Requests, Proceed(r) PROVE ChecksOutliveWaits'
  BY <1>2, LocksProceed
<1>3. ASSUME NEW r \in Requests, Fail(r) \/ LoseWorker(r) PROVE ChecksOutliveWaits'
  <2>1. Releases(r) /\ UNCHANGED tables
    BY <1>3 DEF Fail, LoseWorker, Rollback, Releases, db, tables
  <2> QED
    BY <2>1, QuietRelease
<1>4. ASSUME NEW u \in Reviewed, VerifyEmail(u) PROVE ChecksOutliveWaits'
  <2>1. UNCHANGED <<status, row, account, enrolled, votes, signed, txn>>
    BY <1>4 DEF VerifyEmail
  <2>2. \A v \in Voters : Eligible(v) => Eligible(v)'
    <3>1. SUFFICES ASSUME NEW v \in Voters, Eligible(v) PROVE Eligible(v)'
      OBVIOUS
    <3>2. verified[v] = TRUE => verified'[v] = TRUE
      BY <1>4 DEF VerifyEmail, TypeOK
    <3>3. verified[v] /\ (verified[v] = TRUE)
      BY <3>1, Zenon DEF Eligible, TypeOK
    <3> QED
      BY <2>1, <3>1, <3>2, <3>3, Zenon DEF Eligible
  <2>3. ASSUME NEW q \in Requests, txn[q].op = "token", txn[q].pc = "ready"
        PROVE  Eligible(txn[q].user)'
    <3>1. Eligible(txn[q].user)
      BY <2>3 DEF ChecksOutliveWaits, Checked
    <3>2. txn[q].user \in Voters
      BY <2>3 DEF TypeOK, TxnOK, Idle
    <3> QED
      BY <2>1, <2>2, <3>1, <3>2
  <2>4. \A q \in Requests : Checked(q)' /\ RowMatches(q)'
    BY <2>1, <2>3, AccountWrite, Requests \ {} = Requests
  <2>5. LockExclusion' /\ AddsDistinct' /\ VotesHaveRows' /\ OneOpenElection'
    BY <2>1 DEF LockExclusion, OwnsElection, SharesElection, AddsDistinct,
                VotesHaveRows, OneOpenElection, ChecksOutliveWaits
  <2>6. \A f : Tally(f)' = Tally(f)
    BY <2>1 DEF Tally, Roster, VotesIn
  <2>7. SignedTallyFinal' /\ \A f \in Elections : signed'[f] # Nil => status'[f] = "closed"
    BY <2>1, <2>6 DEF SignedTallyFinal, ChecksOutliveWaits
  <2> QED
    BY <2>4, <2>5, <2>7 DEF ChecksOutliveWaits
<1>5. CASE Tick \/ UNCHANGED vars
  <2>1. UNCHANGED <<status, row, account, verified, enrolled, votes, signed, txn>>
    BY <1>5 DEF Tick, vars, db
  <2>2. \A q \in Requests : Checked(q)' /\ RowMatches(q)'
    BY <2>1, CheckedFrame DEF tables, ChecksOutliveWaits
  <2>3. LockExclusion' /\ AddsDistinct' /\ VotesHaveRows' /\ OneOpenElection'
    BY <2>1 DEF LockExclusion, OwnsElection, SharesElection, AddsDistinct,
                VotesHaveRows, OneOpenElection, ChecksOutliveWaits
  <2>4. \A f : Tally(f)' = Tally(f)
    BY <2>1 DEF Tally, Roster, VotesIn
  <2>5. SignedTallyFinal' /\ \A f \in Elections : signed'[f] # Nil => status'[f] = "closed"
    BY <2>1, <2>4 DEF SignedTallyFinal, ChecksOutliveWaits
  <2> QED
    BY <2>2, <2>3, <2>5 DEF ChecksOutliveWaits
<1> QED
  BY <1>1, <1>2, <1>3, <1>4, <1>5 DEF Next

(* With row locks, a commit of any handler (elections.py, candidates.py,     *)
(* main.py, results.py) still finds true what the handler had checked.       *)
THEOREM LocksSuffice == RowLocks => (Spec => []ChecksOutliveWaits)
<1> SUFFICES ASSUME RowLocks PROVE Spec => []ChecksOutliveWaits
  OBVIOUS
<1>1. TypeOK /\ ChecksOutliveWaits /\ [Next]_vars => ChecksOutliveWaits'
  BY LocksNext
<1> QED
  BY <1>1, LocksInit, TypeCorrect, PTL DEF Spec

(* Concurrent managers never have two elections open (open_election).        *)
THEOREM AtMostOneOpen == RowLocks => (Spec => []OneOpenElection)
<1> SUFFICES ASSUME RowLocks PROVE Spec => []OneOpenElection
  OBVIOUS
<1>1. ChecksOutliveWaits => OneOpenElection
  BY DEF ChecksOutliveWaits
<1> QED
  BY <1>1, LocksSuffice, PTL

(* A signed result is and stays the count of its votes                       *)
(* (sign_election_results against late casts and roster changes).            *)
THEOREM SignedResultIsTally == RowLocks => (Spec => []SignedTallyFinal)
<1> SUFFICES ASSUME RowLocks PROVE Spec => []SignedTallyFinal
  OBVIOUS
<1>1. ChecksOutliveWaits => SignedTallyFinal
  BY DEF ChecksOutliveWaits
<1> QED
  BY <1>1, LocksSuffice, PTL
=============================================================================
