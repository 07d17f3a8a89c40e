--------------------------- MODULE PromiseProofs ----------------------------
(***************************************************************************)
(* What the voting core promises, for every number of voters, elections,    *)
(* candidates and concurrent requests.  First the action properties, from the*)
(* invariant of the row locks; then what holds on every database, because the*)
(* unique keys of the tables decide; then the races that the row locks exclude;*)
(* and from all of them that the voting core implements the ballot box.     *)
(***************************************************************************)
EXTENDS VotingProofs

-----------------------------------------------------------------------------
(* Steps that are never taken.                                               *)

\* The steps that write a table, by table.
LEMMA Writers ==
  ASSUME Next
  PROVE  /\ UNCHANGED <<status, openAt, closeAt>> \/
              \E r \in Requests : CommitOpen(r) \/ CommitClose(r)
                \/ \E e \in Elections, times \in Schedules : CreateElection(r, e, times)
         /\ row' = row \/
              \E r \in Requests : CommitAdd(r) \/ CommitEdit(r) \/ CommitDrop(r)
         /\ votes' = votes \/ \E r \in Requests : CommitCast(r) \/ CommitDrop(r)
         /\ spent' = spent \/ \E r \in Requests : CommitCast(r)
         /\ tokens' = tokens \/ \E r \in Requests : CommitToken(r)
         /\ signed' = signed \/ \E r \in Requests : CommitSign(r)
         /\ UNCHANGED <<wallet, audit>> \/
              \E r \in Requests, delivered, logged \in BOOLEAN :
                 Finish(r, delivered, logged)
         /\ \/ lost' = lost \/ \E r \in Requests : LoseWorker(r)
            \/ \E r \in Requests, delivered, logged \in BOOLEAN :
                 Finish(r, delivered, logged)
         /\ now' = now \/ Tick
<1>1. ASSUME NEW r \in Requests, Arrive(r)
      PROVE  /\ UNCHANGED <<row, votes, spent, tokens, signed, outside>>
             /\ \/ UNCHANGED <<status, openAt, closeAt>>
                \/ \E e \in Elections, times \in Schedules : CreateElection(r, e, times)
  BY <1>1 DEF Arrive, CreateElection, OpenElection, CloseElection, SignResults,
              AddCandidate, LockCandidate, RequestToken, CastBallot, ReviewAccount, db
<1>2. ASSUME NEW r \in Requests, Proceed(r)
      PROVE  /\ UNCHANGED <<status, openAt, closeAt>> \/ CommitOpen(r) \/ CommitClose(r)
             /\ row' = row \/ CommitAdd(r) \/ CommitEdit(r) \/ CommitDrop(r)
             /\ votes' = votes \/ CommitCast(r) \/ CommitDrop(r)
             /\ spent' = spent \/ CommitCast(r)
             /\ tokens' = tokens \/ CommitToken(r)
             /\ signed' = signed \/ CommitSign(r)
             /\ \/ UNCHANGED <<wallet, audit, lost>>
                \/ \E delivered, logged \in BOOLEAN : Finish(r, delivered, logged)
             /\ now' = now
  <2>1. CASE CommitOpen(r) \/ CommitClose(r)
    BY <2>1 DEF CommitOpen, CommitClose, outside
  <2>2. CASE CommitAdd(r) \/ CommitEdit(r) \/ CommitDrop(r)
    BY <2>2 DEF CommitAdd, CommitEdit, CommitDrop, outside
  <2>3. CASE CommitToken(r) \/ CommitCast(r)
    BY <2>3 DEF CommitToken, CommitCast, outside
  <2>4. CASE CommitReview(r) \/ CommitSign(r)
    BY <2>4 DEF CommitReview, CommitSign, outside
  <2>5. CASE CheckRosterChange(r) \/ ShareOpenElection(r) \/ AuthorizeVoter(r)
    BY <2>5 DEF CheckRosterChange, ShareOpenElection, AuthorizeVoter, db, outside
  <2>6. CASE RefuseRosterChange(r) \/ RefuseToken(r) \/ RefuseCast(r) \/ RefuseSign(r)
    BY <2>6 DEF RefuseRosterChange, RefuseToken, RefuseCast, RefuseSign, Rollback, db, outside
  <2>7. CASE \E delivered, logged \in BOOLEAN : Finish(r, delivered, logged)
    BY <2>7 DEF Finish, db
  <2> QED
    BY <1>2, <2>1, <2>2, <2>3, <2>4, <2>5, <2>6, <2>7 DEF Proceed
<1>3. ASSUME NEW r \in Requests, Fail(r) \/ LoseWorker(r)
      PROVE  UNCHANGED <<db, now, wallet, audit>> /\ (lost' = lost \/ LoseWorker(r))
  BY <1>3 DEF Fail, LoseWorker, Rollback, outside
<1>4. ASSUME NEW u \in Reviewed, VerifyEmail(u)
      PROVE  UNCHANGED <<status, openAt, closeAt, row, votes, spent, tokens, signed, outside>>
  BY <1>4 DEF VerifyEmail
<1>5. Tick => UNCHANGED <<db, wallet, audit, lost>>
  BY DEF Tick
<1>6. ASSUME NEW r \in Requests, Arrive(r) PROVE UNCHANGED <<now, wallet, audit, lost>>
  BY <1>1, <1>6 DEF outside
<1>7. CASE \E r \in Requests : Arrive(r)
  BY <1>1, <1>6, <1>7
<1>8. CASE \E r \in Requests : Proceed(r)
  BY <1>2, <1>8
<1>9. CASE \E r \in Requests : Fail(r) \/ LoseWorker(r)
  BY <1>3, <1>9 DEF db
<1>10. CASE \E u \in Reviewed : VerifyEmail(u)
  BY <1>4, <1>10 DEF outside
<1>11. CASE Tick
  BY <1>5, <1>11 DEF db
<1> QED
  BY <1>7, <1>8, <1>9, <1>10, <1>11 DEF Next

\* What a step may do to a candidate row.
FrozenStep ==
  \A c \in Candidates : row'[c] # row[c] =>
     /\ row[c] \in Rows => status[row[c].el] = "draft"
     /\ row'[c] \in Rows => status[row'[c].el] = "draft"

LEMMA RosterStep ==
  ASSUME TypeOK, ChecksOutliveWaits, Next
  PROVE  FrozenStep
<1> SUFFICES ASSUME NEW c \in Candidates, row'[c] # row[c]
             PROVE  /\ row[c] \in Rows => status[row[c].el] = "draft"
                    /\ row'[c] \in Rows => status[row'[c].el] = "draft"
  BY DEF FrozenStep
<1>1. PICK r \in Requests : CommitAdd(r) \/ CommitEdit(r) \/ CommitDrop(r)
  BY Writers
<1>2. Checked(r) /\ RowMatches(r) /\ TxnOK(txn[r])
  BY DEF ChecksOutliveWaits, TypeOK
<1>3. CASE CommitAdd(r)
  BY <1>2, <1>3, IdentifiersAssumption DEF CommitAdd, Checked, RowMatches, TypeOK, Rows
<1>4. CASE CommitEdit(r)
  <2>1. c = txn[r].cand /\ row'[c].el = row[c].el
    BY <1>4 DEF CommitEdit, Edited, TypeOK, Rows
  <2> QED
    BY <1>2, <1>4, <2>1, IdentifiersAssumption DEF CommitEdit, Checked, RowMatches
<1>5. CASE CommitDrop(r)
  BY <1>2, <1>5, IdentifiersAssumption DEF CommitDrop, Checked, RowMatches, TypeOK
<1> QED
  BY <1>1, <1>3, <1>4, <1>5

(* A roster change commits only while its election is a draft, although the  *)
(* draft was seen in an earlier step (candidates.py against open_election).  *)
THEOREM RosterStaysFrozen == RowLocks => (Spec => RosterFrozen)
<1> SUFFICES ASSUME RowLocks PROVE Spec => RosterFrozen
  OBVIOUS
<1>1. TypeOK /\ ChecksOutliveWaits /\ [Next]_vars => [FrozenStep]_vars
  BY RosterStep
<1> QED
  BY <1>1, TypeCorrect, LocksSuffice, PTL DEF Spec, RosterFrozen, FrozenStep

(* close_election's promise: no ballot is committed once the election is     *)
(* closed, although the cast had checked it before (cast_anonymous_ballot).  *)
THEOREM NoLateBallot == RowLocks => (Spec => CastOnlyWhileOpen)
<1> SUFFICES ASSUME RowLocks PROVE Spec => CastOnlyWhileOpen
  OBVIOUS
<1> DEFINE Step == \A v \in votes' \ votes :
                      status[v.el] = "open" /\ v.el \notin Quarantined
<1>1. ASSUME TypeOK, ChecksOutliveWaits, [Next]_vars PROVE [Step]_vars
  <2> SUFFICES ASSUME Next, NEW v \in votes' \ votes
               PROVE  status[v.el] = "open" /\ v.el \notin Quarantined
    BY <1>1
  <2>1. PICK r \in Requests : CommitCast(r) \/ CommitDrop(r)
    BY Writers
  <2>2. ~CommitDrop(r)
    BY DEF CommitDrop
  <2>3. v.el = txn[r].el /\ txn[r].op = "cast" /\ txn[r].pc = "ready"
    BY <2>1, <2>2 DEF CommitCast
  <2> QED
    BY <1>1, <2>3 DEF ChecksOutliveWaits, Checked
<1> QED
  BY <1>1, TypeCorrect, LocksSuffice, PTL DEF Spec, CastOnlyWhileOpen

(* An authorization commits only for a voter who is still eligible, in an    *)
(* election that is still open (request_blind_token against reject_user and  *)
(* close_election).                                                          *)
THEOREM NoStaleAuthorization == RowLocks => (Spec => AuthorizedWhileEligible)
<1> SUFFICES ASSUME RowLocks PROVE Spec => AuthorizedWhileEligible
  OBVIOUS
<1> DEFINE Step == \A t \in tokens' \ tokens : Eligible(t[1]) /\ status[t[2]] = "open"
<1>1. ASSUME TypeOK, ChecksOutliveWaits, [Next]_vars PROVE [Step]_vars
  <2> SUFFICES ASSUME Next, NEW t \in tokens' \ tokens
               PROVE  Eligible(t[1]) /\ status[t[2]] = "open"
    BY <1>1
  <2>1. PICK r \in Requests : CommitToken(r)
    BY Writers
  <2>2. t[1] = txn[r].user /\ t[2] = txn[r].el
    BY <2>1 DEF CommitToken
  <2>3. Eligible(txn[r].user) /\ status[txn[r].el] = "open"
    BY <1>1, <2>1 DEF CommitToken, ChecksOutliveWaits, Checked
  <2> QED
    BY <2>2, <2>3
<1> QED
  BY <1>1, TypeCorrect, LocksSuffice, PTL DEF Spec, AuthorizedWhileEligible

\* What a step may do to the status of an election.
ForwardStep ==
  \A e \in Elections : status'[e] # status[e] =>
     <<status[e], status'[e]>> \in
        {<<"none", "draft">>, <<"draft", "open">>, <<"open", "closed">>}

LEMMA StatusStep ==
  ASSUME TypeOK, ChecksOutliveWaits, Next
  PROVE  ForwardStep
<1> SUFFICES ASSUME NEW e \in Elections, status'[e] # status[e]
             PROVE  <<status[e], status'[e]>> \in
                       {<<"none", "draft">>, <<"draft", "open">>, <<"open", "closed">>}
  BY DEF ForwardStep
<1>1. PICK r \in Requests : CommitOpen(r) \/ CommitClose(r)
         \/ \E f \in Elections, times \in Schedules : CreateElection(r, f, times)
  BY Writers
<1>2. Checked(r)
  BY DEF ChecksOutliveWaits
<1>3. CASE CommitOpen(r)
  BY <1>2, <1>3 DEF CommitOpen, Checked, MayOpen, TypeOK
<1>4. CASE CommitClose(r)
  BY <1>2, <1>4 DEF CommitClose, Checked, TypeOK
<1>5. CASE \E f \in Elections, times \in Schedules : CreateElection(r, f, times)
  BY <1>5 DEF CreateElection, TypeOK
<1> QED
  BY <1>1, <1>3, <1>4, <1>5

(* An election only moves forward, whoever opens and closes it at once       *)
(* (create_election, open_election, close_election).                         *)
THEOREM ElectionsMoveForward == RowLocks => (Spec => MovesForward)
<1> SUFFICES ASSUME RowLocks PROVE Spec => MovesForward
  OBVIOUS
<1>1. TypeOK /\ ChecksOutliveWaits /\ [Next]_vars => [ForwardStep]_vars
  BY StatusStep
<1> QED
  BY <1>1, TypeCorrect, LocksSuffice, PTL DEF Spec, MovesForward, ForwardStep

-----------------------------------------------------------------------------
(* Ballots.  Signatures, spent nullifiers and the audit log are right without *)
(* row locks: each follows what a request carries from step to step.         *)

\* Request q keeps its work and only moves on.
SameWork(q) ==
  /\ txn'[q].op = txn[q].op /\ txn'[q].user = txn[q].user /\ txn'[q].el = txn[q].el
  /\ txn'[q].cand = txn[q].cand /\ txn'[q].arg = txn[q].arg

\* The commits of handlers.
Commits(q) ==
  \/ CommitOpen(q) \/ CommitClose(q) \/ CommitAdd(q) \/ CommitEdit(q) \/ CommitDrop(q)
  \/ CommitToken(q) \/ CommitCast(q) \/ CommitReview(q) \/ CommitSign(q)

LEMMA Moves ==
  ASSUME TypeOK, NEW r \in Requests, Proceed(r)
  PROVE  \/ txn'[r] = Idle
         \/ /\ SameWork(r) /\ txn'[r].pc = "done" /\ Commits(r)
            /\ txn'[r].seen = IF txn[r].op = "cast" THEN NextTx ELSE txn[r].seen
         \/ /\ SameWork(r) /\ txn'[r].seen = txn[r].seen
            /\ \/ txn'[r].pc = "ready" /\ (CheckRosterChange(r) \/ AuthorizeVoter(r))
               \/ txn'[r].pc = "election" /\ ShareOpenElection(r)
<1>0. DOMAIN txn = Requests /\ TxnShape(txn[r])
  BY DEF TypeOK
<1>1. ASSUME NEW pc, Goto(r, pc)
      PROVE  SameWork(r) /\ txn'[r].pc = pc /\ txn'[r].seen = txn[r].seen
  BY <1>0, <1>1 DEF Goto, SameWork, TxnShape
<1>2. CASE CommitOpen(r) \/ CommitClose(r) \/ CommitAdd(r) \/ CommitEdit(r) \/ CommitDrop(r)
  BY <1>1, <1>2 DEF Commits, CommitOpen, CommitClose, CommitAdd, CommitEdit, CommitDrop
<1>3. CASE CommitToken(r) \/ CommitReview(r) \/ CommitSign(r)
  BY <1>1, <1>3 DEF Commits, CommitToken, CommitReview, CommitSign
<1>4. CASE CommitCast(r)
  <2>1. txn'[r] = [txn[r] EXCEPT !.pc = "done", !.seen = NextTx] /\ txn[r].op = "cast"
    BY <1>0, <1>4 DEF CommitCast
  <2> QED
    BY <1>0, <1>4, <2>1 DEF Commits, SameWork, TxnShape
<1>5. CASE CheckRosterChange(r) \/ AuthorizeVoter(r) \/ ShareOpenElection(r)
  BY <1>1, <1>5 DEF CheckRosterChange, AuthorizeVoter, ShareOpenElection
<1>6. CASE RefuseRosterChange(r) \/ RefuseToken(r) \/ RefuseCast(r) \/ RefuseSign(r)
           \/ \E delivered, logged \in BOOLEAN : Finish(r, delivered, logged)
  BY <1>0, <1>6 DEF RefuseRosterChange, RefuseToken, RefuseCast, RefuseSign, Rollback, Finish
<1> QED
  BY <1>2, <1>3, <1>4, <1>5, <1>6 DEF Proceed

(* What a request carries when its handler has begun, by handler.            *)
Arrived(r) ==
  LET t == txn'[r] IN
  /\ txn[r] = Idle
  /\ t.op \in Ops
  /\ t.op = "create" <=> t.pc = "done"
  /\ t.op # "create" => UNCHANGED <<db, outside>>
  /\ t.pc = "ready" => t.op # "token"
  /\ t.op = "open" =>
       /\ t.el \in Elections /\ t.arg = OpeningTime(t.el)
       /\ closeAt[t.el] # Nil => closeAt[t.el] > t.arg
  /\ t.op = "sign" => t.user = Nil
  /\ t.op = "add" => MayManage(t.arg.scope, t.arg.region)
  /\ t.op \in {"edit", "drop"} =>
       /\ t.pc = "candidate" /\ t.cand \in Candidates /\ row[t.cand] \in Rows
       /\ t.seen = row[t.cand].region /\ CanReadCandidate(r, t.cand)
  /\ t.op = "token" => t.pc = "begun"
  /\ t.op = "cast" =>
       /\ t.user = Nil /\ t.el \in Elections /\ IsOpen(t.el)
       /\ \E w \in wallet : w.el = t.el /\ w.ballot.nonce = t.arg

LEMMA Arrivals ==
  ASSUME TypeOK, NEW r \in Requests, Arrive(r)
  PROVE  Arrived(r)
<1>0. ASSUME NEW t, Begin(r, t) PROVE txn[r] = Idle /\ txn'[r] = t
  BY <1>0 DEF Begin, TypeOK
<1>1. ASSUME NEW e \in Elections, NEW times \in Schedules, CreateElection(r, e, times)
      PROVE  Arrived(r)
  <2> DEFINE t == [Idle EXCEPT !.op = "create", !.pc = "done", !.el = e]
  <2>0. txn[r] = Idle /\ txn'[r] = t
    BY <1>0, <1>1 DEF CreateElection
  <2>1. txn[r] = Idle /\ txn'[r].op = "create" /\ txn'[r].pc = "done"
    BY <2>0 DEF Idle
  <2> QED
    BY <2>1 DEF Arrived, Ops
<1>2. ASSUME NEW e \in Elections, OpenElection(r, e)
      PROVE  Arrived(r)
  <2> DEFINE t == [Idle EXCEPT !.op = "open", !.pc = "ready", !.el = e,
                               !.arg = OpeningTime(e)]
  <2>0. txn[r] = Idle /\ txn'[r] = t
    BY <1>0, <1>2 DEF OpenElection
  <2>1. /\ txn[r] = Idle /\ txn'[r].op = "open" /\ txn'[r].pc = "ready"
        /\ txn'[r].el = e /\ txn'[r].arg = OpeningTime(e)
    BY <2>0 DEF Idle
  <2> QED
    BY <1>2, <2>1 DEF Arrived, Ops, OpenElection
<1>3. ASSUME NEW e \in Elections, CloseElection(r, e)
      PROVE  Arrived(r)
  <2> DEFINE t == [Idle EXCEPT !.op = "close", !.pc = "ready", !.el = e, !.arg = now]
  <2>0. txn[r] = Idle /\ txn'[r] = t
    BY <1>0, <1>3 DEF CloseElection
  <2>1. txn[r] = Idle /\ txn'[r].op = "close" /\ txn'[r].pc = "ready"
    BY <2>0 DEF Idle
  <2> QED
    BY <1>3, <2>1 DEF Arrived, Ops, CloseElection
<1>4. ASSUME NEW e \in Elections, SignResults(r, e)
      PROVE  Arrived(r)
  <2> DEFINE t == [Idle EXCEPT !.op = "sign", !.pc = "ready", !.el = e, !.seen = Tally(e)]
  <2>0. txn[r] = Idle /\ txn'[r] = t
    BY <1>0, <1>4 DEF SignResults
  <2>1. /\ txn[r] = Idle /\ txn'[r].op = "sign" /\ txn'[r].pc = "ready"
        /\ txn'[r].user = Nil
    BY <2>0 DEF Idle
  <2> QED
    BY <1>4, <2>1 DEF Arrived, Ops, SignResults
<1>5. ASSUME NEW e \in Elections, NEW c \in Candidates, NEW g \in Regions,
             NEW p \in Positions, NEW scope \in Scopes, AddCandidate(r, e, c, g, p, scope)
      PROVE  Arrived(r)
  <2> DEFINE a == [scope |-> scope, region |-> g, position |-> p]
             t == [Idle EXCEPT !.op = "add", !.pc = "ready", !.el = e, !.cand = c, !.arg = a]
  <2>0. txn[r] = Idle /\ txn'[r] = t
    BY <1>0, <1>5 DEF AddCandidate
  <2>1. /\ txn[r] = Idle /\ txn'[r].op = "add" /\ txn'[r].pc = "ready"
        /\ txn'[r].arg = a
    BY <2>0 DEF Idle
  <2>2. MayManage(a.scope, a.region) /\ UNCHANGED <<db, outside>>
    BY <1>5 DEF AddCandidate
  <2> QED
    BY <2>1, <2>2 DEF Arrived, Ops
<1>6. ASSUME NEW op \in {"edit", "drop"}, NEW c \in Candidates,
             NEW g \in Regions \cup {Keep}, NEW p \in Positions \cup {Keep},
             NEW scope \in Scopes, LockCandidate(r, op, c, g, p, scope)
      PROVE  Arrived(r)
  <2> DEFINE a == [scope |-> scope, region |-> g, position |-> p]
             t == [Idle EXCEPT !.op = op, !.pc = "candidate", !.cand = c,
                               !.el = row[c].el, !.seen = row[c].region, !.arg = a]
  <2>0. txn[r] = Idle /\ txn'[r] = t
    BY <1>0, <1>6 DEF LockCandidate
  <2>1. /\ txn[r] = Idle /\ txn'[r].op = op /\ txn'[r].pc = "candidate"
        /\ txn'[r].cand = c /\ txn'[r].seen = row[c].region
    BY <2>0 DEF Idle
  <2> QED
    BY <1>6, <2>1 DEF Arrived, Ops, LockCandidate
<1>7. ASSUME NEW u \in Voters, NEW e \in Elections, NEW b \in Ballots,
             RequestToken(r, u, e, b)
      PROVE  Arrived(r)
  <2> DEFINE t == [Idle EXCEPT !.op = "token", !.pc = "begun", !.user = u, !.el = e, !.arg = b,
                               !.seen = IF SnapshotReads THEN ContestsOf(e) ELSE Nil]
  <2>0. txn[r] = Idle /\ txn'[r] = t
    BY <1>0, <1>7 DEF RequestToken
  <2>1. txn[r] = Idle /\ txn'[r].op = "token" /\ txn'[r].pc = "begun"
    BY <2>0 DEF Idle
  <2> QED
    BY <1>7, <2>1 DEF Arrived, Ops, RequestToken
<1>8. ASSUME NEW b \in Ballots, CastBallot(r, b)
      PROVE  Arrived(r)
  <2> DEFINE t == [Idle EXCEPT !.op = "cast", !.pc = "ready", !.el = b.el, !.cand = b.cand,
                               !.arg = b.nonce]
  <2>0. txn[r] = Idle /\ txn'[r] = t
    BY <1>0, <1>8 DEF CastBallot
  <2>1. /\ txn[r] = Idle /\ txn'[r].op = "cast" /\ txn'[r].pc = "ready"
        /\ txn'[r].el = b.el /\ txn'[r].user = Nil /\ txn'[r].arg = b.nonce
    BY <2>0 DEF Idle
  <2>2. b.el \in Elections /\ IsOpen(b.el) /\ SignatureValid(b) /\ UNCHANGED <<db, outside>>
    BY <1>8 DEF CastBallot, Ballots
  <2> QED
    BY <2>1, <2>2 DEF Arrived, Ops, SignatureValid
<1>9. ASSUME NEW op \in {"approve", "reject"}, NEW u \in Reviewed, ReviewAccount(r, op, u)
      PROVE  Arrived(r)
  <2> DEFINE t == [Idle EXCEPT !.op = op, !.pc = "ready", !.user = u,
                               !.seen = <<account[u], enrolled[u]>>]
  <2>0. txn[r] = Idle /\ txn'[r] = t
    BY <1>0, <1>9 DEF ReviewAccount
  <2>1. txn[r] = Idle /\ txn'[r].op = op /\ txn'[r].pc = "ready"
    BY <2>0 DEF Idle
  <2> QED
    BY <1>9, <2>1 DEF Arrived, Ops, ReviewAccount
<1> QED
  BY <1>1, <1>2, <1>3, <1>4, <1>5, <1>6, <1>7, <1>8, <1>9 DEF Arrive

(* How a request evolves in a step of the system.                            *)
Evolves(q) ==
  \/ txn'[q] = txn[q]
  \/ txn'[q] = Idle
  \/ Arrived(q)
  \/ /\ SameWork(q) /\ txn'[q].pc = "done" /\ Commits(q)
     /\ txn'[q].seen = IF txn[q].op = "cast" THEN NextTx ELSE txn[q].seen
  \/ /\ SameWork(q) /\ txn'[q].seen = txn[q].seen
     /\ \/ txn'[q].pc = "ready" /\ (CheckRosterChange(q) \/ AuthorizeVoter(q))
        \/ txn'[q].pc = "election" /\ ShareOpenElection(q)

(* A step of one request leaves the others alone.                            *)
LEMMA OnlyOne ==
  ASSUME TypeOK, NEW r \in Requests, Arrive(r) \/ Proceed(r) \/ Fail(r) \/ LoseWorker(r)
  PROVE  \A q \in Requests \ {r} : txn'[q] = txn[q]
<1> SUFFICES \E t : txn' = [txn EXCEPT ![r] = t]
  BY DEF TypeOK
<1>1. CASE Arrive(r)
  BY <1>1 DEF Arrive, CreateElection, OpenElection, CloseElection, SignResults,
              AddCandidate, LockCandidate, RequestToken, CastBallot, ReviewAccount, Begin
<1>2. CASE CommitOpen(r) \/ CommitClose(r) \/ CommitAdd(r) \/ CommitEdit(r) \/ CommitDrop(r)
  BY <1>2 DEF CommitOpen, CommitClose, CommitAdd, CommitEdit, CommitDrop, Goto
<1>3. CASE CommitToken(r) \/ CommitReview(r) \/ CommitSign(r) \/ CommitCast(r)
  BY <1>3 DEF CommitToken, CommitReview, CommitSign, CommitCast, Goto
<1>4. CASE CheckRosterChange(r) \/ AuthorizeVoter(r) \/ ShareOpenElection(r)
  BY <1>4 DEF CheckRosterChange, AuthorizeVoter, ShareOpenElection, Goto
<1>5. CASE RefuseRosterChange(r) \/ RefuseToken(r) \/ RefuseCast(r) \/ RefuseSign(r)
           \/ (\E delivered, logged \in BOOLEAN : Finish(r, delivered, logged)) \/ Fail(r) \/ LoseWorker(r)
  BY <1>5 DEF RefuseRosterChange, RefuseToken, RefuseCast, RefuseSign, Rollback, Finish,
              Fail, LoseWorker
<1> QED
  BY <1>1, <1>2, <1>3, <1>4, <1>5 DEF Proceed

LEMMA Evolution ==
  ASSUME TypeOK, Next, NEW q \in Requests
  PROVE  Evolves(q)
<1>1. CASE \E r \in Requests \ {q} : Arrive(r) \/ Proceed(r) \/ Fail(r) \/ LoseWorker(r)
  BY <1>1, OnlyOne DEF Evolves
<1>2. CASE Arrive(q)
  BY <1>2, Arrivals DEF Evolves
<1>3. CASE Proceed(q)
  BY <1>3, Moves DEF Evolves
<1>4. CASE Fail(q) \/ LoseWorker(q)
  BY <1>4 DEF Evolves, Fail, LoseWorker, Rollback, TypeOK
<1>5. CASE (\E u \in Reviewed : VerifyEmail(u)) \/ Tick
  BY <1>5 DEF Evolves, VerifyEmail, Tick
<1> QED
  BY <1>1, <1>2, <1>3, <1>4, <1>5 DEF Next

-----------------------------------------------------------------------------
(* One ballot a voter and election.                                          *)

\* The signature is committed, its response has still to be sent.
Signing(r) == txn[r].op = "token" /\ txn[r].pc = "done"

Holder(w, r) == w.user = txn[r].user /\ w.el = txn[r].el

\* The signature of an authorization is in one place: with the request that
\* committed it, in one browser, or lost.
Ticketed ==
  /\ \A w \in wallet : <<w.user, w.el>> \in tokens
  /\ \A r \in Requests : Signing(r) =>
        /\ <<txn[r].user, txn[r].el>> \in tokens
        /\ \A w \in wallet : ~Holder(w, r)
  /\ \A r, q \in Requests :
        Signing(r) /\ Signing(q) /\ Holder(txn[r], q) => r = q
  /\ \A r \in Requests : txn[r].op = "token" /\ txn[r].pc = "ready"
        => <<txn[r].user, txn[r].el>> \notin Receipts
  /\ OneSignature

LEMMA TokenMoves ==
  ASSUME TypeOK, Next, NEW q \in Requests
  PROVE  /\ Signing(q)' => txn'[q] = txn[q] \/ CommitToken(q)
         /\ txn'[q].op = "token" /\ txn'[q].pc = "ready"
              => txn'[q] = txn[q] \/ AuthorizeVoter(q)
<1>1. Evolves(q)
  BY Evolution
<1>2. CASE txn'[q] = txn[q] \/ txn'[q] = Idle
  BY <1>2 DEF Signing, Idle
<1>3. CASE Arrived(q)
  BY <1>3 DEF Arrived, Signing
<1>4. CASE SameWork(q) /\ txn'[q].pc = "done" /\ Commits(q)
  BY <1>4 DEF Signing, SameWork, Commits, CommitOpen, CommitClose, CommitAdd, CommitEdit,
              CommitDrop, CommitCast, CommitReview, CommitSign
<1>5. CASE txn'[q].pc = "ready" /\ SameWork(q) /\ (CheckRosterChange(q) \/ AuthorizeVoter(q))
  BY <1>5 DEF Signing, CheckRosterChange, SameWork
<1>6. CASE txn'[q].pc = "election"
  BY <1>6 DEF Signing
<1> QED
  BY <1>1, <1>2, <1>3, <1>4, <1>5, <1>6 DEF Evolves

LEMMA TicketsInit == Init => Ticketed
BY DEF Init, Ticketed, OneSignature, Signing, Idle

(* An authorization that is committed was not there before, so no other      *)
(* request and no browser holds its signature.                               *)
LEMMA TicketsCommit ==
  ASSUME TypeOK, Ticketed, NEW r \in Requests, CommitToken(r)
  PROVE  Ticketed'
<1> DEFINE g == <<txn[r].user, txn[r].el>>
<1>1. /\ tokens' = tokens \cup {g} /\ wallet' = wallet /\ g \notin tokens /\ g \notin Receipts
  BY DEF CommitToken, Ticketed, outside
<1>2. \A q \in Requests \ {r} : txn'[q] = txn[q]
  BY DEF CommitToken, Goto, TypeOK
<1>3. txn'[r].user = txn[r].user /\ txn'[r].el = txn[r].el /\ txn'[r].pc = "done"
  BY DEF CommitToken, Goto, TypeOK, TxnShape
<1>4. \A w \in wallet : <<w.user, w.el>> \in tokens'
  BY <1>1 DEF Ticketed
<1>5. \A q \in Requests : Signing(q)' =>
         /\ <<txn'[q].user, txn'[q].el>> \in tokens'
         /\ \A w \in wallet : ~Holder(w, q)'
  <2>1. \A w \in wallet : <<w.user, w.el>> # g
    BY <1>1 DEF Ticketed
  <2>2. ASSUME NEW q \in Requests \ {r}, Signing(q)'
        PROVE  /\ <<txn'[q].user, txn'[q].el>> \in tokens'
               /\ \A w \in wallet : ~Holder(w, q)'
    BY <1>1, <1>2, <2>2 DEF Ticketed, Signing, Holder
  <2>3. /\ <<txn'[r].user, txn'[r].el>> \in tokens'
        /\ \A w \in wallet : ~Holder(w, r)'
    BY <1>1, <1>3, <2>1 DEF Holder
  <2> QED
    BY <2>2, <2>3
<1>6. ASSUME NEW p \in Requests, NEW q \in Requests,
             Signing(p)', Signing(q)', Holder(txn[p], q)'
      PROVE  p = q
  <2>1. ASSUME NEW x \in Requests \ {r}, Signing(x)'
        PROVE  <<txn'[x].user, txn'[x].el>> # g
    BY <1>1, <1>2, <2>1 DEF Ticketed, Signing
  <2>2. CASE p # r /\ q # r
    BY <1>2, <1>6, <2>2 DEF Ticketed, Signing, Holder
  <2> QED
    BY <1>3, <1>6, <2>1, <2>2 DEF Holder
<1>7. \A q \in Requests : txn'[q].op = "token" /\ txn'[q].pc = "ready"
         => <<txn'[q].user, txn'[q].el>> \notin Receipts
  BY <1>2, <1>3 DEF Ticketed
<1>8. OneSignature'
  BY <1>1 DEF Ticketed, OneSignature
<1> QED
  BY <1>1, <1>4, <1>5, <1>6, <1>7, <1>8 DEF Ticketed

(* The response carries the signature from the request to the browser.       *)
LEMMA TicketsFinish ==
  ASSUME TypeOK, Ticketed, NEW r \in Requests, NEW delivered \in BOOLEAN, NEW logged \in BOOLEAN,
             Finish(r, delivered, logged)
  PROVE  Ticketed'
<1>1. tokens' = tokens
  BY DEF Finish, db
<1>2. /\ \A q \in Requests \ {r} : txn'[q] = txn[q]
      /\ txn'[r].op = "idle"
  BY DEF Finish, TypeOK, Idle
<1>3. \A q \in Requests : Signing(q)' => Signing(q) /\ q # r /\ txn'[q] = txn[q]
  BY <1>2 DEF Signing
<1>4. \A q \in Requests : txn'[q].op = "token" /\ txn'[q].pc = "ready"
         => <<txn'[q].user, txn'[q].el>> \notin Receipts
  BY <1>2 DEF Ticketed
<1>5. \A p, q \in Requests : Signing(p)' /\ Signing(q)' /\ Holder(txn[p], q)' => p = q
  BY <1>3 DEF Ticketed, Holder
<1>6. CASE wallet' = wallet
  BY <1>1, <1>3, <1>4, <1>5, <1>6 DEF Ticketed, Holder, OneSignature
<1>7. CASE wallet' # wallet
  <2>1. Signing(r)
    BY <1>7 DEF Finish, Received, Signing
  <2>2. PICK n : n = Unblinded(txn[r])
    OBVIOUS
  <2>3. wallet' = wallet \cup {n} /\ n.user = txn[r].user /\ n.el = txn[r].el
    BY <1>7, <2>2 DEF Finish, Received, Unblinded
  <2>4. <<n.user, n.el>> \in tokens /\ \A w \in wallet : ~(w.user = n.user /\ w.el = n.el)
    BY <2>1, <2>3 DEF Ticketed, Holder
  <2>5. \A q \in Requests : Signing(q)' => ~(n.user = txn'[q].user /\ n.el = txn'[q].el)
    BY <1>3, <2>1, <2>3 DEF Ticketed, Holder
  <2>6. \A q \in Requests : Signing(q)' =>
           /\ <<txn'[q].user, txn'[q].el>> \in tokens'
           /\ \A w \in wallet' : ~Holder(w, q)'
    BY <1>1, <1>3, <2>3, <2>5 DEF Ticketed, Holder
  <2>7. OneSignature'
    BY <1>1, <2>3, <2>4 DEF Ticketed, OneSignature
  <2>8. \A w \in wallet' : <<w.user, w.el>> \in tokens'
    BY <1>1, <2>3, <2>4 DEF Ticketed
  <2> QED
    BY <1>4, <1>5, <2>6, <2>7, <2>8 DEF Ticketed
<1> QED
  BY <1>6, <1>7

LEMMA TicketsNext ==
  ASSUME TypeOK, Ticketed, [Next]_vars
  PROVE  Ticketed'
<1>1. CASE UNCHANGED vars
  BY <1>1 DEF vars, Ticketed, OneSignature, Signing, Holder
<1>2. ASSUME NEW r \in Requests, CommitToken(r) PROVE Ticketed'
  BY <1>2, TicketsCommit
<1>3. ASSUME NEW r \in Requests, NEW delivered \in BOOLEAN, NEW logged \in BOOLEAN,
             Finish(r, delivered, logged)
      PROVE  Ticketed'
  BY <1>3, TicketsFinish
<1>4. CASE /\ Next
           /\ ~\E r \in Requests : CommitToken(r)
           /\ ~\E r \in Requests, delivered, logged \in BOOLEAN :
                 Finish(r, delivered, logged)
  <2>1. UNCHANGED <<tokens, wallet>>
    BY <1>4, Writers
  <2>2. \A q \in Requests : Signing(q)' => Signing(q) /\ txn'[q] = txn[q]
    BY <1>4, TokenMoves DEF Signing
  <2>3. ASSUME NEW q \in Requests, txn'[q].op = "token", txn'[q].pc = "ready"
        PROVE  <<txn'[q].user, txn'[q].el>> \notin Receipts
    <3>1. CASE AuthorizeVoter(q)
      BY <3>1 DEF AuthorizeVoter, MayVote, Goto, TypeOK, TxnShape
    <3> QED
      BY <1>4, <2>3, <3>1, TokenMoves DEF Ticketed
  <2>4. \A w \in wallet' : <<w.user, w.el>> \in tokens'
    BY <2>1 DEF Ticketed
  <2>5. \A q \in Requests : Signing(q)' =>
           /\ <<txn'[q].user, txn'[q].el>> \in tokens'
           /\ \A w \in wallet' : ~Holder(w, q)'
    BY <2>1, <2>2 DEF Ticketed, Holder
  <2>6. \A p, q \in Requests : Signing(p)' /\ Signing(q)' /\ Holder(txn[p], q)' => p = q
    BY <2>2 DEF Ticketed, Holder
  <2>7. OneSignature'
    BY <2>1 DEF Ticketed, OneSignature
  <2> QED
    BY <2>3, <2>4, <2>5, <2>6, <2>7 DEF Ticketed
<1> QED
  BY <1>1, <1>2, <1>3, <1>4

LEMMA Tickets == Spec => []Ticketed
<1>1. TypeOK /\ Ticketed /\ [Next]_vars => Ticketed'
  BY TicketsNext
<1> QED
  BY <1>1, TicketsInit, TypeCorrect, PTL DEF Spec

(* A voter never has two signatures of one election, and none beside a       *)
(* receipt, however its requests race and whichever responses are lost, with *)
(* row locks or without (request_blind_token under the unique key            *)
(* uq_blind_sig_token_user_election).                                        *)
THEOREM SignedOnce == Spec => []OneSignature
<1>1. Ticketed => OneSignature
  BY DEF Ticketed
<1> QED
  BY <1>1, Tickets, PTL

-----------------------------------------------------------------------------
(* Every ballot spends the signature of an authorization.                    *)

Backed(signatures, e, n) == \E w \in signatures : w.el = e /\ w.ballot.nonce = n

\* A cast that passed its checks, a spent nullifier and a vote go back to a
\* signature in a browser, and no two nullifiers or votes to the same one.
Spending ==
  /\ \A r \in Requests : txn[r].op = "cast" /\ txn[r].pc = "ready"
        => Backed(wallet, txn[r].el, txn[r].arg)
  /\ \A s \in spent : Backed(wallet, s.el, s.nonce) /\ s.tx \in 1 .. Cardinality(spent)
  /\ \A s, z \in spent : s.tx = z.tx \/ (s.el = z.el /\ s.nonce = z.nonce) => s = z
  /\ \A v \in votes : \E s \in spent : s.tx = v.tx /\ s.el = v.el
  /\ \A v, x \in votes : v.tx = x.tx => v = x

LEMMA CastMoves ==
  ASSUME TypeOK, Next, NEW q \in Requests, txn'[q].op = "cast", txn'[q].pc = "ready"
  PROVE  txn'[q] = txn[q] \/ Arrived(q)
<1>1. Evolves(q)
  BY Evolution
<1>2. ~(SameWork(q) /\ (CheckRosterChange(q) \/ AuthorizeVoter(q)))
  BY DEF SameWork, CheckRosterChange, AuthorizeVoter
<1> QED
  BY <1>1, <1>2 DEF Evolves, Idle

LEMMA WalletGrows ==
  ASSUME Next
  PROVE  wallet \subseteq wallet'
BY Writers DEF Finish

LEMMA SpendingInit == Init => Spending
BY DEF Init, Spending, Idle

(* What a committed cast adds.                                               *)
LEMMA CastAdds ==
  ASSUME TypeOK, Spending, NEW r \in Requests, CommitCast(r)
  PROVE  \E s, v :
           /\ spent' = spent \cup {s} /\ votes' = votes \cup {v}
           /\ s.el = txn[r].el /\ s.nonce = txn[r].arg /\ s.tx = NextTx
           /\ v.el = txn[r].el /\ v.cand = txn[r].cand /\ v.tx = NextTx
           /\ s \notin spent /\ Cardinality(spent') = NextTx /\ Cardinality(spent) \in Nat
           /\ \A z \in spent : z.tx # NextTx
           /\ \A x \in votes : x.tx # NextTx
<1>1. PICK s : s = [tx |-> NextTx, el |-> txn[r].el, nonce |-> txn[r].arg]
  OBVIOUS
<1>2. PICK v : v = [tx |-> NextTx, el |-> txn[r].el, cand |-> txn[r].cand]
  OBVIOUS
<1>3. /\ s.el = txn[r].el /\ s.nonce = txn[r].arg /\ s.tx = NextTx
      /\ v.el = txn[r].el /\ v.cand = txn[r].cand /\ v.tx = NextTx
  BY <1>1, <1>2
<1>4. spent' = spent \cup {s} /\ votes' = votes \cup {v}
  BY <1>1, <1>2 DEF CommitCast
<1>5. IsFiniteSet(spent) /\ Cardinality(spent) \in Nat
  BY FS_CardinalityType DEF TypeOK
<1>6. /\ \A z \in spent : z.tx # NextTx
      /\ \A x \in votes : x.tx # NextTx
  BY <1>5 DEF Spending, NextTx
<1>7. s \notin spent
  BY <1>3, <1>6
<1>8. Cardinality(spent') = NextTx
  BY <1>4, <1>5, <1>7, FS_AddElement DEF NextTx
<1> QED
  BY <1>3, <1>4, <1>5, <1>6, <1>7, <1>8

LEMMA SpendingCommit ==
  ASSUME TypeOK, Spending, NEW r \in Requests, CommitCast(r)
  PROVE  Spending'
<1>1. PICK s, v :
           /\ spent' = spent \cup {s} /\ votes' = votes \cup {v}
           /\ s.el = txn[r].el /\ s.nonce = txn[r].arg /\ s.tx = NextTx
           /\ v.el = txn[r].el /\ v.cand = txn[r].cand /\ v.tx = NextTx
           /\ s \notin spent /\ Cardinality(spent') = NextTx /\ Cardinality(spent) \in Nat
           /\ \A z \in spent : z.tx # NextTx
           /\ \A x \in votes : x.tx # NextTx
  BY CastAdds
<1>2. wallet' = wallet
  BY DEF CommitCast, outside
<1>3. \A q \in Requests : txn'[q].op = "cast" /\ txn'[q].pc = "ready" => txn'[q] = txn[q]
  BY DEF CommitCast, TypeOK, TxnShape
<1>4. \A q \in Requests : txn'[q].op = "cast" /\ txn'[q].pc = "ready"
         => Backed(wallet', txn'[q].el, txn'[q].arg)
  BY <1>2, <1>3 DEF Spending
<1>5. Backed(wallet, s.el, s.nonce) /\ NullifierFresh(s.el, s.nonce)
  BY <1>1 DEF Spending, CommitCast
<1>6. \A z \in spent' : Backed(wallet', z.el, z.nonce) /\ z.tx \in 1 .. Cardinality(spent')
  BY <1>1, <1>2, <1>5 DEF Spending, NextTx
<1>7. \A y, z \in spent' : y.tx = z.tx \/ (y.el = z.el /\ y.nonce = z.nonce) => y = z
  BY <1>1, <1>5 DEF Spending, NullifierFresh
<1>8. \A x \in votes' : \E z \in spent' : z.tx = x.tx /\ z.el = x.el
  BY <1>1 DEF Spending
<1>9. \A x, y \in votes' : x.tx = y.tx => x = y
  BY <1>1 DEF Spending
<1> QED
  BY <1>4, <1>6, <1>7, <1>8, <1>9 DEF Spending

LEMMA SpendingNext ==
  ASSUME TypeOK, Spending, [Next]_vars
  PROVE  Spending'
<1>1. CASE UNCHANGED vars
  BY <1>1 DEF vars, Spending, Backed
<1>2. CASE \E r \in Requests : CommitCast(r)
  BY <1>2, SpendingCommit
<1>3. CASE Next /\ ~\E r \in Requests : CommitCast(r)
  <2>1. spent' = spent /\ votes' \subseteq votes
    BY <1>3, Writers DEF CommitDrop
  <2>2. \A e, n : Backed(wallet, e, n) => Backed(wallet', e, n)
    BY <1>3, WalletGrows DEF Backed
  <2>3. ASSUME NEW q \in Requests, txn'[q].op = "cast", txn'[q].pc = "ready"
        PROVE  Backed(wallet, txn'[q].el, txn'[q].arg)
    BY <1>3, <2>3, CastMoves DEF Spending, Arrived, Backed
  <2> QED
    BY <2>1, <2>2, <2>3 DEF Spending
<1> QED
  BY <1>1, <1>2, <1>3

LEMMA Spendings == Spec => []Spending
<1>1. TypeOK /\ Spending /\ [Next]_vars => Spending'
  BY SpendingNext
<1> QED
  BY <1>1, SpendingInit, TypeCorrect, PTL DEF Spec

LEMMA TokensFinite ==
  ASSUME TypeOK, NEW e \in Elections
  PROVE  IsFiniteSet(TokensIn(e)) /\ IsFiniteSet(VotesIn(e))
<1>1. IsFiniteSet(VotesIn(e))
  BY FS_Subset DEF TypeOK, VotesIn
<1>2. IsFiniteSet(Voters \X Elections)
  BY FS_Product, FiniteAssumption
<1>3. TokensIn(e) \subseteq Voters \X Elections
  BY DEF TypeOK, TokensIn
<1> QED
  BY <1>1, <1>2, <1>3, FS_Subset

LEMMA BackedBySpending ==
  ASSUME TypeOK, Ticketed, Spending
  PROVE  BallotsBacked
<1> SUFFICES ASSUME NEW e \in Elections
             PROVE  Cardinality(VotesIn(e)) <= Cardinality(TokensIn(e))
  BY DEF BallotsBacked
<1> DEFINE Pays(v, w) == \E s \in spent : /\ s.tx = v.tx /\ s.el = v.el
                                          /\ w.el = s.el /\ w.ballot.nonce = s.nonce
           payer == [v \in VotesIn(e) |-> CHOOSE w \in wallet : Pays(v, w)]
           grant == [v \in VotesIn(e) |-> <<payer[v].user, payer[v].el>>]
<1>1. ASSUME NEW v \in VotesIn(e)
      PROVE  payer[v] \in wallet /\ Pays(v, payer[v])
  <2>1. \E w \in wallet : Pays(v, w)
    BY DEF Spending, Backed, VotesIn
  <2> QED
    BY <2>1
<1>2. ASSUME NEW v \in VotesIn(e), NEW x \in VotesIn(e), payer[v] = payer[x]
      PROVE  v = x
  <2> HIDE DEF payer
  <2>1. Pays(v, payer[v]) /\ Pays(x, payer[v])
    BY <1>1, <1>2
  <2>2. PICK s \in spent : s.tx = v.tx /\ s.el = payer[v].el /\ s.nonce = payer[v].ballot.nonce
    BY <2>1
  <2>3. PICK z \in spent : z.tx = x.tx /\ z.el = payer[v].el /\ z.nonce = payer[v].ballot.nonce
    BY <2>1
  <2>4. s = z
    BY <2>2, <2>3 DEF Spending
  <2> QED
    BY <2>2, <2>3, <2>4 DEF Spending, VotesIn
<1>3. ASSUME NEW v \in VotesIn(e) PROVE payer[v].el = e
  BY <1>1 DEF VotesIn
<1> HIDE DEF payer
<1>4. grant \in [VotesIn(e) -> TokensIn(e)]
  BY <1>1, <1>3 DEF Ticketed, TokensIn
<1>5. ASSUME NEW v \in VotesIn(e), NEW x \in VotesIn(e), grant[v] = grant[x]
      PROVE  v = x
  <2>1. payer[v] = payer[x]
    BY <1>1, <1>5 DEF Ticketed, OneSignature
  <2> QED
    BY <1>2, <2>1
<1>6. grant \in Injection(VotesIn(e), TokensIn(e))
  BY <1>4, <1>5 DEF Injection, IsInjective
<1> QED
  BY <1>6, TokensFinite, FS_Injection DEF ExistsInjection

(* No election ever holds more ballots than it authorized voters, with row   *)
(* locks or without: every vote goes back, through its nullifier and the     *)
(* signature it spent, to an authorization of its own                        *)
(* (cast_anonymous_ballot under uq_spent_nullifier_election_hash).           *)
THEOREM NoBallotStuffing == Spec => []BallotsBacked
<1>1. TypeOK /\ Ticketed /\ Spending => BallotsBacked
  BY BackedBySpending
<1> QED
  BY <1>1, TypeCorrect, Tickets, Spendings, PTL

-----------------------------------------------------------------------------
(* Nothing that is committed escapes the log.                                *)

\* Casts and signatures name no actor.
Anonymous == \A r \in Requests : txn[r].op \in {"cast", "sign"} => txn[r].user = Nil

LEMMA AnonymousNext ==
  ASSUME TypeOK, Anonymous, [Next]_vars
  PROVE  Anonymous'
<1>1. CASE UNCHANGED vars
  BY <1>1 DEF vars, Anonymous
<1>2. ASSUME Next, NEW q \in Requests, txn'[q].op \in {"cast", "sign"}
      PROVE  txn'[q].user = Nil
  BY <1>2, Evolution DEF Evolves, SameWork, Arrived, Idle, Anonymous
<1> QED
  BY <1>1, <1>2 DEF Anonymous

LEMMA StaysAnonymous == Spec => []Anonymous
<1>1. Init => Anonymous
  BY DEF Init, Anonymous, Idle
<1>2. TypeOK /\ Anonymous /\ [Next]_vars => Anonymous'
  BY AnonymousNext
<1> QED
  BY <1>1, <1>2, TypeCorrect, PTL DEF Spec

\* A committed request only waits for its response to go out.
LEMMA DoneMoves ==
  ASSUME TypeOK, Next, NEW q \in Requests, txn[q].pc = "done"
  PROVE  \/ txn'[q] = txn[q]
         \/ \E delivered, logged \in BOOLEAN : Finish(q, delivered, logged)
         \/ LoseWorker(q)
<1>1. CASE \E r \in Requests \ {q} : Arrive(r) \/ Proceed(r) \/ Fail(r) \/ LoseWorker(r)
  BY <1>1, OnlyOne
<1>2. ~Arrive(q)
  BY Arrivals DEF Arrived, Idle
<1>3. CASE Proceed(q)
  BY <1>3 DEF Proceed, CommitOpen, CommitClose, CommitAdd, CheckRosterChange,
     RefuseRosterChange, CommitEdit, CommitDrop, ShareOpenElection, AuthorizeVoter,
     CommitToken, RefuseToken, CommitCast, RefuseCast, CommitReview, CommitSign, RefuseSign
<1>4. ~Fail(q)
  BY DEF Fail, Active
<1>5. CASE (\E u \in Reviewed : VerifyEmail(u)) \/ Tick
  BY <1>5 DEF VerifyEmail, Tick
<1> QED
  BY <1>1, <1>2, <1>3, <1>4, <1>5 DEF Next

TokenEvents == {[action |-> "token", user |-> t[1], el |-> t[2], cand |-> Nil, line |-> Nil]
                  : t \in tokens}
CastEvents  == {[action |-> "cast", user |-> Nil, el |-> s.el, cand |-> Nil, line |-> s.tx]
                  : s \in spent}
SignEvents  == {[action |-> "sign", user |-> Nil, el |-> e, cand |-> Nil, line |-> Nil]
                  : e \in {f \in Elections : signed[f] # Nil}}

LEMMA CommittedParts == Committed = TokenEvents \cup CastEvents \cup SignEvents
BY DEF Committed, TokenEvents, CastEvents, SignEvents

LEMMA CommittedFinite ==
  ASSUME TypeOK
  PROVE  IsFiniteSet(Committed)
<1>1. ASSUME NEW S, IsFiniteSet(S), NEW T, NEW f, f \in Surjection(S, T)
      PROVE  IsFiniteSet(T)
  BY <1>1, FS_Surjection
<1>2. IsFiniteSet(TokenEvents)
  <2> DEFINE f == [t \in tokens |-> [action |-> "token", user |-> t[1], el |-> t[2],
                                     cand |-> Nil, line |-> Nil]]
  <2>1. f \in Surjection(tokens, TokenEvents)
    BY DEF Surjection, TokenEvents
  <2>2. IsFiniteSet(tokens)
    <3>1. IsFiniteSet(Voters \X Elections)
      BY FS_Product, FiniteAssumption
    <3> QED
      BY <3>1, FS_Subset DEF TypeOK
  <2> QED
    BY <1>1, <2>1, <2>2
<1>3. IsFiniteSet(CastEvents)
  <2> DEFINE f == [s \in spent |-> [action |-> "cast", user |-> Nil, el |-> s.el,
                                    cand |-> Nil, line |-> s.tx]]
  <2>1. f \in Surjection(spent, CastEvents)
    BY DEF Surjection, CastEvents
  <2> QED
    BY <1>1, <2>1 DEF TypeOK
<1>4. IsFiniteSet(SignEvents)
  <2> DEFINE S == {e \in Elections : signed[e] # Nil}
             f == [e \in S |-> [action |-> "sign", user |-> Nil, el |-> e,
                                cand |-> Nil, line |-> Nil]]
  <2>1. f \in Surjection(S, SignEvents)
    BY DEF Surjection, SignEvents
  <2>2. IsFiniteSet(S)
    BY FS_Subset, FiniteAssumption
  <2> QED
    BY <1>1, <2>1, <2>2
<1> QED
  BY <1>2, <1>3, <1>4, FS_Union, CommittedParts

\* The event of a request that has just committed is on its way to the log.
LEMMA CommitPends ==
  ASSUME TypeOK, Anonymous, Next, NEW x \in Committed', x \notin Committed
  PROVE  x \in Pending'
<1>0. /\ Committed' = TokenEvents' \cup CastEvents' \cup SignEvents'
      /\ Committed = TokenEvents \cup CastEvents \cup SignEvents
  BY DEF Committed, TokenEvents, CastEvents, SignEvents
<1>1. ASSUME NEW r \in Requests, txn'[r].pc = "done", x = Event(txn'[r])
      PROVE  x \in Pending'
  BY <1>1 DEF Pending
<1>2. CASE x \in TokenEvents'
  <2>1. PICK t \in tokens' : x = [action |-> "token", user |-> t[1], el |-> t[2],
                                  cand |-> Nil, line |-> Nil]
    BY <1>2 DEF TokenEvents
  <2>2. t \notin tokens
    BY <1>0, <2>1 DEF TokenEvents
  <2>3. PICK r \in Requests : CommitToken(r)
    BY <2>2, Writers
  <2>4. t[1] = txn[r].user /\ t[2] = txn[r].el
    BY <2>2, <2>3 DEF CommitToken
  <2>5. /\ txn'[r].op = "token" /\ txn'[r].pc = "done"
        /\ txn'[r].user = txn[r].user /\ txn'[r].el = txn[r].el
    BY <2>3 DEF CommitToken, Goto, TypeOK, TxnShape
  <2>6. x = Event(txn'[r])
    BY <2>1, <2>4, <2>5 DEF Event
  <2> QED
    BY <1>1, <2>5, <2>6
<1>3. CASE x \in CastEvents'
  <2>1. PICK s \in spent' : x = [action |-> "cast", user |-> Nil, el |-> s.el,
                                 cand |-> Nil, line |-> s.tx]
    BY <1>3 DEF CastEvents
  <2>2. s \notin spent
    BY <1>0, <2>1 DEF CastEvents
  <2>3. PICK r \in Requests : CommitCast(r)
    BY <2>2, Writers
  <2>4. s.tx = NextTx /\ s.el = txn[r].el
    BY <2>2, <2>3 DEF CommitCast
  <2>5. /\ txn'[r].op = "cast" /\ txn'[r].pc = "done" /\ txn'[r].seen = NextTx
        /\ txn'[r].user = Nil /\ txn'[r].el = txn[r].el
    <3>1. txn'[r] = [txn[r] EXCEPT !.pc = "done", !.seen = NextTx]
      BY <2>3 DEF CommitCast, TypeOK
    <3> QED
      BY <2>3, <3>1 DEF CommitCast, TypeOK, TxnShape, Anonymous
  <2>6. x = Event(txn'[r])
    BY <2>1, <2>4, <2>5 DEF Event
  <2> QED
    BY <1>1, <2>5, <2>6
<1>4. CASE x \in SignEvents'
  <2>1. PICK e \in Elections : signed'[e] # Nil
           /\ x = [action |-> "sign", user |-> Nil, el |-> e, cand |-> Nil, line |-> Nil]
    BY <1>4 DEF SignEvents
  <2>2. signed[e] = Nil
    BY <1>0, <2>1 DEF SignEvents
  <2>3. PICK r \in Requests : CommitSign(r)
    BY <2>1, <2>2, Writers
  <2>4. e = txn[r].el
    BY <2>1, <2>2, <2>3 DEF CommitSign, TypeOK
  <2>5. /\ txn'[r].op = "sign" /\ txn'[r].pc = "done"
        /\ txn'[r].user = Nil /\ txn'[r].el = txn[r].el
    BY <2>3 DEF CommitSign, Goto, TypeOK, TxnShape, Anonymous
  <2>6. x = Event(txn'[r])
    BY <2>1, <2>4, <2>5 DEF Event
  <2> QED
    BY <1>1, <2>5, <2>6
<1> QED
  BY <1>0, <1>2, <1>3, <1>4

Missing == Committed \ (audit \cup Pending)

\* The worker dies before it logs, or emit swallows the error of its write.
Loses(r) ==
  LoseWorker(r) \/ \E delivered, logged \in BOOLEAN : ~logged /\ Finish(r, delivered, logged)

\* Only a loss takes an event away, and only its own.
LEMMA MissingStep ==
  ASSUME TypeOK, Anonymous, Next
  PROVE  \/ Missing' \subseteq Missing /\ lost' >= lost
         \/ /\ \E a : Missing' \subseteq Missing \cup {a}
            /\ lost' = lost + 1
<1>1. audit \subseteq audit'
  BY Writers DEF Finish
<1>2. ASSUME NEW x \in Missing', x \notin Missing
      PROVE  \E r \in Requests : Loses(r) /\ x = Event(txn[r])
  <2>1. x \in Committed' /\ x \notin audit' /\ x \notin Pending'
    BY DEF Missing
  <2>2. x \in Committed /\ x \notin audit
    BY <1>1, <2>1, CommitPends
  <2>3. PICK q \in Requests : txn[q].pc = "done" /\ x = Event(txn[q])
    BY <1>2, <2>2 DEF Missing, Pending
  <2>4. txn'[q] # txn[q]
    BY <2>1, <2>3 DEF Pending
  <2>5. \A delivered, logged \in BOOLEAN : Finish(q, delivered, logged) => ~logged
    BY <2>1, <2>3 DEF Finish
  <2> QED
    BY <2>3, <2>4, <2>5, DoneMoves DEF Loses
<1>3. CASE \E r \in Requests : Loses(r)
  <2>1. PICK r \in Requests : Loses(r)
    BY <1>3
  <2>2. lost' = lost + 1
    BY <2>1 DEF Loses, LoseWorker, Finish
  <2>3. ASSUME NEW q \in Requests, Loses(q)
        PROVE  txn[q].pc = "done" /\ txn' = [txn EXCEPT ![q] = Idle]
    BY <2>3 DEF Loses, LoseWorker, Finish
  <2>4. ASSUME NEW q \in Requests, Loses(q) PROVE q = r
    <3>1. ASSUME q # r PROVE FALSE
      <4>1. txn'[q] = Idle /\ txn'[q] = txn[q] /\ txn[q].pc = "done"
        BY <2>1, <2>3, <2>4, <3>1 DEF TypeOK
      <4> QED
        BY <4>1 DEF Idle
    <3> QED
      BY <3>1
  <2>5. Missing' \subseteq Missing \cup {Event(txn[r])}
    BY <1>2, <2>4
  <2> QED
    BY <2>2, <2>5
<1>4. CASE ~\E r \in Requests : Loses(r)
  <2>1. lost' = lost
    BY <1>4, Writers DEF Loses, Finish
  <2> QED
    BY <1>2, <1>4, <2>1 DEF TypeOK
<1> QED
  BY <1>3, <1>4

LEMMA CompleteNext ==
  ASSUME TypeOK, TypeOK', Anonymous, AuditComplete, [Next]_vars
  PROVE  AuditComplete'
<1>0. Missing = Committed \ (audit \cup Pending)
  BY DEF Missing
<1>1. CASE UNCHANGED vars
  BY <1>1 DEF vars, AuditComplete, Committed, Pending, Event
<1>2. CASE Next
  <2>1. IsFiniteSet(Missing) /\ Cardinality(Missing) \in Nat
    BY CommittedFinite, FS_Subset, FS_CardinalityType DEF Missing
  <2>2. ASSUME NEW S, IsFiniteSet(S), Missing' \subseteq S
        PROVE  Cardinality(Missing') \in Nat /\ Cardinality(Missing') <= Cardinality(S)
    BY <2>2, FS_Subset, FS_CardinalityType
  <2>3. lost \in Nat /\ lost' \in Nat
    BY BoundsAssumption DEF TypeOK
  <2>4. Cardinality(Missing) <= lost
    BY DEF AuditComplete, Missing
  <2>5. CASE Missing' \subseteq Missing /\ lost' >= lost
    <3>1. Cardinality(Missing') <= lost'
      BY <2>1, <2>2, <2>3, <2>4, <2>5
    <3> QED
      BY <3>1 DEF AuditComplete, Missing
  <2>6. ASSUME NEW a, Missing' \subseteq Missing \cup {a}, lost' = lost + 1
        PROVE  AuditComplete'
    <3>1. /\ IsFiniteSet(Missing \cup {a})
          /\ Cardinality(Missing \cup {a}) <= Cardinality(Missing) + 1
      BY <2>1, FS_AddElement
    <3>2. /\ Cardinality(Missing') \in Nat
          /\ Cardinality(Missing') <= Cardinality(Missing \cup {a})
      BY <2>2, <2>6, <3>1
    <3>3. Cardinality(Missing \cup {a}) \in Nat
      BY <3>1, FS_CardinalityType
    <3>4. Cardinality(Missing') <= lost'
      BY <2>1, <2>3, <2>4, <2>6, <3>1, <3>2, <3>3
    <3> QED
      BY <3>4 DEF AuditComplete, Missing
  <2> QED
    BY <1>2, <2>5, <2>6, MissingStep
<1> QED
  BY <1>1, <1>2

(* Every authorization, ballot and signature reaches the audit log or is     *)
(* about to, except one for each worker that died between its commit and its *)
(* event and one for each write whose error emit swallowed, whatever runs at *)
(* the same time (record_audit_event after the commits of main.py and        *)
(* results.py, HmacAuditHandler.emit).                                       *)
THEOREM NothingUnlogged == Spec => []AuditComplete
<1>1. Init => AuditComplete
  <2> SUFFICES ASSUME Init PROVE AuditComplete
    OBVIOUS
  <2>1. Committed \ (audit \cup Pending) = {}
    BY CommittedParts DEF Init, TokenEvents, CastEvents, SignEvents
  <2> QED
    BY <2>1, FS_EmptySet DEF Init, AuditComplete
<1>2. TypeOK /\ TypeOK' /\ Anonymous /\ AuditComplete /\ [Next]_vars => AuditComplete'
  BY CompleteNext
<1> QED
  BY <1>1, <1>2, TypeCorrect, StaysAnonymous, PTL DEF Spec

-----------------------------------------------------------------------------
(* Races that the row locks exclude.                                         *)

\* Voting in the election has begun.
Begun(e) == status[e] \in {"open", "closed"}

LEMMA BegunStep ==
  ASSUME TypeOK, ChecksOutliveWaits, Next, NEW e \in Elections, Begun(e)
  PROVE  /\ Begun(e)'
         /\ status[e] = "closed" => status'[e] = "closed"
         /\ Roster(e)' = Roster(e) /\ ContestsOf(e)' = ContestsOf(e)
         /\ \A c \in Roster(e) : row'[c] = row[c]
<1>1. ForwardStep /\ FrozenStep
  BY StatusStep, RosterStep
<1>2. Begun(e)' /\ (status[e] = "closed" => status'[e] = "closed")
  BY <1>1 DEF ForwardStep, Begun
<1>3. \A c \in Candidates : c \in Roster(e) \/ c \in Roster(e)' => row'[c] = row[c]
  BY <1>1 DEF FrozenStep, Begun, Roster
<1>4. Roster(e)' = Roster(e) /\ \A c \in Roster(e) : row'[c] = row[c]
  BY <1>3 DEF Roster
<1>5. ContestsOf(e)' = ContestsOf(e)
  BY <1>4 DEF ContestsOf
<1> QED
  BY <1>2, <1>4, <1>5

-----------------------------------------------------------------------------
(* Ballots are cast in elections that have begun, over a roster that stays.  *)

Settled ==
  /\ \A v \in votes : Begun(v.el)
  /\ \A t \in tokens : Begun(t[2])
  /\ OpenRosterSingle

\* No candidate that has votes is ever deleted.
LEMMA VotesStay ==
  ASSUME TypeOK, ChecksOutliveWaits, Settled, Next
  PROVE  votes' = votes \/ \E r \in Requests : CommitCast(r)
<1>1. ASSUME NEW r \in Requests, CommitDrop(r) PROVE votes' = votes
  <2>1. Checked(r) /\ RowMatches(r) /\ VotesHaveRows
    BY DEF ChecksOutliveWaits
  <2>2. \A v \in votes : v.cand # txn[r].cand
    BY <1>1, <2>1, IdentifiersAssumption
       DEF CommitDrop, Checked, RowMatches, VotesHaveRows, Settled, Begun
  <2> QED
    BY <1>1, <2>2 DEF CommitDrop
<1> QED
  BY <1>1, Writers

LEMMA SettledInit == Init => Settled
BY TableAssumption DEF Init, Settled, OpenRosterSingle

LEMMA SettledNext ==
  ASSUME TypeOK, ChecksOutliveWaits, Settled, [Next]_vars
  PROVE  Settled'
<1>1. CASE UNCHANGED vars
  BY <1>1 DEF vars, Settled, Begun, OpenRosterSingle, SingleContest, ContestsOf, Roster
<1>2. CASE Next
  <2>1. \A e \in Elections : Begun(e) => Begun(e)' /\ ContestsOf(e)' = ContestsOf(e)
    BY <1>2, BegunStep
  <2>2. ASSUME NEW v \in votes' PROVE Begun(v.el)'
    <3>1. CASE v \in votes
      BY <2>1, <3>1 DEF Settled, TypeOK
    <3>2. CASE v \notin votes
      <4>1. PICK r \in Requests : CommitCast(r)
        BY <1>2, <3>2, VotesStay
      <4>2. v.el = txn[r].el /\ txn[r].op = "cast" /\ txn[r].pc = "ready"
        BY <3>2, <4>1 DEF CommitCast
      <4>3. Begun(v.el) /\ v.el \in Elections
        BY <4>2, CheckedElection DEF ChecksOutliveWaits, Checked, Begun
      <4> QED
        BY <2>1, <4>3
    <3> QED
      BY <3>1, <3>2
  <2>3. ASSUME NEW t \in tokens' PROVE Begun(t[2])'
    <3>1. CASE t \in tokens
      BY <2>1, <3>1 DEF Settled, TypeOK
    <3>2. CASE t \notin tokens
      <4>1. PICK r \in Requests : CommitToken(r)
        BY <1>2, <3>2, Writers
      <4>2. t[2] = txn[r].el /\ txn[r].op = "token" /\ txn[r].pc = "ready"
        BY <3>2, <4>1 DEF CommitToken
      <4>3. Begun(t[2]) /\ t[2] \in Elections
        BY <4>2, CheckedElection DEF ChecksOutliveWaits, Checked, Begun
      <4> QED
        BY <2>1, <4>3
    <3> QED
      BY <3>1, <3>2
  <2>4. ASSUME NEW e \in Elections, Begun(e)', InitStatus[e] # "open"
        PROVE  SingleContest(ContestsOf(e)')
    <3>1. CASE Begun(e)
      BY <2>1, <2>4, <3>1 DEF Settled, OpenRosterSingle, Begun
    <3>2. CASE ~Begun(e)
      <4>1. status'[e] # status[e]
        BY <2>4, <3>2 DEF Begun
      <4>2. PICK r \in Requests : CommitOpen(r) \/ CommitClose(r)
               \/ \E f \in Elections, times \in Schedules : CreateElection(r, f, times)
        BY <1>2, <4>1, Writers
      <4>3. status'[e] = "open" /\ e = txn[r].el /\ CommitOpen(r)
        BY <2>4, <3>2, <4>1, <4>2 DEF Begun, CommitOpen, CommitClose, CreateElection,
             TypeOK, ChecksOutliveWaits, Checked
      <4>4. SingleContest(ContestsOf(e))
        BY <4>3 DEF CommitOpen, ChecksOutliveWaits, Checked, MayOpen
      <4>5. ContestsOf(e)' = ContestsOf(e)
        BY <4>3 DEF CommitOpen, ContestsOf, Roster
      <4> QED
        BY <4>4, <4>5
    <3> QED
      BY <3>1, <3>2
  <2>5. OpenRosterSingle'
    BY <2>4 DEF OpenRosterSingle, Begun, SingleContest
  <2> QED
    BY <2>2, <2>3, <2>5 DEF Settled
<1> QED
  BY <1>1, <1>2

LEMMA StaysSettled == RowLocks => (Spec => []Settled)
<1> SUFFICES ASSUME RowLocks PROVE Spec => []Settled
  OBVIOUS
<1>1. TypeOK /\ ChecksOutliveWaits /\ Settled /\ [Next]_vars => Settled'
  BY SettledNext
<1> QED
  BY <1>1, SettledInit, TypeCorrect, LocksSuffice, PTL DEF Spec

(* An election that open_election let through keeps one region and one       *)
(* contest, whatever roster changes were under way (open_election against    *)
(* create_candidate, update_candidate and delete_candidate).                 *)
THEOREM OpensOneContest == RowLocks => (Spec => []OpenRosterSingle)
<1> SUFFICES ASSUME RowLocks PROVE Spec => []OpenRosterSingle
  OBVIOUS
<1>1. Settled => OpenRosterSingle
  BY DEF Settled
<1> QED
  BY <1>1, StaysSettled, PTL

(* A committed ballot is never taken back out of the count: the cascade of a *)
(* deleted candidate finds no vote, so votes and nullifiers stay paired      *)
(* (delete_candidate against cast_anonymous_ballot).                         *)
THEOREM BallotsStay == RowLocks => (Spec => []BallotsKept)
<1> SUFFICES ASSUME RowLocks PROVE Spec => []BallotsKept
  OBVIOUS
<1>1. Init => BallotsKept
  BY DEF Init, BallotsKept
<1>2. ASSUME TypeOK, ChecksOutliveWaits, Settled, Spending, BallotsKept, [Next]_vars
      PROVE  BallotsKept'
  <2>1. CASE UNCHANGED vars
    BY <1>2, <2>1 DEF vars, BallotsKept
  <2>2. ASSUME Next, NEW r \in Requests, CommitCast(r) PROVE BallotsKept'
    <3>1. PICK s, v : /\ spent' = spent \cup {s} /\ votes' = votes \cup {v}
                      /\ s.el = v.el /\ s.tx = v.tx
      BY <1>2, <2>2, CastAdds
    <3>2. [tx |-> v.tx, el |-> v.el] = [tx |-> s.tx, el |-> s.el]
      BY <3>1
    <3> QED
      BY <1>2, <3>1, <3>2 DEF BallotsKept
  <2>3. CASE Next /\ ~\E r \in Requests : CommitCast(r)
    <3>1. votes' = votes /\ spent' = spent
      BY <1>2, <2>3, VotesStay, Writers
    <3> QED
      BY <1>2, <3>1 DEF BallotsKept
  <2> QED
    BY <1>2, <2>1, <2>2, <2>3
<1> QED
  BY <1>1, <1>2, TypeCorrect, LocksSuffice, StaysSettled, Spendings, PTL DEF Spec

-----------------------------------------------------------------------------
(* The voting window.                                                        *)

Windowed ==
  /\ \A e \in Elections : Begun(e) => openAt[e] \in Times
  /\ \A r \in Requests :
        txn[r].op = "open" /\ txn[r].pc = "ready" /\ closeAt[txn[r].el] # Nil
          => txn[r].arg < closeAt[txn[r].el]
  /\ \A r \in Requests : txn[r].op = "cast" /\ txn[r].pc = "ready"
          => openAt[txn[r].el] <= now
  /\ InsideWindow

\* Nothing moves the opening time of an election once it has begun, and
\* nothing but its own opening or closing the times of a draft or open one.
LEMMA TimesStep ==
  ASSUME TypeOK, ChecksOutliveWaits, Next, NEW e \in Elections
  PROVE  /\ Begun(e) => openAt'[e] = openAt[e]
         /\ status[e] # "none" /\ closeAt'[e] # closeAt[e] => status'[e] = "closed"
<1>1. CASE UNCHANGED <<status, openAt, closeAt>>
  BY <1>1
<1>2. ASSUME NEW r \in Requests, CommitOpen(r)
      PROVE  closeAt' = closeAt /\ (Begun(e) => openAt'[e] = openAt[e])
  BY <1>2 DEF CommitOpen, ChecksOutliveWaits, Checked, MayOpen, Begun, TypeOK
<1>3. ASSUME NEW r \in Requests, CommitClose(r)
      PROVE  openAt' = openAt /\ (closeAt'[e] # closeAt[e] => status'[e] = "closed")
  BY <1>3 DEF CommitClose, TypeOK
<1>4. ASSUME NEW r \in Requests, NEW f \in Elections, NEW times \in Schedules,
             CreateElection(r, f, times)
      PROVE  /\ Begun(e) => openAt'[e] = openAt[e]
             /\ closeAt'[e] # closeAt[e] => status[e] = "none"
  BY <1>4 DEF CreateElection, Begun, TypeOK
<1> QED
  BY <1>1, <1>2, <1>3, <1>4, Writers

LEMMA OpenMoves ==
  ASSUME TypeOK, Next, NEW q \in Requests, txn'[q].op = "open", txn'[q].pc = "ready"
  PROVE  txn'[q] = txn[q] \/ Arrived(q)
<1>1. Evolves(q)
  BY Evolution
<1>2. ~(SameWork(q) /\ (CheckRosterChange(q) \/ AuthorizeVoter(q)))
  BY DEF SameWork, CheckRosterChange, AuthorizeVoter
<1> QED
  BY <1>1, <1>2 DEF Evolves, Idle

LEMMA WindowedInit == Init => Windowed
<1> SUFFICES ASSUME Init PROVE Windowed
  OBVIOUS
<1>1. \A e \in Elections : Begun(e) => openAt[e] \in Times
  BY TableAssumption, BoundsAssumption DEF Init, Begun, Times
<1>2. InsideWindow
  BY DEF Init, InsideWindow
<1> QED
  BY <1>1, <1>2 DEF Init, Windowed, Idle

LEMMA WindowedNext ==
  ASSUME TypeOK, ChecksOutliveWaits, Settled, Windowed, [Next]_vars
  PROVE  Windowed'
<1>1. CASE UNCHANGED vars
  BY <1>1 DEF vars, Windowed, InsideWindow, Begun
<1>2. CASE Next
  <2>0. now \in Nat /\ now' \in Nat /\ now <= now'
    BY <1>2, Writers, BoundsAssumption DEF Tick, TypeOK, Times
  <2>1. ASSUME NEW e \in Elections, Begun(e)', ~Begun(e)
        PROVE  \E r \in Requests :
                 /\ txn[r].op = "open" /\ txn[r].pc = "ready" /\ txn[r].el = e
                 /\ openAt'[e] = txn[r].arg /\ closeAt' = closeAt /\ txn[r].arg \in Times
    <3>1. PICK r \in Requests : CommitOpen(r) \/ CommitClose(r)
             \/ \E f \in Elections, times \in Schedules : CreateElection(r, f, times)
      BY <1>2, <2>1, Writers DEF Begun
    <3>2. CommitOpen(r) /\ txn[r].el = e
      BY <2>1, <3>1 DEF Begun, CommitOpen, CommitClose, CreateElection,
           TypeOK, ChecksOutliveWaits, Checked
    <3>3. txn[r].arg \in Times
      BY <3>2 DEF CommitOpen, TypeOK, TxnOK, Idle
    <3> QED
      BY <3>2, <3>3 DEF CommitOpen, TypeOK
  <2>2. ASSUME NEW e \in Elections, Begun(e)' PROVE openAt'[e] \in Times
    BY <1>2, <2>1, <2>2, TimesStep DEF Windowed
  <2>3. ASSUME NEW q \in Requests, txn'[q].op = "open", txn'[q].pc = "ready",
               closeAt'[txn'[q].el] # Nil
        PROVE  txn'[q].arg < closeAt'[txn'[q].el]
    <3>1. CASE Arrived(q)
      <4>1. /\ closeAt' = closeAt /\ txn'[q].el \in Elections
            /\ closeAt[txn'[q].el] # Nil => closeAt[txn'[q].el] > txn'[q].arg
        BY <2>3, <3>1 DEF Arrived, db
      <4>2. OpeningTime(txn'[q].el) \in Times /\ txn'[q].arg = OpeningTime(txn'[q].el)
        BY <2>3, <3>1, <4>1 DEF Arrived, OpeningTime, TypeOK, MaybeTime
      <4>3. closeAt[txn'[q].el] \in Times
        BY <2>3, <4>1 DEF TypeOK, MaybeTime
      <4> QED
        BY <2>3, <4>1, <4>2, <4>3, BoundsAssumption DEF Times
    <3>2. CASE txn'[q] = txn[q]
      <4>1. txn[q].el \in Elections /\ status[txn[q].el] = "draft"
        BY <2>3, <3>2, CheckedElection DEF ChecksOutliveWaits, Checked, MayOpen
      <4>2. closeAt'[txn[q].el] = closeAt[txn[q].el]
        BY <1>2, <4>1, TimesStep, StatusStep DEF ForwardStep
      <4> QED
        BY <2>3, <3>2, <4>2 DEF Windowed
    <3> QED
      BY <1>2, <2>3, <3>1, <3>2, OpenMoves
  <2>4. ASSUME NEW q \in Requests, txn'[q].op = "cast", txn'[q].pc = "ready"
        PROVE  openAt'[txn'[q].el] <= now'
    <3>1. CASE Arrived(q)
      <4>1. /\ UNCHANGED <<openAt, now>> /\ txn'[q].el \in Elections
            /\ IsOpen(txn'[q].el)
        BY <2>4, <3>1 DEF Arrived, db, outside
      <4>2. openAt[txn'[q].el] \in Times
        BY <4>1 DEF Windowed, Begun, IsOpen
      <4> QED
        BY <4>1, <4>2, <2>0, IdentifiersAssumption, BoundsAssumption DEF IsOpen, Times
    <3>2. CASE txn'[q] = txn[q]
      <4>1. txn[q].el \in Elections /\ Begun(txn[q].el) /\ openAt[txn[q].el] <= now
        BY <2>4, <3>2, CheckedElection DEF ChecksOutliveWaits, Checked, Begun, Windowed
      <4>2. openAt'[txn[q].el] = openAt[txn[q].el] /\ openAt[txn[q].el] \in Times
        BY <1>2, <4>1, TimesStep DEF Windowed
      <4> QED
        BY <2>0, <3>2, <4>1, <4>2, BoundsAssumption DEF Times
    <3> QED
      BY <1>2, <2>4, <3>1, <3>2, CastMoves
  <2>5. ASSUME NEW e \in Elections, status'[e] = "open", closeAt'[e] # Nil
        PROVE  openAt'[e] < closeAt'[e]
    <3>1. CASE Begun(e)
      <4>1. status[e] = "open"
        BY <1>2, <2>5, <3>1, StatusStep DEF Begun, ForwardStep
      <4>2. openAt'[e] = openAt[e] /\ closeAt'[e] = closeAt[e]
        BY <1>2, <2>5, <3>1, <4>1, TimesStep
      <4> QED
        BY <2>5, <4>1, <4>2 DEF Windowed, InsideWindow
    <3>2. CASE ~Begun(e)
      BY <2>1, <2>5, <3>2 DEF Begun, Windowed
    <3> QED
      BY <3>1, <3>2
  <2>6. ASSUME NEW v \in votes' PROVE openAt'[v.el] <= now'
    <3>1. Begun(v.el) /\ v.el \in Elections /\ openAt[v.el] <= now
      <4>1. CASE v \in votes
        BY <4>1 DEF Settled, Windowed, InsideWindow, TypeOK
      <4>2. CASE v \notin votes
        <5>1. PICK r \in Requests : CommitCast(r)
          BY <1>2, <4>2, VotesStay
        <5>2. v.el = txn[r].el /\ txn[r].op = "cast" /\ txn[r].pc = "ready"
          BY <4>2, <5>1 DEF CommitCast
        <5> QED
          BY <5>2, CheckedElection DEF ChecksOutliveWaits, Checked, Begun, Windowed
      <4> QED
        BY <4>1, <4>2
    <3>2. openAt'[v.el] = openAt[v.el] /\ openAt[v.el] \in Times
      BY <1>2, <3>1, TimesStep DEF Windowed
    <3> QED
      BY <2>0, <3>1, <3>2, BoundsAssumption DEF Times
  <2>7. InsideWindow'
    BY <2>5, <2>6 DEF InsideWindow
  <2> QED
    BY <2>2, <2>3, <2>4, <2>7 DEF Windowed
<1> QED
  BY <1>1, <1>2

(* No ballot is committed before the opening time of its election, and the   *)
(* window of an open election is not empty, although open_election computed  *)
(* the opening time before it committed and clocks moved on in between       *)
(* (open_election, close_election, Election.is_open).                        *)
THEOREM WindowKept == RowLocks => (Spec => []InsideWindow)
<1> SUFFICES ASSUME RowLocks PROVE Spec => []InsideWindow
  OBVIOUS
<1>1. TypeOK /\ ChecksOutliveWaits /\ Settled /\ Windowed /\ [Next]_vars => Windowed'
  BY WindowedNext
<1>2. Windowed => InsideWindow
  BY DEF Windowed
<1> QED
  BY <1>1, <1>2, WindowedInit, TypeCorrect, LocksSuffice, StaysSettled, PTL DEF Spec

-----------------------------------------------------------------------------
(* Voters vote in the region they are enrolled in.                           *)

Resident ==
  /\ \A r \in Requests : txn[r].op = "token" /\ txn[r].pc = "ready"
        => InRegion(txn[r].user, ContestsOf(txn[r].el))
  /\ AuthorizedInRegion

LEMMA ResidentNext ==
  ASSUME ~SnapshotReads, TypeOK, ChecksOutliveWaits, Settled, Resident, [Next]_vars
  PROVE  Resident'
<1>1. CASE UNCHANGED vars
  BY <1>1 DEF vars, Resident, AuthorizedInRegion, InRegion, ContestsOf, Roster
<1>2. CASE Next
  <2>0. ASSUME NEW u, NEW e \in Elections, Begun(e), InRegion(u, ContestsOf(e))
        PROVE  InRegion(u, ContestsOf(e)')
    BY <1>2, <2>0, BegunStep
  <2>1. ASSUME NEW q \in Requests, txn'[q].op = "token", txn'[q].pc = "ready"
        PROVE  InRegion(txn[q].user, ContestsOf(txn[q].el))'
    <3>1. PICK u, e : u = txn[q].user /\ e = txn[q].el
      OBVIOUS
    <3>2. /\ txn'[q].user = u /\ txn'[q].el = e
          /\ txn[q].op = "token" /\ txn[q].pc \in {"election", "ready"}
          /\ InRegion(u, ContestsOf(e))
      <4>1. CASE txn'[q] = txn[q]
        BY <2>1, <3>1, <4>1 DEF Resident
      <4>2. CASE AuthorizeVoter(q)
        BY <3>1, <4>2 DEF AuthorizeVoter, MayVote, RosterRead, Goto, TypeOK, TxnShape
      <4> QED
        BY <1>2, <2>1, <4>1, <4>2, TokenMoves
    <3>3. e \in Elections /\ Begun(e)
      BY <3>1, <3>2, CheckedElection DEF ChecksOutliveWaits, Checked, Begun
    <3> QED
      BY <2>0, <3>2, <3>3
  <2>2. ASSUME NEW t \in tokens' PROVE InRegion(t[1], ContestsOf(t[2])')
    <3>1. PICK u, e : u = t[1] /\ e = t[2]
      OBVIOUS
    <3>2. Begun(e) /\ e \in Elections /\ InRegion(u, ContestsOf(e))
      <4>1. CASE t \in tokens
        BY <3>1, <4>1 DEF Settled, Resident, AuthorizedInRegion, TypeOK
      <4>2. CASE t \notin tokens
        <5>1. PICK r \in Requests : CommitToken(r)
          BY <1>2, <4>2, Writers
        <5>2. /\ u = txn[r].user /\ e = txn[r].el
              /\ txn[r].op = "token" /\ txn[r].pc = "ready"
          BY <3>1, <4>2, <5>1 DEF CommitToken
        <5> QED
          BY <5>2, CheckedElection DEF ChecksOutliveWaits, Checked, Begun, Resident
      <4> QED
        BY <4>1, <4>2
    <3> QED
      BY <2>0, <3>1, <3>2
  <2> QED
    BY <2>1, <2>2 DEF Resident, AuthorizedInRegion, InRegion
<1> QED
  BY <1>1, <1>2

(* Where every read is as fresh as its lock, a voter is authorized only in   *)
(* an election of its own region, although the roster could still change     *)
(* when the request arrived (request_blind_token against candidates.py).     *)
THEOREM VotesAtHome ==
  RowLocks /\ ~SnapshotReads => (Spec => []AuthorizedInRegion)
<1> SUFFICES ASSUME RowLocks, ~SnapshotReads PROVE Spec => []AuthorizedInRegion
  OBVIOUS
<1>1. Init => Resident
  BY DEF Init, Resident, AuthorizedInRegion, Idle
<1>2. TypeOK /\ ChecksOutliveWaits /\ Settled /\ Resident /\ [Next]_vars => Resident'
  BY ResidentNext
<1>3. Resident => AuthorizedInRegion
  BY DEF Resident
<1> QED
  BY <1>1, <1>2, <1>3, TypeCorrect, LocksSuffice, StaysSettled, PTL DEF Spec

-----------------------------------------------------------------------------
(* The log tells the truth.                                                  *)

\* What an event claims.
Holds(a) ==
  /\ a.action = "token" => <<a.user, a.el>> \in tokens
  /\ a.action = "cast" => \E s \in spent : s.tx = a.line /\ s.el = a.el
  /\ a.action = "open" => a.el \in Elections /\ Begun(a.el)
  /\ a.action = "close" => a.el \in Elections /\ status[a.el] = "closed"
  /\ a.action = "sign" => a.el \in Elections /\ signed[a.el] # Nil
  /\ a.action = "drop" => a.cand \in Candidates /\ row[a.cand] = Gone

Truthful ==
  /\ \A a \in audit : Holds(a)
  /\ \A r \in Requests : txn[r].pc = "done" => Holds(Event(txn[r]))

\* What was true of the tables stays true.
LEMMA TruthStays ==
  ASSUME TypeOK, ChecksOutliveWaits, Next, NEW a, Holds(a)
  PROVE  Holds(a)'
<1>1. tokens \subseteq tokens' /\ spent \subseteq spent'
  BY Writers DEF CommitToken, CommitCast
<1>2. \A e \in Elections : /\ Begun(e) => Begun(e)'
                           /\ status[e] = "closed" => status'[e] = "closed"
  BY BegunStep DEF Begun
<1>3. \A e \in Elections : signed[e] # Nil => signed'[e] # Nil
  <2>1. CASE signed' = signed
    BY <2>1
  <2>2. ASSUME NEW r \in Requests, CommitSign(r), NEW e \in Elections, signed[e] # Nil
        PROVE  signed'[e] # Nil
    BY <2>2 DEF CommitSign, TypeOK
  <2> QED
    BY <2>1, <2>2, Writers
<1>4. \A c \in Candidates : row[c] = Gone => row'[c] = Gone
  <2>1. CASE row' = row
    BY <2>1
  <2>2. ASSUME NEW r \in Requests, CommitAdd(r) \/ CommitEdit(r) \/ CommitDrop(r),
               NEW c \in Candidates, row[c] = Gone
        PROVE  row'[c] = Gone
    <3>1. RowMatches(r)
      BY DEF ChecksOutliveWaits
    <3> QED
      BY <2>2, <3>1, IdentifiersAssumption
         DEF CommitAdd, CommitEdit, CommitDrop, RowMatches, TypeOK
  <2> QED
    BY <2>1, <2>2, Writers
<1> QED
  BY <1>1, <1>2, <1>3, <1>4 DEF Holds

\* The event of a commit is true when it is committed.
LEMMA CommitTruth ==
  ASSUME TypeOK, ChecksOutliveWaits, Spending, Next, NEW q \in Requests, Commits(q),
         SameWork(q), txn'[q].seen = IF txn[q].op = "cast" THEN NextTx ELSE txn[q].seen
  PROVE  Holds(Event(txn[q]))'
<1>1. PICK a : a = Event(txn[q])'
  OBVIOUS
<1>2. /\ a.action = txn[q].op /\ a.user = txn[q].user /\ a.el = txn[q].el
      /\ txn[q].op = "drop" => a.cand = txn[q].cand
      /\ txn[q].op = "cast" => a.line = NextTx
  BY <1>1 DEF Event, SameWork
<1>3. Holds(a)'
  <2>1. CASE CommitToken(q)
    BY <1>2, <2>1 DEF CommitToken, Holds
  <2>2. CASE CommitCast(q)
    <3>1. PICK s : spent' = spent \cup {s} /\ s.tx = NextTx /\ s.el = txn[q].el
      BY <2>2, CastAdds
    <3> QED
      BY <1>2, <2>2, <3>1 DEF CommitCast, Holds
  <2>3. CASE CommitOpen(q) \/ CommitClose(q)
    <3>1. txn[q].el \in Elections
      BY <2>3, CheckedElection DEF CommitOpen, CommitClose
    <3> QED
      BY <1>2, <2>3, <3>1 DEF CommitOpen, CommitClose, Holds, Begun, TypeOK
  <2>4. CASE CommitSign(q)
    <3>1. txn[q].el \in Elections /\ IsTally(txn[q].seen)
      BY <2>4 DEF CommitSign, TypeOK, TxnOK, Idle
    <3>2. txn[q].seen # Nil
      BY <3>1, TallyAssumption DEF IsTally
    <3> QED
      BY <1>2, <2>4, <3>1, <3>2 DEF CommitSign, Holds, TypeOK
  <2>5. CASE CommitAdd(q) \/ CommitEdit(q) \/ CommitReview(q)
    BY <1>2, <2>5 DEF CommitAdd, CommitEdit, CommitReview, Holds
  <2>6. CASE CommitDrop(q)
    <3>1. txn[q].cand \in Candidates
      BY <2>6 DEF CommitDrop, TypeOK, TxnOK, Idle
    <3> QED
      BY <1>2, <2>6, <3>1 DEF CommitDrop, Holds, TypeOK
  <2> QED
    BY <2>1, <2>2, <2>3, <2>4, <2>5, <2>6 DEF Commits
<1> QED
  BY <1>1, <1>3

LEMMA TruthfulNext ==
  ASSUME TypeOK, ChecksOutliveWaits, Spending, Truthful, [Next]_vars
  PROVE  Truthful'
<1>1. CASE UNCHANGED vars
  BY <1>1 DEF vars, Truthful, Holds, Event, Begun
<1>2. CASE Next
  <2>1. ASSUME NEW a \in audit' PROVE Holds(a)
    <3>1. CASE a \in audit
      BY <3>1 DEF Truthful
    <3>2. CASE a \notin audit
      <4>1. PICK r \in Requests, delivered, logged \in BOOLEAN : Finish(r, delivered, logged)
        BY <1>2, <3>2, Writers
      <4>2. txn[r].pc = "done" /\ a = Event(txn[r])
        BY <3>2, <4>1 DEF Finish
      <4> QED
        BY <4>2 DEF Truthful
    <3> QED
      BY <3>1, <3>2
  <2>2. ASSUME NEW q \in Requests, txn'[q].pc = "done"
        PROVE  Holds(Event(txn[q]))'
    <3>1. CASE txn'[q] = txn[q]
      <4>1. PICK a : a = Event(txn[q])
        OBVIOUS
      <4>2. a = Event(txn[q])' /\ Holds(a)
        BY <2>2, <3>1, <4>1 DEF Event, Truthful
      <4>3. Holds(a)'
        BY <1>2, <4>2, TruthStays
      <4> QED
        BY <4>2, <4>3
    <3>2. CASE Arrived(q)
      <4>1. PICK a : a = Event(txn[q])'
        OBVIOUS
      <4>2. a.action = "create"
        BY <2>2, <3>2, <4>1 DEF Arrived, Event
      <4>3. Holds(a)'
        BY <4>2 DEF Holds
      <4> QED
        BY <4>1, <4>3
    <3>3. CASE /\ SameWork(q) /\ Commits(q)
               /\ txn'[q].seen = IF txn[q].op = "cast" THEN NextTx ELSE txn[q].seen
      BY <1>2, <3>3, CommitTruth
    <3> QED
      BY <1>2, <2>2, <3>1, <3>2, <3>3, Evolution DEF Evolves, Idle
  <2>3. \A a \in audit' : Holds(a)'
    BY <1>2, <2>1, TruthStays
  <2> QED
    BY <2>2, <2>3 DEF Truthful
<1> QED
  BY <1>1, <1>2

(* The audit log never claims what the database does not hold, and what it   *)
(* claims stays true: authorizations, ballots, openings, closings,           *)
(* signatures and deletions are final (record_audit_event).                  *)
THEOREM LogTruthful == RowLocks => (Spec => []AuditSound)
<1> SUFFICES ASSUME RowLocks PROVE Spec => []AuditSound
  OBVIOUS
<1>1. Init => Truthful
  BY DEF Init, Truthful, Idle
<1>2. TypeOK /\ ChecksOutliveWaits /\ Spending /\ Truthful /\ [Next]_vars => Truthful'
  BY TruthfulNext
<1>3. Truthful => AuditSound
  BY DEF Truthful, Holds, Begun, AuditSound
<1> QED
  BY <1>1, <1>2, <1>3, TypeCorrect, LocksSuffice, Spendings, PTL DEF Spec

-----------------------------------------------------------------------------
(* Delegates stay inside their region.                                       *)

\* The candidate row a roster change locked is its own: nobody else holds the
\* lock, and the region the handler saw is still the row's.
Scoped ==
  /\ \A r \in Requests : txn[r].op = "add" /\ txn[r].pc = "ready"
        => MayManage(txn[r].arg.scope, txn[r].arg.region)
  /\ \A r \in Requests, c \in Candidates : OwnsCandidate(r, c) =>
        /\ row[c] \in Rows /\ row[c].region = txn[r].seen
        /\ txn[r].pc = "ready" =>
             /\ MayManage(txn[r].arg.scope, txn[r].seen)
             /\ txn[r].arg.region # Keep
                  => MayManage(txn[r].arg.scope, txn[r].arg.region)
  /\ \A r, q \in Requests, c \in Candidates :
        OwnsCandidate(r, c) /\ OwnsCandidate(q, c) => r = q

LEMMA RosterMoves ==
  ASSUME TypeOK, Next, NEW q \in Requests, NEW c, OwnsCandidate(q, c)'
  PROVE  \/ txn'[q] = txn[q] /\ OwnsCandidate(q, c)
         \/ /\ Arrived(q) /\ txn'[q].op \in {"edit", "drop"} /\ txn'[q].cand = c
         \/ /\ CheckRosterChange(q) /\ SameWork(q) /\ txn'[q].seen = txn[q].seen
            /\ OwnsCandidate(q, c) /\ txn'[q].pc = "ready"
<1>1. txn'[q].op \in {"edit", "drop"} /\ txn'[q].pc \in {"candidate", "ready"} /\ txn'[q].cand = c
  BY DEF OwnsCandidate
<1>2. CASE AuthorizeVoter(q) \/ ShareOpenElection(q)
  BY <1>1, <1>2 DEF AuthorizeVoter, ShareOpenElection, Goto, TypeOK, TxnShape
<1>3. CASE txn'[q] = txn[q]
  BY <1>1, <1>3 DEF OwnsCandidate
<1>4. CASE Arrived(q)
  BY <1>1, <1>4
<1>5. txn'[q] # Idle /\ txn'[q].pc # "done" /\ txn'[q].pc # "election"
  BY <1>1 DEF Idle
<1>6. CASE /\ SameWork(q) /\ txn'[q].seen = txn[q].seen
           /\ txn'[q].pc = "ready" /\ CheckRosterChange(q)
  BY <1>1, <1>6 DEF SameWork, CheckRosterChange, OwnsCandidate
<1> QED
  BY <1>2, <1>3, <1>4, <1>5, <1>6, Evolution DEF Evolves

LEMMA ScopedNext ==
  ASSUME RowLocks, TypeOK, ChecksOutliveWaits, Scoped, [Next]_vars
  PROVE  Scoped'
<1>1. CASE UNCHANGED vars
  BY <1>1 DEF vars, Scoped, OwnsCandidate
<1>2. CASE Next
  <2>1. ASSUME NEW q \in Requests, txn'[q].op = "add", txn'[q].pc = "ready"
        PROVE  MayManage(txn'[q].arg.scope, txn'[q].arg.region)
    <3>1. ~(SameWork(q) /\ (CheckRosterChange(q) \/ AuthorizeVoter(q)))
      BY <2>1 DEF SameWork, CheckRosterChange, AuthorizeVoter
    <3> QED
      BY <1>2, <2>1, <3>1, Evolution DEF Evolves, Arrived, Idle, Scoped
  <2>2. ASSUME NEW r \in Requests, NEW q \in Requests, NEW c \in Candidates,
               OwnsCandidate(r, c)', OwnsCandidate(q, c)', r # q
        PROVE  FALSE
    <3>1. ASSUME NEW p \in Requests, OwnsCandidate(p, c)', ~OwnsCandidate(p, c)
          PROVE  \A z \in Requests \ {p} : ~OwnsCandidate(z, c) /\ txn'[z] = txn[z]
      <4>1. Arrived(p) /\ CanReadCandidate(p, c) /\ txn[p] = Idle /\ txn'[p] # Idle
        BY <1>2, <3>1, RosterMoves DEF Arrived, Idle
      <4>2. \A z \in Requests \ {p} : txn'[z] = txn[z]
        <5>1. Arrive(p) \/ Proceed(p) \/ Fail(p) \/ LoseWorker(p)
              \/ \E z \in Requests \ {p} : Arrive(z) \/ Proceed(z) \/ Fail(z) \/ LoseWorker(z)
          BY <1>2, <4>1 DEF Next, VerifyEmail, Tick
        <5> QED
          BY <4>1, <5>1, OnlyOne
      <4> QED
        BY <4>1, <4>2 DEF CanReadCandidate
    <3>2. OwnsCandidate(r, c) \/ OwnsCandidate(q, c)
      BY <2>2, <3>1 DEF OwnsCandidate
    <3>3. OwnsCandidate(r, c) /\ OwnsCandidate(q, c)
      BY <2>2, <3>1, <3>2
    <3> QED
      BY <2>2, <3>3 DEF Scoped
  <2>3. ASSUME NEW q \in Requests, NEW c \in Candidates, OwnsCandidate(q, c)'
        PROVE  /\ row'[c] \in Rows /\ row'[c].region = txn'[q].seen
               /\ txn'[q].pc = "ready" =>
                     /\ MayManage(txn'[q].arg.scope, txn'[q].seen)
                     /\ txn'[q].arg.region # Keep
                          => MayManage(txn'[q].arg.scope, txn'[q].arg.region)
    <3>1. CASE Arrived(q) /\ txn'[q].op \in {"edit", "drop"} /\ txn'[q].cand = c
      BY <3>1 DEF Arrived, db
    <3>2. CASE OwnsCandidate(q, c)
      <4>1. row[c] \in Rows /\ row[c].region = txn[q].seen
        BY <3>2 DEF Scoped
      <4>2. row'[c] = row[c]
        <5>1. ASSUME NEW r \in Requests, CommitAdd(r) PROVE row'[c] = row[c]
          <6>1. row[txn[r].cand] = Nil
            BY <5>1 DEF CommitAdd, ChecksOutliveWaits, RowMatches
          <6> QED
            BY <4>1, <5>1, <6>1, IdentifiersAssumption DEF CommitAdd, TypeOK
        <5>2. ASSUME NEW r \in Requests, CommitEdit(r) \/ CommitDrop(r)
              PROVE row'[c] = row[c]
          <6>1. OwnsCandidate(r, txn[r].cand) /\ ~OwnsCandidate(r, c)'
            BY <5>2 DEF CommitEdit, CommitDrop, OwnsCandidate, Goto, TypeOK, TxnShape
          <6>2. txn[r].cand # c
            BY <2>3, <3>2, <6>1 DEF Scoped
          <6> QED
            BY <5>2, <6>2 DEF CommitEdit, CommitDrop, TypeOK
        <5> QED
          BY <1>2, <5>1, <5>2, Writers
      <4>3. CASE txn'[q] = txn[q]
        BY <3>2, <4>1, <4>2, <4>3 DEF Scoped
      <4>4. CASE CheckRosterChange(q) /\ SameWork(q) /\ txn'[q].seen = txn[q].seen
        BY <4>1, <4>2, <4>4 DEF CheckRosterChange, MayChangeRoster, SameWork
      <4>5. CASE Arrived(q)
        BY <3>2, <4>5 DEF Arrived, Idle, OwnsCandidate
      <4> QED
        BY <1>2, <2>3, <4>3, <4>4, <4>5, RosterMoves
    <3> QED
      BY <1>2, <2>3, <3>1, <3>2, RosterMoves
  <2> QED
    BY <2>1, <2>2, <2>3 DEF Scoped
<1> QED
  BY <1>1, <1>2

LEMMA StaysScoped == RowLocks => (Spec => []Scoped)
<1> SUFFICES ASSUME RowLocks PROVE Spec => []Scoped
  OBVIOUS
<1>1. Init => Scoped
  BY DEF Init, Scoped, OwnsCandidate, Idle
<1>2. TypeOK /\ ChecksOutliveWaits /\ Scoped /\ [Next]_vars => Scoped'
  BY ScopedNext
<1> QED
  BY <1>1, <1>2, TypeCorrect, LocksSuffice, PTL DEF Spec

ScopeStep ==
  \A r \in Requests, c \in Candidates :
     /\ txn[r].op \in {"add", "edit", "drop"} /\ txn[r].cand = c
     /\ txn[r].pc = "ready" /\ txn'[r].pc = "done"
     => \A old \in {row[c], row'[c]} \cap Rows : MayManage(txn[r].arg.scope, old.region)

LEMMA ScopeKept ==
  ASSUME TypeOK, ChecksOutliveWaits, Scoped, Next
  PROVE  ScopeStep
<1> SUFFICES ASSUME NEW r \in Requests, NEW c \in Candidates,
                    txn[r].op \in {"add", "edit", "drop"}, txn[r].cand = c,
                    txn[r].pc = "ready", txn'[r].pc = "done",
                    NEW old \in {row[c], row'[c]} \cap Rows
             PROVE  MayManage(txn[r].arg.scope, old.region)
  BY DEF ScopeStep
<1>1. Commits(r)
  BY Evolution DEF Evolves, Idle, Arrived
<1>2. CommitAdd(r) \/ CommitEdit(r) \/ CommitDrop(r)
  BY <1>1 DEF Commits, CommitOpen, CommitClose, CommitToken, CommitCast, CommitReview, CommitSign
<1>3. CASE CommitAdd(r)
  <2>1. row[c] = Nil /\ MayManage(txn[r].arg.scope, txn[r].arg.region)
    BY <1>3 DEF CommitAdd, ChecksOutliveWaits, RowMatches, Scoped
  <2>2. row'[c].region = txn[r].arg.region
    BY <1>3 DEF CommitAdd, TypeOK
  <2> QED
    BY <2>1, <2>2, IdentifiersAssumption
<1>4. CASE CommitEdit(r) \/ CommitDrop(r)
  <2>1. OwnsCandidate(r, c)
    BY <1>4 DEF CommitEdit, CommitDrop, OwnsCandidate
  <2>2. /\ row[c] \in Rows /\ row[c].region = txn[r].seen
        /\ MayManage(txn[r].arg.scope, txn[r].seen)
        /\ txn[r].arg.region # Keep => MayManage(txn[r].arg.scope, txn[r].arg.region)
    BY <2>1 DEF Scoped
  <2>3. CASE CommitEdit(r)
    <3>1. row'[c] = Edited(row[c], txn[r].arg)
      BY <2>3 DEF CommitEdit, TypeOK
    <3>2. row'[c].region = IF txn[r].arg.region = Keep THEN row[c].region ELSE txn[r].arg.region
      BY <2>2, <3>1 DEF Edited, Rows
    <3> QED
      BY <2>2, <3>2
  <2>4. CASE CommitDrop(r)
    BY <2>2, <2>4, IdentifiersAssumption DEF CommitDrop, TypeOK
  <2> QED
    BY <1>4, <2>3, <2>4
<1> QED
  BY <1>2, <1>3, <1>4

(* A delegate's change never touches a row that is outside the delegate's    *)
(* region when it commits: the region was read under the candidate's lock    *)
(* and nobody moves the row before the commit (update_candidate,             *)
(* delete_candidate, create_candidate).                                      *)
THEOREM DelegatesStayHome == RowLocks => (Spec => WithinScope)
<1> SUFFICES ASSUME RowLocks PROVE Spec => WithinScope
  OBVIOUS
<1>1. TypeOK /\ ChecksOutliveWaits /\ Scoped /\ [Next]_vars => [ScopeStep]_vars
  BY ScopeKept
<1> QED
  BY <1>1, TypeCorrect, LocksSuffice, StaysScoped, PTL DEF Spec, WithinScope, ScopeStep

-----------------------------------------------------------------------------
(* The ballot box.                                                           *)

phases  == [e \in Elections |-> Phase(status[e])]
results == [e \in Elections |-> Published(signed[e])]

\* The box counts as the voting core does.
LEMMA SameCount ==
  ASSUME NEW S
  PROVE  Box!Cardinality(S) = Cardinality(S)
BY DEF Box!Cardinality, Cardinality

LEMMA BoxStart == Init => Box!BoxInit
<1> SUFFICES ASSUME Init PROVE Box!BoxInit
  OBVIOUS
<1>1. [e \in Elections |-> Phase(status[e])] = [e \in Elections |-> Phase(InitStatus[e])]
  BY DEF Init
<1>2. [e \in Elections |-> Published(signed[e])] = [e \in Elections |-> Nil]
  BY DEF Init, Published
<1> QED
  BY <1>1, <1>2 DEF Init, Box!BoxInit

(* open_election, close_election and create_election.                        *)
LEMMA BoxStatus ==
  ASSUME TypeOK, ChecksOutliveWaits, NEW r \in Requests,
         \/ CommitOpen(r) \/ CommitClose(r)
         \/ \E e \in Elections, times \in Schedules : CreateElection(r, e, times)
  PROVE  Box!BoxNext \/ UNCHANGED Box!boxvars
<1>0. UNCHANGED <<tokens, votes, signed>>
  BY DEF CommitOpen, CommitClose, CreateElection
<1>1. CASE CommitOpen(r)
  <2>1. PICK e \in Elections : e = txn[r].el
    BY <1>1, CheckedElection DEF CommitOpen
  <2>2. status' = [status EXCEPT ![e] = "open"] /\ MayOpen(e)
    BY <1>1, <2>1 DEF CommitOpen, ChecksOutliveWaits, Checked
  <2>3. phases[e] = "prepared" /\ \A f \in Elections : phases[f] # "open"
    BY <2>2 DEF phases, MayOpen, Phase, TypeOK, Statuses
  <2>4. phases' = [phases EXCEPT ![e] = "open"]
    BY <2>2 DEF phases, Phase, TypeOK
  <2>5. Box!Open(e)
    BY <1>0, <2>3, <2>4 DEF Box!Open, phases
  <2> QED
    BY <2>5 DEF Box!BoxNext
<1>2. CASE CommitClose(r)
  <2>1. PICK e \in Elections : e = txn[r].el
    BY <1>2, CheckedElection DEF CommitClose
  <2>2. status' = [status EXCEPT ![e] = "closed"] /\ status[e] = "open"
    BY <1>2, <2>1 DEF CommitClose, ChecksOutliveWaits, Checked
  <2>3. phases[e] = "open"
    BY <2>2 DEF phases, Phase
  <2>4. phases' = [phases EXCEPT ![e] = "closed"]
    BY <2>2 DEF phases, Phase, TypeOK
  <2>5. Box!Close(e)
    BY <1>0, <2>3, <2>4 DEF Box!Close, phases
  <2> QED
    BY <2>5 DEF Box!BoxNext
<1>3. ASSUME NEW e \in Elections, NEW times \in Schedules, CreateElection(r, e, times)
      PROVE  UNCHANGED Box!boxvars
  <2>1. phases' = phases
    BY <1>3 DEF CreateElection, phases, Phase, TypeOK
  <2> QED
    BY <1>0, <2>1 DEF Box!boxvars, phases
<1> QED
  BY <1>1, <1>2, <1>3

(* request_blind_token.                                                      *)
LEMMA BoxGrant ==
  ASSUME TypeOK, ChecksOutliveWaits, NEW r \in Requests, CommitToken(r)
  PROVE  Box!BoxNext
<1>1. PICK u \in Voters, e \in Elections : u = txn[r].user /\ e = txn[r].el
  BY DEF CommitToken, TypeOK, TxnOK, Idle
<1>2. status[e] = "open" /\ <<u, e>> \notin tokens /\ tokens' = tokens \cup {<<u, e>>}
  BY <1>1 DEF CommitToken, ChecksOutliveWaits, Checked
<1>3. Box!Grant(u, e)
  BY <1>2 DEF Box!Grant, Phase, CommitToken
<1> QED
  BY <1>3 DEF Box!BoxNext

(* cast_anonymous_ballot.                                                    *)
LEMMA AsManyVotes ==
  ASSUME TypeOK, Spending, BallotsKept
  PROVE  /\ Cardinality(spent) \in Nat /\ Cardinality(votes) \in Nat
         /\ Cardinality(spent) <= Cardinality(votes)
<1> DEFINE voteOf == [s \in spent |-> CHOOSE v \in votes : v.tx = s.tx]
<1>1. ASSUME NEW s \in spent PROVE voteOf[s] \in votes /\ voteOf[s].tx = s.tx
  <2>1. PICK x : x = [tx |-> s.tx, el |-> s.el]
    OBVIOUS
  <2>2. PICK v \in votes : x = [tx |-> v.tx, el |-> v.el]
    BY <2>1 DEF BallotsKept
  <2>3. v.tx = s.tx
    BY <2>1, <2>2
  <2> QED
    BY <2>3
<1> HIDE DEF voteOf
<1>2. voteOf \in [spent -> votes]
  BY <1>1 DEF voteOf
<1>3. \A s, z \in spent : voteOf[s] = voteOf[z] => s = z
  BY <1>1 DEF Spending
<1>4. voteOf \in Injection(spent, votes)
  BY <1>2, <1>3 DEF Injection, IsInjective
<1> QED
  BY <1>4, FS_Injection, FS_CardinalityType DEF TypeOK

LEMMA BoxCast ==
  ASSUME TypeOK, ChecksOutliveWaits, Spending, BallotsKept, BallotsBacked',
         NEW r \in Requests, CommitCast(r)
  PROVE  Box!BoxNext
<1>1. PICK e \in Elections, c \in Candidates : e = txn[r].el /\ c = txn[r].cand
  BY DEF CommitCast, TypeOK, TxnOK, Idle
<1>2. PICK tx : tx = NextTx
  OBVIOUS
<1>3. PICK v : v = [tx |-> tx, el |-> e, cand |-> c]
  OBVIOUS
<1>4. votes' = votes \cup {v} /\ UNCHANGED <<status, tokens, signed>>
  BY <1>1, <1>2, <1>3 DEF CommitCast
<1>5. status[e] = "open"
  BY <1>1 DEF CommitCast, ChecksOutliveWaits, Checked
<1>6. \A x \in votes : x.tx # tx
  BY <1>2, CastAdds
<1>7. tx \in 1 .. Cardinality(votes) + 1
  BY <1>2, AsManyVotes DEF NextTx
<1>8. Cardinality(VotesIn(e)) < Cardinality(TokensIn(e))
  <2>1. IsFiniteSet(VotesIn(e)) /\ Cardinality(VotesIn(e)) \in Nat
        /\ IsFiniteSet(TokensIn(e)) /\ Cardinality(TokensIn(e)) \in Nat
    BY TokensFinite, FS_CardinalityType
  <2>2. v.el = e /\ v.tx = tx
    BY <1>3
  <2>3. VotesIn(e)' = VotesIn(e) \cup {v} /\ v \notin VotesIn(e)
    BY <1>4, <1>6, <2>2 DEF VotesIn
  <2>4. Cardinality(VotesIn(e)') = Cardinality(VotesIn(e)) + 1
    BY <2>1, <2>3, FS_AddElement
  <2>5. TokensIn(e)' = TokensIn(e)
    BY <1>4 DEF TokensIn
  <2>6. Cardinality(VotesIn(e)') <= Cardinality(TokensIn(e)')
    BY DEF BallotsBacked
  <2> QED
    BY <2>1, <2>4, <2>5, <2>6
<1>9. Box!Cast(e, c)
  <2>1. Box!BoxOf(e) = VotesIn(e) /\ Box!GrantedIn(e) = TokensIn(e)
    BY DEF Box!BoxOf, Box!GrantedIn, VotesIn, TokensIn
  <2> QED
    BY <1>3, <1>4, <1>5, <1>6, <1>7, <1>8, <2>1, SameCount DEF Box!Cast, Phase
<1> QED
  BY <1>9 DEF Box!BoxNext

(* sign_election_results.                                                    *)
LEMMA BoxPublish ==
  ASSUME TypeOK, ChecksOutliveWaits, NEW r \in Requests, CommitSign(r)
  PROVE  Box!BoxNext
<1>1. PICK e \in Elections : e = txn[r].el
  BY DEF CommitSign, TypeOK, TxnOK, Idle
<1>2. /\ status[e] = "closed" /\ signed[e] = Nil
      /\ signed' = [signed EXCEPT ![e] = Tally(e)]
  BY <1>1 DEF CommitSign, ChecksOutliveWaits, Checked
<1>3. Tally(e) # Nil /\ DOMAIN Tally(e) = Roster(e)
  <2>1. IsTally(Tally(e)) /\ DOMAIN Tally(e) = Roster(e)
    BY TallyType DEF Tally
  <2> QED
    BY <2>1, TallyAssumption DEF IsTally
<1>4. Published(Tally(e)) = Box!Count(e)
  <2>1. ASSUME NEW c \in Candidates
        PROVE  (IF c \in Roster(e) THEN Tally(e)[c] ELSE 0)
                  = Cardinality({v \in VotesIn(e) : v.cand = c})
    <3>1. CASE c \in Roster(e)
      BY <3>1 DEF Tally
    <3>2. CASE c \notin Roster(e)
      <4>1. {v \in VotesIn(e) : v.cand = c} = {}
        BY <3>2 DEF ChecksOutliveWaits, VotesHaveRows, Roster, VotesIn
      <4> QED
        BY <3>2, <4>1, FS_EmptySet
    <3> QED
      BY <3>1, <3>2
  <2>2. Published(Tally(e)) = [c \in Candidates |-> IF c \in Roster(e) THEN Tally(e)[c] ELSE 0]
    BY <1>3 DEF Published
  <2>3. Box!Count(e) = [c \in Candidates |-> Cardinality({v \in VotesIn(e) : v.cand = c})]
    BY SameCount DEF Box!Count, Box!BoxOf, VotesIn
  <2> QED
    BY <2>1, <2>2, <2>3
<1>5. results' = [results EXCEPT ![e] = Published(Tally(e))] /\ results[e] = Nil
  <2>1. results[e] = Nil
    BY <1>2 DEF results, Published
  <2>2. PICK t : t = Tally(e)
    OBVIOUS
  <2>3. signed' = [signed EXCEPT ![e] = t]
    BY <1>2, <2>2
  <2>4. results' = [results EXCEPT ![e] = Published(t)]
    BY <2>3 DEF results, TypeOK
  <2> QED
    BY <2>1, <2>2, <2>4
<1>6. UNCHANGED <<status, tokens, votes>>
  BY DEF CommitSign
<1>7. Box!Publish(e)
  BY <1>2, <1>4, <1>5, <1>6 DEF Box!Publish, results, Phase
<1> QED
  BY <1>7 DEF Box!BoxNext

(* Every step of the requests is a step of the ballot box, or none.          *)
LEMMA BoxStep ==
  ASSUME TypeOK, ChecksOutliveWaits, Settled, Spending, BallotsKept, BallotsBacked',
         [Next]_vars
  PROVE  [Box!BoxNext]_Box!boxvars
<1>1. CASE UNCHANGED vars
  BY <1>1 DEF vars, Box!boxvars, Phase, Published
<1>2. CASE Next /\ UNCHANGED <<status, tokens, votes, signed>>
  BY <1>2 DEF Box!boxvars, Phase, Published
<1>3. CASE Next /\ status' # status
  BY <1>3, Writers, BoxStatus
<1>4. CASE Next /\ tokens' # tokens
  BY <1>4, Writers, BoxGrant
<1>5. CASE Next /\ votes' # votes
  BY <1>5, VotesStay, BoxCast
<1>6. CASE Next /\ signed' # signed
  BY <1>6, Writers, BoxPublish
<1> QED
  BY <1>1, <1>2, <1>3, <1>4, <1>5, <1>6

(* The voting core implements the ballot box: all requests of all workers    *)
(* together open an election once, grant each voter one ballot, never take   *)
(* more ballots than were granted or any after closing, and publish the      *)
(* count of the shut box (elections.py, main.py, results.py).                *)
THEOREM BoxImplemented == RowLocks => (Spec => ImplementsBallotBox)
<1> SUFFICES ASSUME RowLocks PROVE Spec => ImplementsBallotBox
  OBVIOUS
<1>1. TypeOK /\ ChecksOutliveWaits /\ Settled /\ Spending /\ BallotsKept /\ BallotsBacked'
        /\ [Next]_vars => [Box!BoxNext]_Box!boxvars
  BY BoxStep
<1> QED
  BY <1>1, BoxStart, TypeCorrect, LocksSuffice, StaysSettled, Spendings, BallotsStay,
     NoBallotStuffing, PTL DEF Spec, ImplementsBallotBox, Box!BoxSpec
=============================================================================
