------------------------------- MODULE Voting -------------------------------
(***************************************************************************)
(* The voting core of the platform: every handler that changes an election,  *)
(* its roster, the authorizations, the ballots or the signed result, run by  *)
(* the threads of the gunicorn workers over one database.                    *)
(***************************************************************************)
EXTENDS ElectionAdmin, BallotFlow, ResultSigning

(* record_audit_event: the handler logs what it committed, by kind, actor    *)
(* and target.  Casts name no actor and no candidate; the log has one line   *)
(* for each of them, so they are numbered.                                   *)
Event(t) ==
  [action |-> t.op, user |-> t.user, el |-> t.el,
   cand   |-> IF t.op \in {"add", "edit", "drop"} THEN t.cand ELSE Nil,
   line   |-> IF t.op = "cast" THEN t.seen ELSE Nil]

\* What the browser keeps of the response.
Received(t, delivered) ==
  IF t.op = "token" /\ delivered THEN {Unblinded(t)} ELSE {}

FinishUncommitted(r, delivered, logged) ==
  /\ txn[r].pc \in {"ready", "done"} /\ logged
  /\ audit' = audit \cup {Event(txn[r])}
  /\ wallet' = wallet \cup Received(txn[r], delivered)
  /\ txn' = [txn EXCEPT ![r] = Idle]
  /\ UNCHANGED <<db, now, lost>>
FinishUnlogged(r, delivered, logged) ==
  /\ txn[r].pc = "done" /\ logged
  /\ wallet' = wallet \cup Received(txn[r], delivered)
  /\ txn' = [txn EXCEPT ![r] = Idle]
  /\ UNCHANGED <<db, now, audit, lost>>

\* The handler logs the event and returns.  emit swallows an error of the log
\* file: the event is lost and the handler goes on.  The response may or may not
\* reach the browser.
Finish(r, delivered, logged) ==
  /\ txn[r].pc = "done"
  /\ IF logged THEN audit' = audit \cup {Event(txn[r])} /\ UNCHANGED lost
               ELSE lost < MaxLost /\ lost' = lost + 1 /\ UNCHANGED audit
  /\ wallet' = wallet \cup Received(txn[r], delivered)
  /\ txn' = [txn EXCEPT ![r] = Idle]
  /\ UNCHANGED <<db, now>>

\* The worker dies between the commit and the audit event.
LoseWorker(r) ==
  /\ txn[r].pc = "done" /\ lost < MaxLost
  /\ lost' = lost + 1
  /\ txn' = [txn EXCEPT ![r] = Idle]
  /\ UNCHANGED <<db, now, wallet, audit>>

\* Any failure before the commit: a database error, a lock timeout, an
\* unavailable signing key, a killed worker.  The transaction rolls back.
Fail(r) == Active(r) /\ Rollback(r)

\* InnoDB breaks a cycle of waiting transactions by failing one of them.  The
\* cycle this code can form: a roster change holds the candidate and waits for
\* the election, a cast holds the election and waits for the candidate.
Deadlocked(r) ==
  /\ RowLocks
  /\ \E q \in Requests :
        /\ txn[q].op = "cast" /\ txn[q].pc = "ready"
        /\ txn[r].pc = "candidate"
        /\ SharesElection(q, txn[r].el) /\ OwnsCandidate(r, txn[q].cand)

BreakDeadlock(r) == Deadlocked(r) /\ Rollback(r)

Tick == now < MaxTime /\ now' = now + 1 /\ UNCHANGED <<db, wallet, audit, lost, txn>>

-----------------------------------------------------------------------------
\* A request arrives.
Arrive(r) ==
  \/ \E e \in Elections, times \in Schedules : CreateElection(r, e, times)
  \/ \E e \in Elections : OpenElection(r, e)
  \/ \E e \in Elections : CloseElection(r, e)
  \/ \E e \in Elections : SignResults(r, e)
  \/ \E e \in Elections, c \in Candidates, g \in Regions, p \in Positions,
        scope \in Scopes : AddCandidate(r, e, c, g, p, scope)
  \/ \E op \in {"edit", "drop"}, c \in Candidates, g \in Regions \cup {Keep},
        p \in Positions \cup {Keep}, scope \in Scopes :
        LockCandidate(r, op, c, g, p, scope)
  \/ \E u \in Voters, e \in Elections, b \in Ballots : RequestToken(r, u, e, b)
  \/ \E b \in Ballots : CastBallot(r, b)
  \/ \E op \in {"approve", "reject"}, u \in Reviewed : ReviewAccount(r, op, u)

\* A request inside its handler goes on.
Proceed(r) ==
  \/ CommitOpen(r) \/ CommitClose(r) \/ CommitAdd(r)
  \/ CheckRosterChange(r) \/ RefuseRosterChange(r) \/ CommitEdit(r) \/ CommitDrop(r)
  \/ ShareOpenElection(r) \/ AuthorizeVoter(r) \/ CommitToken(r) \/ RefuseToken(r)
  \/ CommitCast(r) \/ RefuseCast(r)
  \/ CommitReview(r)
  \/ CommitSign(r) \/ RefuseSign(r)
  \/ \E delivered, logged \in BOOLEAN : Finish(r, delivered, logged)

Next ==
  \/ \E r \in Requests : Arrive(r) \/ Proceed(r) \/ Fail(r) \/ LoseWorker(r)
  \/ \E u \in Reviewed : VerifyEmail(u)
  \/ Tick

Spec == Init /\ [][Next]_vars

-----------------------------------------------------------------------------
(* Types.                                                                    *)

Statuses    == {"none", "draft", "open", "closed"}
Accounts    == {"pending", "approved", "rejected"}
IsTally(f)  == DOMAIN f \subseteq Candidates /\ f \in [DOMAIN f -> Nat]
NewRows     == [scope : Scopes, region : Regions, position : Positions]
RowChanges  == [scope : Scopes, region : Regions \cup {Keep},
                position : Positions \cup {Keep}]

\* What a request may be doing, and what it then carries along.
TxnShape(t) == DOMAIN t = {"op", "pc", "user", "el", "cand", "arg", "seen"}
TxnOK(t) ==
  \/ t = Idle
  \/ /\ t.op = "token" /\ t.pc \in {"begun", "election", "ready", "done"}
     /\ t.user \in Voters /\ t.el \in Elections /\ t.arg \in Ballots
     /\ SnapshotReads => t.seen \subseteq Contests
  \/ /\ t.op = "cast" /\ t.pc \in {"ready", "done"}
     /\ t.el \in Elections /\ t.cand \in Candidates /\ t.arg \in Nonces
     /\ t.pc = "done" => t.seen \in Nat
  \/ t.op = "create" /\ t.pc = "done" /\ t.el \in Elections
  \/ /\ t.op \in {"open", "close"} /\ t.pc \in {"ready", "done"}
     /\ t.el \in Elections /\ t.arg \in Times
  \/ /\ t.op = "sign" /\ t.pc \in {"ready", "done"}
     /\ t.el \in Elections /\ IsTally(t.seen)
  \/ /\ t.op = "add" /\ t.pc \in {"ready", "done"}
     /\ t.el \in Elections /\ t.cand \in Candidates /\ t.arg \in NewRows
  \/ /\ t.op \in {"edit", "drop"} /\ t.pc \in {"candidate", "ready", "done"}
     /\ t.el \in Elections /\ t.cand \in Candidates
     /\ t.arg \in RowChanges /\ t.seen \in Regions
  \/ /\ t.op \in {"approve", "reject"} /\ t.pc \in {"ready", "done"}
     /\ t.user \in Voters /\ t.seen \in Accounts \X BOOLEAN

\* The type invariant: every table keeps the shape its columns declare, and a
\* request that is inside a handler carries what that handler has read.
TypeOK ==
  /\ now \in Times /\ lost \in 0..MaxLost
  /\ status \in [Elections -> Statuses]
  /\ openAt \in [Elections -> MaybeTime]
  /\ closeAt \in [Elections -> MaybeTime]
  /\ row \in [Candidates -> Rows \cup {Nil, Gone}]
  /\ account \in [Voters -> Accounts]
  /\ verified \in [Voters -> BOOLEAN] /\ enrolled \in [Voters -> BOOLEAN]
  /\ tokens \subseteq Voters \X Elections
  /\ wallet \subseteq [user : Voters, el : Elections, ballot : Ballots]
  /\ votes \subseteq [tx : Nat, el : Elections, cand : Candidates]
  /\ spent \subseteq [tx : Nat, el : Elections, nonce : Nonces]
  /\ IsFiniteSet(votes) /\ IsFiniteSet(spent)
  /\ DOMAIN signed = Elections
  /\ \A e \in Elections : signed[e] # Nil => IsTally(signed[e])
  /\ DOMAIN txn = Requests
  /\ \A r \in Requests : TxnShape(txn[r]) /\ TxnOK(txn[r])

-----------------------------------------------------------------------------
(* Elections and rosters.                                                    *)

\* At most one election is open, although several managers may be opening
\* elections at once (open_election, elections.py).
OneOpenElection ==
  \A e, f \in Elections : status[e] = "open" /\ status[f] = "open" => e = f

\* Once voting opens, no request that looked at the draft earlier can still
\* change the roster (update_candidate, delete_candidate, create_candidate
\* racing open_election).
RosterFrozen ==
  [][\A c \in Candidates : row'[c] # row[c] =>
        /\ row[c] \in Rows => status[row[c].el] = "draft"
        /\ row'[c] \in Rows => status[row'[c].el] = "draft"]_vars

\* An election that open_election let through has one region and one contest,
\* whatever roster changes were under way at that time.
OpenRosterSingle ==
  \A e \in Elections :
    status[e] \in {"open", "closed"} /\ InitStatus[e] # "open"
      => SingleContest(ContestsOf(e))

\* An election only moves forward: a manager whose request had seen the draft
\* never reopens an election that was meanwhile opened and closed.
MovesForward ==
  [][\A e \in Elections : status'[e] # status[e] =>
        <<status[e], status'[e]>> \in
           {<<"none", "draft">>, <<"draft", "open">>, <<"open", "closed">>}]_vars

\* A delegate's request never touches a candidate that is, when the change is
\* committed, outside the delegate's region (region guards of candidates.py).
WithinScope ==
  [][\A r \in Requests, c \in Candidates :
        /\ txn[r].op \in {"add", "edit", "drop"} /\ txn[r].cand = c
        /\ txn[r].pc = "ready" /\ txn'[r].pc = "done"
        => \A old \in {row[c], row'[c]} \cap Rows :
              MayManage(txn[r].arg.scope, old.region)]_vars

-----------------------------------------------------------------------------
(* Ballots.                                                                  *)

\* No election holds more ballots than it authorized voters, whatever a
\* browser replays, loses or redirects to another election.
BallotsBacked ==
  \A e \in Elections : Cardinality(VotesIn(e)) <= Cardinality(TokensIn(e))

\* A voter never has two ballots of one election, however its requests race and
\* whichever responses are lost: never two signatures, and no authorization
\* beside a receipt of the retired direct ballot.
OneSignature ==
  /\ \A w, x \in wallet : w.user = x.user /\ w.el = x.el => w = x
  /\ tokens \cap Receipts = {}

\* A vote and its spent nullifier stay together: a committed ballot is never
\* taken back out of the count (ON DELETE CASCADE of candidate).
BallotsKept == {[tx |-> v.tx, el |-> v.el] : v \in votes}
                  = {[tx |-> s.tx, el |-> s.el] : s \in spent}

\* A ballot is committed only while its election is open: close_election
\* promises that no more votes are accepted.
CastOnlyWhileOpen ==
  [][\A v \in votes' \ votes : status[v.el] = "open" /\ v.el \notin Quarantined]_vars

\* No ballot is committed before its election's opening time, whether that was
\* scheduled at creation or filled in by open_election; an open election's
\* window is never empty.
InsideWindow ==
  /\ \A e \in Elections : status[e] = "open" /\ closeAt[e] # Nil
                           => openAt[e] < closeAt[e]
  /\ \A v \in votes : openAt[v.el] <= now

\* When an authorization is committed, the voter is still eligible and the
\* election still open, although both were checked in earlier steps.
AuthorizedWhileEligible ==
  [][\A t \in tokens' \ tokens : Eligible(t[1]) /\ status[t[2]] = "open"]_vars

\* A voter is authorized only in an election of the region it is enrolled in.
AuthorizedInRegion ==
  \A t \in tokens : InRegion(t[1], ContestsOf(t[2]))

-----------------------------------------------------------------------------
(* Results and audit.                                                        *)

\* The signed result of an election is, and stays, the count of its votes.
SignedTallyFinal ==
  \A e \in Elections : signed[e] # Nil => signed[e] = Tally(e)

\* The audit log never claims what the database does not hold.
AuditSound ==
  \A a \in audit :
    /\ a.action = "token" => <<a.user, a.el>> \in tokens
    /\ a.action = "cast" => \E s \in spent : s.tx = a.line /\ s.el = a.el
    /\ a.action = "open" => status[a.el] \in {"open", "closed"}
    /\ a.action = "close" => status[a.el] = "closed"
    /\ a.action = "sign" => signed[a.el] # Nil
    /\ a.action = "drop" => row[a.cand] = Gone

\* Commits that the log should know of.
Committed ==
  {[action |-> "token", user |-> t[1], el |-> t[2], cand |-> Nil, line |-> Nil]
     : t \in tokens}
  \cup {[action |-> "cast", user |-> Nil, el |-> s.el, cand |-> Nil, line |-> s.tx]
     : s \in spent}
  \cup {[action |-> "sign", user |-> Nil, el |-> e, cand |-> Nil, line |-> Nil]
     : e \in {f \in Elections : signed[f] # Nil}}
Pending == {Event(txn[r]) : r \in {q \in Requests : txn[q].pc = "done"}}

\* Every authorization, ballot and signature is in the log or about to be, but for
\* one per worker that died after its commit and per event whose write failed
\* inside emit: no other path of a handler commits without logging.
AuditComplete == Cardinality(Committed \ (audit \cup Pending)) <= lost

-----------------------------------------------------------------------------
(* Why the row locks are enough: what a handler checked stays true until it  *)
(* commits, because whoever could make it false waits for the handler.       *)

\* FOR UPDATE excludes every other lock on the election.
LockExclusion ==
  \A r, q \in Requests, e \in Elections :
    r # q /\ OwnsElection(r, e) => ~OwnsElection(q, e) /\ ~SharesElection(q, e)

\* The check of every handler, carried to its commit.
Checked(r) ==
  /\ txn[r].op = "open" /\ txn[r].pc = "ready" => MayOpen(txn[r].el)
  /\ txn[r].op = "close" /\ txn[r].pc = "ready" => status[txn[r].el] = "open"
  /\ txn[r].op \in {"add", "edit", "drop"} /\ txn[r].pc = "ready"
       => status[txn[r].el] = "draft"
  /\ txn[r].op \in {"token", "cast"} /\ txn[r].pc \in {"election", "ready"}
       => status[txn[r].el] = "open" /\ txn[r].el \notin Quarantined
  /\ txn[r].op = "token" /\ txn[r].pc = "ready"
       => Eligible(txn[r].user) /\ <<txn[r].user, txn[r].el>> \notin Receipts
  /\ txn[r].op = "sign" /\ txn[r].pc = "ready"
       => status[txn[r].el] = "closed" /\ txn[r].seen = Tally(txn[r].el)

\* A roster change works on a row of the election it locked.
RowMatches(r) ==
  /\ txn[r].op = "add" /\ txn[r].pc = "ready" => row[txn[r].cand] = Nil
  /\ txn[r].op \in {"edit", "drop"} /\ txn[r].pc \in {"candidate", "ready"} =>
       \/ row[txn[r].cand] = Gone
       \/ row[txn[r].cand] \in Rows /\ row[txn[r].cand].el = txn[r].el

\* No two requests insert the same candidate identifier.
AddsDistinct ==
  \A r, q \in Requests : r # q /\ txn[r].op = "add" /\ txn[q].op = "add"
                             => txn[r].cand # txn[q].cand

\* The composite foreign key of vote.
VotesHaveRows ==
  \A v \in votes : row[v.cand] \in Rows /\ row[v.cand].el = v.el

\* The inductive invariant of the row locks (MySQL): a commit still finds true
\* what its handler checked, although other requests ran in between.
ChecksOutliveWaits ==
  /\ LockExclusion
  /\ \A r \in Requests : Checked(r) /\ RowMatches(r)
  /\ AddsDistinct
  /\ VotesHaveRows
  /\ OneOpenElection
  /\ \A e \in Elections : signed[e] # Nil => status[e] = "closed"
  /\ SignedTallyFinal

-----------------------------------------------------------------------------
(* The abstract ballot box.                                                  *)

Phase(s) == IF s \in {"none", "draft"} THEN "prepared" ELSE s
Published(f) == IF f = Nil THEN Nil
                ELSE [c \in Candidates |-> IF c \in DOMAIN f THEN f[c] ELSE 0]

Box == INSTANCE BallotBox WITH
         InitPhase   <- [e \in Elections |-> Phase(InitStatus[e])],
         Unpublished <- Nil,
         phase       <- [e \in Elections |-> Phase(status[e])],
         granted     <- tokens,
         box         <- votes,
         published   <- [e \in Elections |-> Published(signed[e])]

\* The requests of all workers together behave as one ballot box.
ImplementsBallotBox == Box!BoxSpec

-----------------------------------------------------------------------------
(* Progress.  A handler that runs goes on, InnoDB hands out row locks in the *)
(* order they were asked for and breaks deadlocks.  Nobody has to send       *)
(* requests, and nothing has to fail.                                        *)

Fairness ==
  /\ \A r \in Requests : SF_vars(Proceed(r))
  /\ \A r \in Requests : WF_vars(BreakDeadlock(r))

FairSpec == Spec /\ Fairness

\* Every request ends: no two handlers wait for each other for ever.
RequestsFinish == \A r \in Requests : Active(r) ~> txn[r] = Idle
=============================================================================
