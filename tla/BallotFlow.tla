---------------------------- MODULE BallotFlow -----------------------------
(***************************************************************************)
(* The two phases of a ballot (app/routes/main.py, app/vote_service.py) and  *)
(* the account reviews that decide who is eligible                           *)
(* (app/routes/admin_users.py, app/routes/registration.py).                  *)
(*                                                                           *)
(* A blind signature is modelled by what it proves: the key of election e    *)
(* signed exactly one ballot, which only the voter's browser knows.          *)
(***************************************************************************)
EXTENDS VotingState

-----------------------------------------------------------------------------
(* Phase 1: request_blind_token.                                             *)

\* login_required: the identity of the request is loaded by a plain read on
\* the voters connection, which fixes that connection's snapshot.  The browser
\* has already chosen the ballot it will send blinded.
RequestToken(r, u, e, b) ==
  /\ account[u] # "rejected"
  /\ Begin(r, [Idle EXCEPT !.op = "token", !.pc = "begun", !.user = u,
                 !.el = e, !.arg = b,
                 !.seen = IF SnapshotReads THEN ContestsOf(e) ELSE Nil])
  /\ UNCHANGED <<db, outside>>

ShareOpenElection(r) ==
  /\ txn[r].op = "token" /\ txn[r].pc = "begun"
  /\ CanShareElection(r, txn[r].el)
  /\ IsOpen(txn[r].el)
  /\ Goto(r, "election")
  /\ UNCHANGED <<db, outside>>

\* lock_and_validate_voter
Eligible(u) == account[u] = "approved" /\ verified[u] /\ enrolled[u]

\* The roster the request sees: its own snapshot, or the current rows.
RosterRead(r) == IF SnapshotReads THEN txn[r].seen ELSE ContestsOf(txn[r].el)

InRegion(u, contests) == \E p \in Positions : <<RegionOf[u], p>> \in contests

MayVoteAnywhere(r) ==
  /\ Eligible(txn[r].user)
  /\ SingleContest(RosterRead(r))
  /\ <<txn[r].user, txn[r].el>> \notin tokens \cup Receipts

MayVote(r) ==
  /\ Eligible(txn[r].user)
  /\ SingleContest(RosterRead(r)) /\ InRegion(txn[r].user, RosterRead(r))
  /\ <<txn[r].user, txn[r].el>> \notin tokens \cup Receipts

AuthorizeVoter(r) ==
  /\ txn[r].op = "token" /\ txn[r].pc = "election"
  /\ CanOwnVoter(r, txn[r].user)
  /\ MayVote(r)
  /\ Goto(r, "ready")
  /\ UNCHANGED <<db, outside>>

\* INSERT under uq_blind_sig_token_user_election, COMMIT
CommitTokenNotUnique(r) ==
  /\ txn[r].op = "token" /\ txn[r].pc = "ready"
  /\ tokens' = tokens \cup {<<txn[r].user, txn[r].el>>}
  /\ Goto(r, "done")
  /\ UNCHANGED <<status, openAt, closeAt, row, account, verified, enrolled,
                 votes, spent, signed, outside>>

CommitToken(r) ==
  /\ txn[r].op = "token" /\ txn[r].pc = "ready"
  /\ <<txn[r].user, txn[r].el>> \notin tokens
  /\ tokens' = tokens \cup {<<txn[r].user, txn[r].el>>}
  /\ Goto(r, "done")
  /\ UNCHANGED <<status, openAt, closeAt, row, account, verified, enrolled,
                 votes, spent, signed, outside>>

\* The early returns of the handler.
RefuseToken(r) ==
  /\ txn[r].op = "token"
  /\ \/ /\ txn[r].pc = "begun" /\ CanShareElection(r, txn[r].el)
        /\ ~IsOpen(txn[r].el)
     \/ /\ txn[r].pc = "election" /\ CanOwnVoter(r, txn[r].user)
        /\ ~MayVote(r)
     \/ /\ txn[r].pc = "ready"
        /\ <<txn[r].user, txn[r].el>> \in tokens
  /\ Rollback(r)

\* castBlindVote keeps the unblinded signature of the ballot it had blinded.
Unblinded(t) == [user |-> t.user, el |-> t.el, ballot |-> t.arg]

-----------------------------------------------------------------------------
(* Phase 2: cast_anonymous_ballot.                                           *)

SignatureAnyKey(b) == \E w \in wallet : w.ballot = b

\* The key that verifies is the key of the election the ballot names.
SignatureValid(b) == \E w \in wallet : w.el = b.el /\ w.ballot = b

\* No identity is loaded: the election row, locked, is the first thing read.
CastBallot(r, b) ==
  /\ CanShareElection(r, b.el)
  /\ IsOpen(b.el)
  /\ SignatureValid(b)
  /\ b.cand \in Roster(b.el)
  /\ SingleContest(ContestsOf(b.el))
  /\ Begin(r, [Idle EXCEPT !.op = "cast", !.pc = "ready", !.el = b.el,
                           !.cand = b.cand, !.arg = b.nonce])
  /\ UNCHANGED <<db, outside>>

\* uq_spent_nullifier_election_hash
NullifierIgnored(e, n) == TRUE

NullifierFresh(e, n) == \A s \in spent : ~(s.el = e /\ s.nonce = n)

\* The random voter_token of the vote row, numbered by transaction.
NextTx == Cardinality(spent) + 1

\* Both rows or none; the foreign key reads (and locks) the candidate row.
CommitCast(r) ==
  LET t == txn[r] IN
  /\ t.op = "cast" /\ t.pc = "ready"
  /\ CanReadCandidate(r, t.cand)
  /\ t.cand \in Roster(t.el) /\ NullifierFresh(t.el, t.arg)
  /\ votes' = votes \cup {[tx |-> NextTx, el |-> t.el, cand |-> t.cand]}
  /\ spent' = spent \cup {[tx |-> NextTx, el |-> t.el, nonce |-> t.arg]}
  /\ txn' = [txn EXCEPT ![r].pc = "done", ![r].seen = NextTx]
  /\ UNCHANGED <<status, openAt, closeAt, row, account, verified, enrolled,
                 tokens, signed, outside>>

\* IntegrityError: the ballot was spent already, or its candidate is gone.
RefuseCast(r) ==
  LET t == txn[r] IN
  /\ t.op = "cast" /\ t.pc = "ready"
  /\ CanReadCandidate(r, t.cand)
  /\ ~(t.cand \in Roster(t.el) /\ NullifierFresh(t.el, t.arg))
  /\ Rollback(r)

-----------------------------------------------------------------------------
(* Accounts.  approve_user and reject_user read the account, then write back *)
(* the columns that differ from what they read.                              *)

VerifyEmail(u) ==
  /\ ~verified[u] /\ CanOwnVoter(Nil, u)
  /\ verified' = [verified EXCEPT ![u] = TRUE]
  /\ UNCHANGED <<status, openAt, closeAt, row, account, enrolled, tokens,
                 votes, spent, signed, outside, txn>>

ReviewAccount(r, op, u) ==
  /\ op \in {"approve", "reject"}
  /\ op = "approve" => verified[u]
  /\ Begin(r, [Idle EXCEPT !.op = op, !.pc = "ready", !.user = u,
                 !.seen = <<account[u], enrolled[u]>>])
  /\ UNCHANGED <<db, outside>>

CommitReviewUnlocked(r) ==
  LET t == txn[r] IN
  /\ t.op \in {"approve", "reject"} /\ t.pc = "ready"
  /\ account' = [account EXCEPT ![t.user] =
                   IF t.op = "approve" THEN "approved" ELSE "rejected"]
  /\ enrolled' = [enrolled EXCEPT ![t.user] = @ \/ t.op = "approve"]
  /\ Goto(r, "done")
  /\ UNCHANGED <<status, openAt, closeAt, row, verified, tokens, votes, spent,
                 signed, outside>>

CommitReview(r) ==
  LET t == txn[r]
      verdict == IF t.op = "approve" THEN "approved" ELSE "rejected"
  IN
  /\ t.op \in {"approve", "reject"} /\ t.pc = "ready"
  /\ CanOwnVoter(r, t.user) \/ (t.op = "approve" /\ t.seen = <<verdict, TRUE>>)
  /\ account' = [account EXCEPT ![t.user] =
                   IF t.seen[1] = verdict THEN @ ELSE verdict]
  /\ enrolled' = [enrolled EXCEPT ![t.user] =
                    IF t.op = "approve" /\ ~t.seen[2] THEN TRUE ELSE @]
  /\ Goto(r, "done")
  /\ UNCHANGED <<status, openAt, closeAt, row, verified, tokens, votes, spent,
                 signed, outside>>
=============================================================================
