---------------------------- MODULE VotingState ----------------------------
(***************************************************************************)
(* The tables of the voting platform (app/models.py) and the requests that  *)
(* are inside a handler.  A request is a database transaction: it takes row *)
(* locks as its handler reads WITH FOR UPDATE / FOR SHARE, keeps them to    *)
(* its commit or rollback, and its writes become visible at the commit.     *)
(* The handlers themselves are in ElectionAdmin, BallotFlow and             *)
(* ResultSigning; Voting puts them together.                                *)
(***************************************************************************)
EXTENDS Integers, FiniteSets

CONSTANTS
  Voters,         \* rows of table user whose role is voter
  Elections,      \* identifiers of table election
  Candidates,     \* identifiers of table candidate
  Regions,        \* rows of table regions
  Positions,      \* contests (candidate.position)
  Nonces,         \* ballot nonces a client can draw
  Requests,       \* worker threads: how many handlers may run at once
  RegionOf,       \* electoral_roll.region_id of every voter
  Receipts,       \* vote_receipt rows of the retired direct ballot path
  Quarantined,    \* elections with blind_key_recovery_required
  Schedules,      \* (open_at, close_at) pairs a manager may enter
  InitStatus,     \* election.status when the history starts
  InitRow,        \* candidate rows when the history starts
  InitApproved,   \* voters approved when the history starts
  Reviewed,       \* voters whose account is verified, approved or rejected
  Scopes,         \* who edits rosters: a delegate's region, or Manager
  MaxTime,        \* bound of the clock
  MaxLost,        \* bound of the events lost after a commit
  RowLocks,       \* TRUE: MySQL row locks.  FALSE: SQLite ignores FOR UPDATE
  SnapshotReads,  \* TRUE: plain reads see the transaction's first snapshot
  Nil, Gone, Manager, Keep

Times    == 0..MaxTime
MaybeTime == Times \cup {Nil}
Rows     == [el : Elections, region : Regions, position : Positions]
Ballots  == [el : Elections, cand : Candidates, nonce : Nonces]
Contests == Regions \X Positions

ASSUME IdentifiersAssumption ==
  /\ Nil \notin Elections \cup Candidates \cup Voters \cup Rows \cup Times
  /\ Gone \notin Rows \cup {Nil}
  /\ Manager \notin Regions
  /\ Keep \notin Regions \cup Positions
ASSUME TallyAssumption == \A S \in SUBSET Candidates : Nil \notin [S -> Nat]
ASSUME BoundsAssumption == MaxTime \in Nat /\ MaxLost \in Nat
ASSUME FiniteAssumption ==
  IsFiniteSet(Voters) /\ IsFiniteSet(Elections) /\ IsFiniteSet(Nonces)
ASSUME SwitchAssumption == RowLocks \in BOOLEAN /\ SnapshotReads \in BOOLEAN
ASSUME TableAssumption ==
  /\ RegionOf \in [Voters -> Regions]
  /\ Receipts \subseteq Voters \X Elections
  /\ Quarantined \subseteq Elections
  /\ Schedules \subseteq MaybeTime \X MaybeTime
  /\ Scopes \subseteq Regions \cup {Manager}
  /\ InitApproved \subseteq Voters /\ Reviewed \subseteq Voters
  /\ InitStatus \in [Elections -> {"none", "draft", "open"}]
  /\ InitRow \in [Candidates -> Rows \cup {Nil}]
  /\ \A e, f \in Elections :
        InitStatus[e] = "open" /\ InitStatus[f] = "open" => e = f

VARIABLES
  now,       \* the clock
  status,    \* election.status ("none": no row yet)
  openAt,    \* election.open_at
  closeAt,   \* election.close_at
  row,       \* candidate: election, region, position (Nil: not yet; Gone: deleted)
  account,   \* user.account_status
  verified,  \* user.email_verified
  enrolled,  \* electoral_roll: status active and verified
  tokens,    \* blind_signature_token
  wallet,    \* unblinded signatures that reached a voter's browser
  votes,     \* vote: one element per row
  spent,     \* spent_ballot_nullifier
  signed,    \* signed_election_result: the signed tally (Nil: none)
  audit,     \* events in the audit log
  lost,      \* audit events lost: the worker died, or emit could not write
  txn        \* what each worker thread is doing

db      == <<status, openAt, closeAt, row, account, verified, enrolled,
             tokens, votes, spent, signed>>
outside == <<now, wallet, audit, lost>>
vars    == <<now, status, openAt, closeAt, row, account, verified, enrolled,
             tokens, wallet, votes, spent, signed, audit, lost, txn>>

-----------------------------------------------------------------------------
(* Requests.  pc is the last thing the handler did: "begun" (identity        *)
(* loaded), "candidate" (candidate row locked), "election" (election row     *)
(* locked and checked), "ready" (every check passed, nothing written),       *)
(* "done" (committed; audit event and response still to come).               *)

Ops == {"idle", "token", "cast", "create", "open", "close", "sign",
        "add", "edit", "drop", "approve", "reject"}
Pcs == {"idle", "begun", "candidate", "election", "ready", "done"}

Idle == [op |-> "idle", pc |-> "idle", user |-> Nil, el |-> Nil,
         cand |-> Nil, arg |-> Nil, seen |-> Nil]

Begin(r, t) == txn[r] = Idle /\ txn' = [txn EXCEPT ![r] = t]
Goto(r, pc) == txn' = [txn EXCEPT ![r].pc = pc]

\* An early return or an error: the session is rolled back at teardown.
Rollback(r) ==
  /\ txn' = [txn EXCEPT ![r] = Idle]
  /\ UNCHANGED <<db, outside>>

-----------------------------------------------------------------------------
(* Row locks.  They follow from what a transaction has read so far and last  *)
(* until it commits or rolls back.                                           *)

Active(r) == txn[r].pc \notin {"idle", "done"}

\* SELECT ... FOR SHARE on an election: ballot requests and casts.
SharesElection(r, e) ==
  /\ txn[r].op \in {"token", "cast"} /\ txn[r].pc \in {"election", "ready"}
  /\ txn[r].el = e

\* SELECT ... FOR UPDATE: open locks every election row, the others their own.
OwnsElection(r, e) ==
  /\ txn[r].pc = "ready"
  /\ \/ txn[r].op = "open"
     \/ txn[r].op \in {"close", "sign", "add", "edit", "drop"} /\ txn[r].el = e

OwnsCandidate(r, c) ==
  /\ txn[r].op \in {"edit", "drop"} /\ txn[r].pc \in {"candidate", "ready"}
  /\ txn[r].cand = c

OwnsVoter(r, u) ==
  txn[r].op = "token" /\ txn[r].pc = "ready" /\ txn[r].user = u

CanShareElection(r, e) ==
  RowLocks => \A q \in Requests \ {r} : ~OwnsElection(q, e)
CanOwnElection(r, e) ==
  RowLocks => \A q \in Requests \ {r} :
                 ~OwnsElection(q, e) /\ ~SharesElection(q, e)
CanReadCandidate(r, c) ==
  RowLocks => \A q \in Requests \ {r} : ~OwnsCandidate(q, c)
CanOwnVoter(r, u) ==
  RowLocks => \A q \in Requests \ {r} : ~OwnsVoter(q, u)

-----------------------------------------------------------------------------
(* Queries.                                                                  *)

\* Election.is_open
IsOpen(e) ==
  /\ status[e] = "open"
  /\ e \notin Quarantined
  /\ openAt[e] # Nil => now >= openAt[e]
  /\ closeAt[e] # Nil => now <= closeAt[e]

\* Candidate.query.filter_by(election_id=e): which regions and contests it has
Roster(e) == {c \in Candidates : row[c] \in Rows /\ row[c].el = e}
ContestsOf(e) == {<<row[c].region, row[c].position>> : c \in Roster(e)}

\* The test every ballot handler repeats: one region and one contest.
SingleContest(contests) == \E x \in contests : contests = {x}

VotesIn(e)  == {v \in votes : v.el = e}
SpentIn(e)  == {s \in spent : s.el = e}
TokensIn(e) == {t \in tokens : t[2] = e}

\* get_vote_tallies: LEFT JOIN of the roster with its votes
Tally(e) == [c \in Roster(e) |-> Cardinality({v \in VotesIn(e) : v.cand = c})]

Init ==
  /\ now = 0
  /\ status = InitStatus
  /\ openAt = [e \in Elections |-> IF InitStatus[e] = "open" THEN 0 ELSE Nil]
  /\ closeAt = [e \in Elections |-> Nil]
  /\ row = InitRow
  /\ account = [u \in Voters |->
                  IF u \in InitApproved THEN "approved" ELSE "pending"]
  /\ verified = [u \in Voters |-> u \in InitApproved]
  /\ enrolled = [u \in Voters |-> u \in InitApproved]
  /\ tokens = {} /\ wallet = {} /\ votes = {} /\ spent = {}
  /\ signed = [e \in Elections |-> Nil]
  /\ audit = {} /\ lost = 0
  /\ txn = [r \in Requests |-> Idle]
=============================================================================
