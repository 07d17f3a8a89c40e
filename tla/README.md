# Verification of the secure voting platform

TLA+ models of the platform's state-changing code, the TLC runs that check them
on small instances, and TLAPS proofs of the results that hold for every
instance. The source paths below are relative to the repository.

## The system

A Flask application runs in several gunicorn worker processes, each with
threads, over one database (MySQL 8.4 in Docker, SQLite for the local demo).
Nothing is shared between the processes but the database, the key files and the
audit log. Every request is one database transaction (sometimes two), and all
coordination is by `SELECT ... FOR UPDATE` / `FOR SHARE`, unique constraints and
one file lock. That is where the system is hard to test: what a handler checked
has to stay true until it commits, while other requests run, responses get lost
and workers die.

| Component | Source | State | Operations | Hard part |
| --- | --- | --- | --- | --- |
| Elections | `app/routes/elections.py`, `Election` in `app/models.py` | status, open and close times | create, open, close | two managers at once; open against roster changes; close against ballots; empty windows |
| Roster | `app/routes/candidates.py`, `Candidate` | candidate rows | create, update, delete | two-row locking in the opposite order of a cast; cascade to votes; region guards |
| Ballots | `app/routes/main.py`, `app/vote_service.py`, `app/static/js/blind_vote.js` | authorizations, votes, spent nullifiers, signatures in browsers | request token, cast | replays, lost responses, duplicate requests, stale snapshots |
| Accounts | `app/routes/admin_users.py`, `app/routes/registration.py` | approval, verified email, enrolment | verify, approve, reject, unlock | reviews that race with authorizations |
| Results | `app/routes/results.py`, `app/services/results_service.py` | signed tally | sign, verify | two signers; a tally that is final |
| Audit log | `app/logging_service.py` | log file, state file, last HMAC in each process | emit, verify | several processes, crashes inside emit |
| Sessions | `app/auth.py`, `app/routes/password.py`, `app/routes/password_reset.py`, `app/security/jwt_helpers.py` | session version, failure counter, lock | login, change, reset, reject, unlock | lost updates, replayed links |
| Second factor | `app/services/otp_service.py`, `app/auth.py` | one challenge row per user | issue, mail, verify | concurrent guesses, budget renewal |
| Key store | `app/security/blind_signature.py`, `app/services/election_key_service.py` | key files, process caches, anchor in the election row | create, load, reconcile | two creators, lost anchor |
| Result provenance | `app/security/signing_service.py`, `app/security/vault_client.py`, `app/routes/results.py` | cached keys, Vault key versions, archive of public keys, stored provenance | sign, download, verify | rotation, replaced files, another backend after a restart, two archiving processes |
| Registration | `app/auth.py`, `app/routes/registration.py` | users, enrolments, links | register, verify, resend | uniqueness under concurrent inserts; two rows or none |
| Personal data | `app/security/encryption.py`, `scripts/migrate_pii_envelope.py` | format and blind index of each row | convert | one refused value; people who register before the conversion |
| Migrations | `migrations/versions/*.py`, `scripts/bootstrap_*.py` | schema and old rows | upgrade, restore, bootstrap | crashes between statements that each commit |

Not modelled: see the last section.

What makes each component correct is stated by the properties named below;
`PROJECT.json` lists the hazards, each at its line, with the properties that
would catch it.

## Modules

```
VotingState        tables, requests, row locks, queries
 |- ElectionAdmin  elections and rosters
 |- BallotFlow     authorization, casting, account reviews
 |- ResultSigning  signing
     \- Voting     all handlers together, properties, fairness
         |- BallotBox      abstract specification (INSTANCE with a mapping)
         |- MCVoting       instances for TLC
         \- VotingProofs <- PromiseProofs
AuditLog      -> MCAuditLog, AuditProofs
Sessions      -> MCSessions, SessionProofs
OtpChallenges -> MCOtp, OtpProofs
KeyStore
 \- Upgrade    the migration, then the key store -> MCUpgrade, KeyProofs
SignedResults -> MCSignedResults, ResultProofs
Accounts      -> MCAccounts, AccountProofs
```

Definitions named `...Unlocked`, `...Ignored`, `...AnyWindow` and so on stand
before the definition they change: each is the definition with a plausible bug.
They are not part of any specification; `PROJECT.json` pairs each with the
property it breaks.

### Voting core

`txn[r]` is what worker thread `r` is doing: the operation, its arguments and
`pc`, the last thing the handler did:

| `pc` | the handler has |
| --- | --- |
| `begun` | loaded the identity (request_blind_token only) |
| `candidate` | locked the candidate row (update, delete) |
| `election` | locked and checked the election |
| `ready` | passed every check; nothing written |
| `done` | committed; audit event and response still to come |

Row locks are not variables: which rows a request has locked follows from `op`
and `pc` (`SharesElection`, `OwnsElection`, `OwnsCandidate`, `OwnsVoter`), because a
transaction keeps what it locked until it ends. A step that waits for a lock is
disabled by `CanShareElection` and its siblings. Every step between two waits is
one action; checks and the early returns they lead to are the guard of the next
step or a `Refuse...` action that rolls back. `Fail` is every error before the commit,
`LoseWorker` a worker that dies between commit and audit event, `Finish` the audit
event and the response, delivered or not. `emit` swallows the errors of the audit file,
so `Finish` may also lose the event and answer all the same; `lost` counts both losses.

Two switches describe the database. `RowLocks = FALSE` is SQLite, where SQLAlchemy
emits no `FOR UPDATE`. `SnapshotReads = TRUE` is MySQL's REPEATABLE READ: the plain
read of the roster in `request_blind_token` returns what was there when the
identity was loaded on the same connection (`_load_user_from_jwt`). Handlers of
managers and delegates, and the anonymous cast, start their connection's
transaction with a locking read, so their plain reads are current.

A blind signature is modelled by what it proves: `wallet` holds which ballot the
key of which election signed, once the response reached the browser. The
browser may send any signed ballot, to any election, any number of times.

`BallotBox` says what all this amounts to: elections open one at a time, a voter is
granted a ballot once, no box holds more ballots than were granted, a closed box
stays as it is, and what is published is its count. `ImplementsBallotBox` maps
`tokens` to grants, `votes` to the box and the signed tally to the publication.

### Audit log

`log` is the audit file, `saved` the state file, `memory[w]` the handler's
`last_hmac`. `Enter` takes the file lock and re-reads the state file, `AppendRecord`
writes the record, `OpenState` truncates the state file and `SaveState` fills it. A
worker may restart between records; with `FaultKinds` it may also die, or fail to
read or write, inside `emit`. `Errors` are the lines `verify_audit` reports, `Owed`
says that the next record will be one of them. Lines torn by a partial write are
left out.

### Sessions

One account's row. A request carries the row it read (`seen`); its commit writes
the columns it changed and leaves the others, as SQLAlchemy's UPDATE does. `epoch`
counts revocations and exists only to state `RevocationHolds`; `wrong` counts failed
logins since the last reset, for `LockedAfterMax`. Any handlers run at once, also two of
the same kind; `Called` only says which of them anybody calls in an instance. Only
`reset_password` locks the row (on MySQL, which is described). Two lost updates follow, and both are
findings: a change or a rejection writes back a version it read without a lock
(`lost_version`), and two failed logins write the same count (`lost_failure`).
`overwritten` records that the first has happened. What the code does keep is stated
up to that moment: `RevokedUnlessOverwritten`, `LinkOnce`. Sessions only disappear by
expiring, so leaving expiry out loses nothing.

### Second factor

One challenge row. A request that read it with `FOR UPDATE` owns it until it
commits. That is MySQL: SQLAlchemy leaves `FOR UPDATE` out for SQLite, where nothing
keeps two requests from reading the same counter, and neither the run nor
the proofs speak of SQLite. The first challenge is inserted without a row to lock: two requests may
both try, and the unique constraint lets one commit. `guesses` and `accepted`
count answers for the properties.

### Key store

One election's key pair, as a number. `dir` is the published directory, `cache[p]` the
cache of a process, `anchor` the fingerprint in the election's row. A thread reads
the anchor (`Begin`), generates and publishes a pair where the code may (`Generate`,
`Publish`: a rename that fails when a directory is there), loads and compares (`Load`,
which caches what it loads even when the comparison fails) and then anchors, signs,
verifies or shows the key. `Sign` and `AnswerCast` load it once more, as `blind_sign` and
`verify_unblinded_signature` do. Processes restart, transactions fail at any step, and
the directory may be lost or replaced by a copy of another pair. `locking` says whether
the database takes row locks; `Protected` is the condition under which the promises
about voters hold: with row locks always, without them while the files stay.
The voting core abstracts from all this: there a signature proves which election's
key made it, which is what `OneAuthority` and `GenuineAccepted` justify.

### Upgrade

What `flask db upgrade` does to a database of older code, statement by statement
(`Plan`), and then `KeyStore` on the result. A database is how far each table has got
(`absent`, `legacy`, `scoped`, `current`) and the rows that matter: who voted, by which
of three records; whether old authorizations exist; whether votes have their token.
`disk` is what is committed, `work` what the migration sees. On MySQL every DDL
statement commits what is pending, on SQLite DDL stays in the transaction that DML
began (`Execute`). The migration may stop anywhere (`Interrupt`), be repeated
(`StartUpgrade`, which refuses a partial new schema as `_current_schema_errors` does) or be
taken back (`RestoreBackup`), as the repository's `README.md` tells the operator to. After a
crash between adding `voter_token` and filling it, a retry skips the filling and stops
at NOT NULL: the model shows that only the backup helps there, and that nothing wrong is
stamped. A closed oldest election is treated like a draft, because only an open one is
quarantined.

The migration sets `blind_key_recovery_required` when it deletes authorizations of an
open election. `KeyStore` starts from that flag; `ImplementsKeyStore` is the refinement: seen
through the mapping of `KS`, an upgrade is a stuttering start of the key store, and the
flag it stamps is there exactly when voters hold old signatures. It needs that the
service is down until the upgrade is stamped (`docker-compose.yml`, `depends_on: db-init`).

### Signed results

The other half of signing: `ResultSigning` says when a tally is signed, `SignedResults` with
which key and what is recorded. A local key is a number and its own fingerprint;
each process caches the pair it loaded first. A Vault key is an identity (cluster,
namespace, mount, name) with versions that rotate and can be trimmed. `ArchiveKey` is the
savepoint in which the public key is inserted, `CommitResult` commits both rows,
`RollBack` is every error, the lost race of two signers included. `Answer` is what
`/results/verify` says: `valid`, `invalid`, `unavailable` (503) or `missing` (404). `made` and
`downloaded` remember signatures only to state the properties. A Vault identity is
assumed to name the same key for ever, which `docs/VAULT_SETUP.md` asks of `VAULT_CLUSTER_ID`.

### Accounts

Tables `user` and `electoral_roll` with their unique indexes. `StartRegister` is the lookups,
`Flush` the INSERT of the account (it waits for an uncommitted equal key and fails on a
committed one), `CommitRegistration` the enrolment and the commit, then the mail. A
licence is a spelling; the blind index is of `Norm[s]`. Rows of older code may be in an
older format or carry the hash of another pepper, in which case they are not found by
lookups and not covered by the index until `migrate_pii_envelope` converts them; that
script is one transaction of several steps. Whether two names are equal is the
database's collation, and left to it.

## Runs

| Run | Instance | Shows |
| --- | --- | --- |
| `lifecycle` | 1 election from empty tables, 1 voter who is verified, approved and rejected, a manager who changes the roster, opening and closing times unset or 1, clock to 1, lost responses, fairness | the platform is one ballot box; checks still hold at the commit (the inductive invariant of `VotingProofs`); windows nonempty, no early ballot, no ballot deleted with its candidate; signed tallies final; what is logged was committed; authorizations only for voters eligible at the commit; every request ends |
| `roster` | 2 elections, 2 candidates, 2 regions, a foreign row, a manager and a delegate, a voter with a receipt for the first election, current reads | single-contest rosters, frozen after opening; one open at a time; no ballot after close; a ballot redirected to the other election is not counted; delegates change no row that was moved out of their region; authorizations inside the voter's region |
| `sqlite` | 3 voters, one with an old receipt, 2 nonces, lost responses, one lost event, no row locks | types; unique constraints alone keep ballots backed and signatures single; no ballot after a receipt; audit log complete up to dead workers and failed writes |
| `stale_roster` | 1 election, otherwise as `roster`, with snapshot reads | **violated**: authorization outside the region |
| `audit` | 3 processes, 6 records, 3 faults | verify_audit reports at most one line per fault, and none without one |
| `sessions` | 2 threads, every handler and every pair of them at once, clock to 1, 2 revocations | until a version is overwritten, links are consumed once and revocation holds |
| `lost_version` | 2 threads, password changes, logins and unlocks | **violated**: a session survives a change |
| `lost_failure` | 2 threads, logins, a limit of 2 | **violated**: two failures and no lock |
| `keys` | all old databases of 2 voters, and an empty one; then 2 processes with 2 and 1 threads, 2 key pairs, 1 loss or replacement, with and without row locks | no crash forgets a voter or an authorization; only whole schemas are stamped; the upgraded database starts the key store; published before anchored, never rotated, one authority, genuine signatures accepted |
| `otp` | 3 threads, 3 challenges, 2 attempts | code once, guesses bounded, budget not renewed |
| `results` | 2 elections, 2 processes, 2 local keys, 2 Vault keys of 2 versions, 2 signatures, with and without row locks | downloaded results never refuted; stored ones verify again; one official result |
| `accounts` | 2 threads, 2 names, 2 addresses, 2 licences of which one has two spellings, an old account and an old enrolment in every format, 4 identifiers | names, addresses and licences single; registrations whole; links find their account; conversion all or nothing |

Bounds. Two threads suffice for every race the code can have on one row, since a
check and the write that breaks it are two requests; `otp` and `keys` have three
because two requests race on what a third one produced. Two candidates allow a mixed
roster; two nonces a second ballot (`sqlite`); two elections a redirected ballot
(`roster`); two scopes a row that one person moves while another waits (`roster`);
two key pairs a rotation, also of Vault versions; two
signatures a race of signers, of which one loses; four identifiers an old account, two
registrations and a manager. Old receipts belong to a draft election (`roster`, `sqlite`) because
the migration gives the first election a receipt for every user who had voted.
Times 0 and 1 give an opening before, at and after its set time, a window that is
empty, and a closing time that has passed when an election without opening time opens. Symmetry is over threads
and, where nothing tells them apart, nonces and voters; the liveness run uses none.

Deadlock checking is off in `otp` only, where challenges and time are bounded and
the history simply ends. Elsewhere some step is always enabled.

Fairness (`FairSpec`, only in `lifecycle`): a handler that runs goes on, strongly fair
because InnoDB serves lock waiters in order; a deadlock is broken, weakly fair,
because InnoDB detects it. The cycle exists: an update locks candidate then
election, a cast election then candidate. Nobody has to send requests and nothing
has to fail.

The three violated runs are the findings of `PROJECT.json`, each with the line of the
repository it contradicts. Two more weaknesses show as soon as a switch or a bound of a
passing run is changed:

* with `RowLocks = FALSE`, `CastOnlyWhileOpen` and `OneOpenElection` fail: on SQLite two
  elections checked at once both open, and a ballot checked before
  a close commits after it;
* with `MaxFaults = 1`, the chain of the audit log breaks once: a worker that dies
  between its record and the state file makes `verify_audit` report the next line.

## Proofs

* `VotingProofs!TypeCorrect`: the type invariant, for all constants, with or without
  row locks. It needs that `votes` and `spent` stay finite, so that tallies and
  transaction numbers are numbers.
* `VotingProofs!LocksSuffice`: under `RowLocks`, `ChecksOutliveWaits` is inductive. No single
  promise is: that one election is open at a time depends on what every waiting request
  has checked. The invariant therefore carries, for each request, what it checked
  (`Checked`, `RowMatches`), that exclusive locks exclude (`LockExclusion`), that votes
  refer to rows of their election and that a signed election is closed. A commit
  can falsify another request's check only by writing a row that this request has
  locked. `AtMostOneOpen` and `SignedResultIsTally` follow.
* `PromiseProofs`, in four parts. All rest on `Writers`, which names for each table the actions
  that write it, and on `Evolution`, which says how one request's state may change in a step.
  1. The action properties `RosterFrozen`, `CastOnlyWhileOpen`, `AuthorizedWhileEligible` and
     `MovesForward`, each from the writers of the table in question and the check the
     invariant has preserved up to them.
  2. With or without row locks: `OneSignature`, `BallotsBacked` and `AuditComplete`. A signature
     is with the request that committed its token, in one browser, or lost (`Ticketed`). Every
     vote has a nullifier of its own, every nullifier a signature of its own, every
     signature a token of its own (`Spending`), so there is an injection from the votes of
     an election to its tokens. What is committed and neither logged nor about to be
     grows only when a worker dies or a write of the log fails (`Loses`), and then by
     that request's own event.
  3. Under `RowLocks`: ballots and tokens belong to elections that have begun, whose roster
     stays one contest (`Settled`), hence `OpenRosterSingle`, and no candidate with votes is
     deleted, hence `BallotsKept`; `InsideWindow`, since the opening time that an opening
     request computed is still inside the window when it commits (`Windowed`);
     `AuditSound`, since whatever an event or a request about to write one says stays true
     (`Truthful`); `WithinScope`, since the row's lock has one owner and the region it saw is
     the row's (`Scoped`). `AuthorizedInRegion` also needs `~SnapshotReads`: with snapshot reads
     it is false, as `stale_roster` shows.
  4. `BoxImplemented`: under `RowLocks` each step of `Voting` is a step of `BallotBox` or leaves the
     grants, the box, the phases and the publications alone. It uses most of the above:
     that one election is open, that no vote is deleted, that votes are backed, and that
     the signed count is the count of a closed box.
* `AuditProofs`: `TypeOK /\ ErrorsPaid` is inductive for any number of workers, records,
  restarts and faults. Counting the reported lines is not enough: the invariant
  also counts the line that is still to come (`Owed`), and says that one process is
  inside `emit` and knows the HMAC it has appended. Without faults the chain verifies
  (`ChainVerifies`).
* `OtpProofs`: `TypeOK /\ CountsExact` is inductive: a row that was read has one owner, so
  the counter written back is the number of wrong codes answered. A code completes
  at most one login and a challenge answers at most `MAX_FAILED_ATTEMPTS` wrong codes.
  For `BudgetRenewed` the invariant also says what a challenge was spent for, that what a
  request is about to replace still may be, and that nobody guesses at a challenge whose
  identifier has not reached the browser (`Renewal`).
* `KeyProofs`: `TypeOK /\ KeysHeld` is inductive: the anchor a thread read is still there
  (`AnchorRead`, by the row lock, or because there is one pair, `OnePair`), and the key it
  compared is the one its process has cached (`KeyChecked`), so loading it again after
  the files changed gives the same key. `TypeOK`, `AnchorPublished`, `OneAuthority`,
  `GenuineAccepted` and `AnchorKept` follow. For the upgrade, `Upgrading` is inductive: it says
  of the backup, of what is committed and of what the migration sees that everyone who
  voted is on record, that a finished vote table means finished rows and that an
  unmarked database still has its authorizations (`Sound`), and of the statement the
  migration is at what the earlier ones have done (`Progress`). A retry may enter the plan
  at four places; each is where `Sound` of the committed database gives `Progress`.
  `VotersOnRecord`, `StampedWhole` and `ImplementsKeyStore` follow. The stamp produces an
  initial state of `KeyStore`, so its promises also hold of `UpgradeSpec`.
* `AccountProofs`: `Registered` is inductive, for any number of threads, names, addresses and
  licences. A unique index holds the entries of uncommitted transactions too, so the
  invariant speaks of all written rows, and of what they become once a conversion that has
  passed them commits (`Distinct`, `DistinctConverted`). Primary keys are handed out once
  (`OneKeyEach`), so an enrolment belongs to the account it was written with (`Owned`), a
  current row has a current hash (`HashCurrent`), and what a conversion has passed it
  can convert (`Passed`). The four invariants of the run and `ConvertedTogether` follow.
* `ResultProofs`: `TypeOK /\ ProvenanceHeld` is inductive, for any number of processes, keys,
  versions, restarts and rotations. The promises speak of what is answered years after
  a commit; what keeps them is that a stored result carries the provenance of its own
  signature, that a signing about to commit adds its key unless it is archived
  already, and that a downloaded signature is the stored one. The archive only grows,
  and no later step writes a stored result. `TypeOK` and the four properties of the
  run follow.
* `SessionProofs`: `TypeOK /\ OwnerCurrent /\ VersionCounts` is inductive for any number of
  threads, however their handlers overlap. The row that `reset_password` locks has one
  owner, whose link is for the current version, because every other write waits
  (`OwnerCurrent`). Until a version is overwritten, the version is the number of
  revocations and every session and link carries the one of its time
  (`VersionCounts`). `RevokedUnlessOverwritten` and `LinkOnce` follow. All actions are
  first reduced to what they do to requests and to the version (`Steps`).

Assumptions are those of the constants: disjoint identifiers, finite voters,
elections and nonces, well-typed initial tables with at most one open election,
positive limits, and that `Nil`, which stands for SQL's NULL, is neither a number, a
thread, a row nor a tally.

Only model-checked: `RequestsFinish`. Liveness under fairness is out of the prover's reach.

## Plan

Done, in this order: the voting core with its abstract specification and proofs;
the audit log; sessions; the second factor; the key store; signed results with
their proofs; the upgrade before the key store; accounts.

The proofs cover every safety and action property of the passing runs, and both refinements.

Next:

1. `Login`: `Sessions` and `OtpChallenges` composed, with the password a login used. A login
   overtaken by a reset gets a session of the new version; nothing in the repository
   says it must not, so this needs a decision before it can be a property.
2. Sessions and the second factor on SQLite, if it is ever to serve more than the demo.

## Not modelled

* Request plumbing (`app/middleware.py`, `app/security/csrf.py`, `app/geo_service.py`,
  `app/environment.py`, health and metrics): stateless filters that only refuse requests,
  and configuration read once.
* Password rules: a predicate on strings without state, covered by unit tests.
* Pages, templates, demo data (`app/init_db.py`), the test panel and development routes:
  presentation, or data that production does not load.
* The grants of `scripts/init_db_users.py`, and the revisions that only add a column or a
  table without touching rows (`20260714_auth_session_version.py`,
  `20260714_server_side_otp.py`); the unique key that `20251005_add_uq_vote_user.py` adds to an
  old vote table, which `Upgrade` would not tell apart.
* Cryptography: RSA, blinding, ChaCha20-Poly1305 and HMAC are modelled by what a
  signature, an envelope or a digest proves.
