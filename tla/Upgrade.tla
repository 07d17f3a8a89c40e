------------------------------ MODULE Upgrade -------------------------------
(***************************************************************************)
(* `flask db upgrade` of a database that older code has used, and the key    *)
(* store of an election in it afterwards (migrations/versions/               *)
(* 20251005_add_uq_vote_user.py, 20260714_election_scope.py, KeyStore).      *)
(*                                                                           *)
(* The upgrade is one long run of DDL and DML.  MySQL commits whatever is    *)
(* pending at every DDL statement; SQLite keeps DDL in a transaction once    *)
(* DML has begun one.  A crash or an error leaves what is committed, and the *)
(* operator starts again or restores the backup.  The service is down until  *)
(* the new version is stamped.                                               *)
(***************************************************************************)
EXTENDS KeyStore, Sequences

CONSTANT Voters  \* legacy accounts

OldTables == {"election", "candidate", "vote", "vote_receipt", "blind_signature_token"}
NewTables == {"spent_ballot_nullifier", "result_signing_public_key", "signed_election_result"}
Tables    == OldTables \cup NewTables

VARIABLES
  legacy,   \* the database before the upgrade, of which there is a backup
  disk,     \* what is committed
  work,     \* what the upgrade sees
  pending,  \* it has begun a transaction with DML
  at,       \* its position in Plan, 0 in create_all, Nil when it is not running
  stamped   \* alembic_version says that the upgrade is done

db      == <<legacy, disk, work, pending>>
upgrade == <<db, at, stamped>>
allvars == <<vars, upgrade>>

\* How far each table is, and what the rows say.  A table is "scoped" once it has
\* its new columns and "current" once it has every constraint of the new models.
Databases ==
  [shape : [Tables -> {"absent", "legacy", "scoped", "current"}],
   election : {"none", "draft", "open"},  \* status of the oldest election, where
                                          \* a closed one is treated as a draft
   recovery : BOOLEAN,                    \* blind_key_recovery_required
   token : {"absent", "null", "set"},     \* vote.voter_token of the old votes
   linked : SUBSET Voters,                \* vote.user_id
   voted : SUBSET Voters,                 \* user.has_voted
   receipts : SUBSET Voters,              \* vote_receipt.user_id
   scoped : BOOLEAN,                      \* election_id is set in every row
   tokens : BOOLEAN]                      \* there are blind_signature_token rows

Empty ==
  [shape |-> [t \in Tables |-> "absent"], election |-> "none", recovery |-> FALSE,
   token |-> "set", linked |-> {}, voted |-> {}, receipts |-> {},
   scoped |-> TRUE, tokens |-> FALSE]

\* Old votes have user_id, or in a later version voter_token.
OldDatabases ==
  {d \in [shape : {[t \in Tables |-> IF t \in OldTables THEN "legacy" ELSE "absent"]},
          election : {"none", "draft", "open"}, recovery : {FALSE},
          token : {"absent", "set"}, linked : SUBSET Voters, voted : SUBSET Voters,
          receipts : SUBSET Voters, scoped : {FALSE}, tokens : BOOLEAN] :
     /\ d.token = "set" => d.linked = {}
     /\ d.election = "none" => ~d.tokens}

UpgradeInit ==
  /\ legacy \in {Empty} \cup OldDatabases
  /\ disk = legacy /\ work = legacy /\ pending = FALSE /\ at = Nil /\ stamped = FALSE
  /\ locking \in BOOLEAN
  /\ open = (legacy.election = "open") /\ recovery = FALSE /\ signatures = {}
  /\ anchor = Nil /\ dir = Nil /\ cache = [p \in Processes |-> Nil]
  /\ made = 0 /\ losses = 0
  /\ authorized = FALSE /\ shown = {} /\ refused = FALSE
  /\ txn = [t \in Threads |-> Idle]

-----------------------------------------------------------------------------
(* What the statements do.                                                   *)

Reshape(d, ts, s) == [d EXCEPT !.shape = [t \in Tables |-> IF t \in ts THEN s ELSE @[t]]]

ImportElection(d) == [d EXCEPT !.election = IF @ = "none" THEN "draft" ELSE @]

\* A receipt for everyone whom a vote or has_voted names, once
IssueReceiptsOfVotes(d) == [d EXCEPT !.receipts = @ \cup d.linked]
IssueReceipts(d) == [d EXCEPT !.receipts = @ \cup d.linked \cup d.voted]

Quarantine(d) == [d EXCEPT !.recovery = d.tokens /\ d.election = "open"]

Effect(step, d) ==
  CASE step = "add_voter_token"  -> [d EXCEPT !.token = "null"]
    [] step = "fill_voter_token" -> [d EXCEPT !.token = "set"]
    [] step = "add_columns"      -> Reshape(d, OldTables, "scoped")
    [] step = "import_election"  -> ImportElection(d)
    [] step = "scope_rows"       -> [d EXCEPT !.scoped = TRUE]
    [] step = "issue_receipts"   -> IssueReceipts(d)
    [] step = "quarantine"       -> Quarantine(d)
    [] step = "delete_tokens"    -> [d EXCEPT !.tokens = FALSE]
    [] step = "drop_user_id"     -> [d EXCEPT !.linked = {}]
    [] step = "drop_has_voted"   -> [d EXCEPT !.voted = {}]
    [] OTHER                     -> Reshape(d, {step}, "current")

DML == {"fill_voter_token", "import_election", "scope_rows", "issue_receipts",
        "quarantine", "delete_tokens"}

\* The statements of revision election_scope, in order; a table's name is its
\* constraints or, if it is new, its creation.  Statements that leave an equally
\* partial schema, as the six new columns, are one step.  The unique key that
\* 20251005_add_uq_vote_user.py adds to an old vote table before them is left out:
\* it changes nothing that is described here, and its failure is Interrupt.
Plan ==
  <<"add_voter_token", "fill_voter_token", "add_columns", "import_election",
    "scope_rows", "issue_receipts", "quarantine", "delete_tokens",
    "election", "candidate", "drop_user_id", "vote", "vote_receipt",
    "drop_has_voted", "blind_signature_token", "spent_ballot_nullifier",
    "result_signing_public_key", "signed_election_result", "stamp">>

-----------------------------------------------------------------------------
(* flask db upgrade                                                          *)

\* current_markers
Marked(d) == \/ \E t \in NewTables : d.shape[t] # "absent"
             \/ d.shape["election"] \notin {"absent", "legacy"}

\* _current_schema_errors finds none.
CompleteWherePresent(d) == \A t \in Tables : d.shape[t] \in {"absent", "current"}
Complete(d) == \A t \in Tables : d.shape[t] = "current"

\* An upgrade that finds a partial new schema refuses to go on.
StartUpgrade ==
  /\ ~stamped /\ at = Nil
  /\ Marked(disk) /\ disk.shape["vote"] # "absent" => Complete(disk)
  /\ at' = IF disk.shape["vote"] = "absent" THEN 0
           ELSE IF Marked(disk) THEN Len(Plan)
           ELSE IF disk.token = "absent" THEN 1 ELSE 3
  /\ UNCHANGED <<vars, db, stamped>>

\* Execute a statement of the upgrade that leaves database d.
Execute(d, dml) ==
  /\ work' = d
  /\ pending' = (dml \/ (pending /\ ~locking))
  /\ disk' = IF pending' THEN disk ELSE d
  /\ UNCHANGED <<vars, legacy, stamped>>

\* MySQL commits at DDL; without DML before it SQLite does too.
Statement ==
  LET step == Plan[at]
  IN  /\ at # Nil /\ at \in 1 .. Len(Plan) - 1
      /\ step = "vote" => work.token # "null"  \* voter_token NOT NULL
      /\ Execute(Effect(step, work), step \in DML)
      /\ at' = at + 1

\* db.metadata.create_all, referenced tables first
Refers == [t \in Tables |->
             CASE t \in {"election", "result_signing_public_key"} -> {}
               [] t = "vote" -> {"election", "candidate"}
               [] OTHER      -> {"election"}]

CreateTable(t) ==
  /\ at = 0 /\ work.shape[t] = "absent"
  /\ \A u \in Refers[t] : work.shape[u] # "absent"
  /\ Execute(Reshape(work, {t}, "current"), FALSE)
  /\ at' = IF Complete(work') THEN Len(Plan) ELSE 0

\* The version is stamped with the last commit.  From now on the tables are those
\* of the other modules, and voters come back with the signatures they hold.
Stamp ==
  /\ at = Len(Plan)
  /\ stamped' = TRUE
  /\ recovery' = work.recovery
  /\ signatures' = IF open /\ legacy.tokens THEN {Legacy} ELSE {}
  /\ legacy' = Empty /\ disk' = Empty /\ work' = Empty /\ pending' = FALSE /\ at' = Nil
  /\ UNCHANGED <<locking, open, anchor, store, authorized, shown, refused, txn>>

\* A crash, or an error at any statement
Interrupt ==
  /\ at # Nil
  /\ work' = disk /\ pending' = FALSE /\ at' = Nil
  /\ UNCHANGED <<vars, legacy, disk, stamped>>

RestoreBackup ==
  /\ ~stamped /\ at = Nil /\ disk # legacy
  /\ disk' = legacy /\ work' = legacy
  /\ UNCHANGED <<vars, legacy, pending, at, stamped>>

\* The service starts when db-init has completed.
ServiceUpAlways == TRUE
ServiceUp == stamped

UpgradeNext ==
  \/ StartUpgrade \/ Statement \/ Stamp \/ Interrupt \/ RestoreBackup
  \/ \E t \in Tables : CreateTable(t)
  \/ ServiceUp /\ Next /\ UNCHANGED upgrade

UpgradeSpec == UpgradeInit /\ [][UpgradeNext]_allvars

-----------------------------------------------------------------------------
\* At every moment, wherever the upgrade was cut off, some committed row says of
\* every account that had voted that it has.
VotersOnRecord ==
  \A v \in legacy.linked \cup legacy.voted \cup legacy.receipts :
    v \in disk.linked \cup disk.voted \cup disk.receipts

\* No partial schema is ever stamped, however often the upgrade was cut off and
\* repeated: all tables are current, every row belongs to an election, every old
\* vote has a token and no user, and everyone who voted has a receipt.
StampedWhole ==
  [][stamped' /\ ~stamped =>
       /\ \A t \in Tables : work.shape[t] = "current"
       /\ work.scoped /\ work.token = "set" /\ ~work.tokens
       /\ work.linked = {}
       /\ legacy.linked \cup legacy.voted \cup legacy.receipts \subseteq work.receipts]_allvars

\* To the key store an upgraded database is one of its initial states: the mark
\* it starts from is there exactly when voters hold old signatures.
KS == INSTANCE KeyStore WITH
        recovery   <- IF stamped THEN recovery ELSE open /\ legacy.tokens,
        signatures <- IF stamped THEN signatures
                      ELSE IF open /\ legacy.tokens THEN {Legacy} ELSE {}

\* Up to and with the stamp the upgrade implements the key store: each step is one
\* of its steps or changes nothing of it.  After the stamp they are its own.
ImplementsKeyStore ==
  KS!Init /\ [][stamped \/ KS!Next \/ UNCHANGED KS!vars]_allvars
=============================================================================
