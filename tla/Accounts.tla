------------------------------ MODULE Accounts ------------------------------
(***************************************************************************)
(* Registration, email verification and the conversion of personal data:     *)
(* concurrent registrations against the unique indexes of tables user and    *)
(* electoral_roll (app/auth.py, app/routes/registration.py, app/models.py),  *)
(* the first manager, and scripts/migrate_pii_envelope.py on rows of the     *)
(* older code.                                                               *)
(*                                                                           *)
(* Names and addresses are equal when the database's collation says so.      *)
(* Syntax checks, the location check, passwords, the 24 hours of a link and  *)
(* the review of the account only refuse requests and are left out.  A row's *)
(* personal data is one value: its licence, in the format of its encryption. *)
(***************************************************************************)
EXTENDS Integers, FiniteSets

CONSTANTS
  Requests,   \* worker threads
  Names, Emails,
  Spellings,  \* licences as people write them
  Norm,       \* _normalize_lic: Norm[s] is licence s without spaces, in capitals
  Sources,    \* formats that migrate_pii_envelope converts from
  MaxIds,     \* bound of the primary keys handed out
  Nil

ASSUME AccountAssumption ==
  /\ Norm \in [Spellings -> Spellings] /\ \A s \in Spellings : Norm[Norm[s]] = Norm[s]
  /\ MaxIds \in Nat \ {0} /\ Nil \notin Nat \cup Requests
  /\ "v1" \notin Sources /\ "bad" \notin Sources

VARIABLES
  users,     \* table user
  rolls,     \* table electoral_roll
  lastId,    \* AUTO_INCREMENT of user
  roles,     \* the reference rows are there
  upgraded,  \* revision 20260714_pii_envelope_v1 is applied
  links,     \* addresses that a verification link was mailed to
  conv,      \* the conversion that is running
  txn        \* what each worker thread is doing

tables == <<users, rolls>>
setup  == <<roles, upgraded>>
vars   == <<tables, lastId, setup, links, conv, txn>>

\* The current envelope, an older format, or a value that does not authenticate
Formats == {"v1", "bad"} \cup Sources

\* indexed: the licence hash is that of the pepper in use.  Older rows may have
\* another hash, which equals no hash that is computed now.
Users == [id : 1 .. MaxIds, name : Names, email : Emails, lic : Spellings,
          indexed : BOOLEAN, format : Formats, role : {"voter", "manager"},
          verified : BOOLEAN]
Rolls == [owner : 1 .. MaxIds \cup {Nil}, lic : Spellings, indexed : BOOLEAN, format : Formats]
Forms == [name : Names, email : Emails, lic : Spellings]

Idle   == [pc |-> "idle", form |-> Nil, id |-> Nil]
NoConv == [pc |-> "idle", source |-> Nil, apply |-> FALSE]

Row(form, id, role, verified) ==
  [id |-> id, name |-> form.name, email |-> form.email, lic |-> form.lic,
   indexed |-> TRUE, format |-> "v1", role |-> role, verified |-> verified]

\* An account of the older code, and someone enrolled without an account
OldRow(name, email, lic, indexed, format) ==
  [Row([name |-> name, email |-> email, lic |-> lic], 1, "voter", TRUE)
     EXCEPT !.indexed = indexed \/ format = "v1", !.format = format]
OldRoll(owner, lic, indexed, format) ==
  [owner |-> owner, lic |-> lic, indexed |-> indexed \/ format = "v1", format |-> format]

Init ==
  /\ \E n \in Names, m \in Emails, s \in Spellings, i \in BOOLEAN, f, g \in Formats :
       /\ users \in {{}, {OldRow(n, m, s, i, f)}}
       /\ \E t \in Spellings :
            /\ Norm[t] # Norm[s]
            /\ rolls \in {R \cup (IF users = {} THEN {} ELSE {OldRoll(1, s, i, g)}) :
                          R \in {{}, {OldRoll(Nil, t, i, g)}}}
  /\ lastId = 1 /\ roles = FALSE /\ upgraded = FALSE /\ links = {}
  /\ conv = NoConv /\ txn = [r \in Requests |-> Idle]

-----------------------------------------------------------------------------
(* Indexes.                                                                  *)

\* _hash_lic: the blind index is of the normalized licence.
Index(s) == Norm[s]

SameLicence(u, v) == u.indexed /\ v.indexed /\ Index(u.lic) = Index(v.lic)

\* The unique indexes of user, and of electoral_roll
ClashNoEmail(u, v) == u.id # v.id /\ (u.name = v.name \/ SameLicence(u, v))
Clash(u, v) ==
  u.id # v.id /\ (u.name = v.name \/ u.email = v.email \/ SameLicence(u, v))
RollClash(a, b) == a # b /\ SameLicence(a, b)

\* What registration r inserts
NewUser(r) == Row(txn[r].form, txn[r].id, "voter", FALSE)
NewRoll(r) == [owner |-> txn[r].id, lic |-> txn[r].form.lic, indexed |-> TRUE, format |-> "v1"]

\* What the conversion writes: the value in the new envelope and its hash
ConvertedValue(u) == IF u.format = conv.source THEN [u EXCEPT !.format = "v1"] ELSE u
Converted(u) ==
  IF u.format = conv.source THEN [u EXCEPT !.format = "v1", !.indexed = TRUE] ELSE u

\* Rows of transactions that have written them and not yet committed
PendingUsers(r) ==
  {NewUser(q) : q \in {p \in Requests \ {r} : txn[p].pc = "flushed"}}
  \cup (IF conv.apply /\ conv.pc \in {"rolls", "done"} THEN {Converted(u) : u \in users} ELSE {})
PendingRolls ==
  IF conv.apply /\ conv.pc = "done" THEN {Converted(a) : a \in rolls} ELSE {}

-----------------------------------------------------------------------------
(* register                                                                  *)

Goto(r, pc) == txn' = [txn EXCEPT ![r].pc = pc]
End(r) == txn' = [txn EXCEPT ![r] = Idle]

\* The lookups, and the voter role.  A row that cannot be decrypted raises.
StartRegister(r, form) ==
  /\ txn[r] = Idle /\ upgraded /\ roles
  /\ \A u \in users : u.name # form.name /\ u.email # form.email
  /\ \A u \in users : u.indexed => Index(u.lic) # Index(form.lic)
  /\ txn' = [txn EXCEPT ![r] = [Idle EXCEPT !.pc = "checked", !.form = form]]
  /\ UNCHANGED <<tables, lastId, setup, links, conv>>

\* INSERT INTO user waits for a transaction that has written an equal key; if a
\* committed row has it, the request ends with an error.
FlushAndMail(r) ==
  /\ txn[r].pc = "checked" /\ lastId < MaxIds
  /\ LET u == Row(txn[r].form, lastId + 1, "voter", FALSE)
     IN  /\ \A v \in PendingUsers(r) : ~Clash(u, v)
         /\ IF \E v \in users : Clash(u, v)
              THEN End(r) /\ UNCHANGED <<lastId, links>>
              ELSE /\ txn' = [txn EXCEPT ![r].pc = "flushed", ![r].id = lastId + 1]
                   /\ lastId' = lastId + 1
                   /\ links' = links \cup {u.email}
  /\ UNCHANGED <<tables, setup, conv>>

Flush(r) ==
  /\ txn[r].pc = "checked" /\ lastId < MaxIds
  /\ LET u == Row(txn[r].form, lastId + 1, "voter", FALSE)
     IN  /\ \A v \in PendingUsers(r) : ~Clash(u, v)
         /\ IF \E v \in users : Clash(u, v)
              THEN End(r) /\ UNCHANGED lastId
              ELSE /\ txn' = [txn EXCEPT ![r].pc = "flushed", ![r].id = lastId + 1]
                   /\ lastId' = lastId + 1
  /\ UNCHANGED <<tables, setup, links, conv>>

\* INSERT INTO electoral_roll and COMMIT.  If someone is enrolled with the
\* licence, both rows are rolled back.
CommitUserAnyway(r) ==
  /\ txn[r].pc = "flushed"
  /\ \A a \in PendingRolls : ~RollClash(NewRoll(r), a)
  /\ users' = users \cup {NewUser(r)}
  /\ IF \A a \in rolls : ~RollClash(NewRoll(r), a)
       THEN rolls' = rolls \cup {NewRoll(r)} /\ Goto(r, "mail")
       ELSE UNCHANGED rolls /\ End(r)
  /\ UNCHANGED <<lastId, setup, links, conv>>

CommitRegistration(r) ==
  /\ txn[r].pc = "flushed"
  /\ \A a \in PendingRolls : ~RollClash(NewRoll(r), a)
  /\ IF \A a \in rolls : ~RollClash(NewRoll(r), a)
       THEN /\ users' = users \cup {NewUser(r)} /\ rolls' = rolls \cup {NewRoll(r)}
            /\ Goto(r, "mail")
       ELSE UNCHANGED tables /\ End(r)
  /\ UNCHANGED <<lastId, setup, links, conv>>

\* send_verification_email, which may fail
SendVerificationEmail(r) ==
  /\ txn[r].pc = "mail"
  /\ links' \in {links, links \cup {txn[r].form.email}}
  /\ End(r)
  /\ UNCHANGED <<tables, lastId, setup, conv>>

\* A crash, an error or a missing region
Interrupt(r) ==
  /\ txn[r] # Idle
  /\ End(r)
  /\ UNCHANGED <<tables, lastId, setup, links, conv>>

-----------------------------------------------------------------------------
(* What happens to an account.  A handler that loads a row of another format *)
(* fails.                                                                    *)

Readable(u) == u.format = "v1"

\* verify_email: the link carries the address.
VerifyEmail(u) ==
  /\ upgraded /\ Readable(u) /\ u.email \in links /\ ~u.verified
  /\ users' = (users \ {u}) \cup {[u EXCEPT !.verified = TRUE]}
  /\ UNCHANGED <<rolls, lastId, setup, links, conv, txn>>

Resend(u) ==
  /\ upgraded /\ Readable(u) /\ ~u.verified
  /\ links' = links \cup {u.email}
  /\ UNCHANGED <<tables, lastId, setup, conv, txn>>

-----------------------------------------------------------------------------
(* Set-up                                                                    *)

\* 20260714_pii_envelope_v1: wider columns, and the licence hash of
\* electoral_roll is unique.
UpgradePii ==
  /\ ~upgraded /\ \A a, b \in rolls : ~RollClash(a, b)
  /\ upgraded' = TRUE
  /\ UNCHANGED <<tables, lastId, roles, links, conv, txn>>

BootstrapReferenceData ==
  /\ upgraded /\ ~roles /\ roles' = TRUE
  /\ UNCHANGED <<tables, lastId, upgraded, links, conv, txn>>

\* The first manager has a verified address and no enrolment.
BootstrapManager(form) ==
  LET u == Row(form, lastId + 1, "manager", TRUE)
  IN  /\ roles /\ lastId < MaxIds
      /\ \A v \in users : v.role # "manager"
      /\ \A v \in users \cup PendingUsers(Nil) : ~Clash(u, v)
      /\ users' = users \cup {u} /\ lastId' = lastId + 1
      /\ UNCHANGED <<rolls, setup, links, conv, txn>>

-----------------------------------------------------------------------------
(* migrate_pii_envelope, one transaction                                     *)

StartConversion(source, apply) ==
  /\ upgraded /\ conv = NoConv
  /\ conv' = [pc |-> "users", source |-> source, apply |-> apply]
  /\ UNCHANGED <<tables, lastId, setup, links, txn>>

\* _convert: current values authenticate, and all others are in the stated format.
AcceptableAny(row) == TRUE
Acceptable(row) == row.format \in {"v1", conv.source}

\* One value refused, or a hash that another row has, ends the transaction.
ConvertUsers ==
  /\ conv.pc = "users"
  /\ conv.apply => \A u \in users, v \in PendingUsers(Nil) : ~Clash(Converted(u), v)
  /\ conv' = IF /\ \A u \in users : Acceptable(u)
                /\ conv.apply => \A u, v \in users : ~Clash(Converted(u), Converted(v))
             THEN [conv EXCEPT !.pc = "rolls"] ELSE NoConv
  /\ UNCHANGED <<tables, lastId, setup, links, txn>>

ConvertRolls ==
  /\ conv.pc = "rolls"
  /\ conv' = IF /\ \A a \in rolls : Acceptable(a)
                /\ conv.apply => \A a, b \in rolls : ~RollClash(Converted(a), Converted(b))
             THEN [conv EXCEPT !.pc = "done"] ELSE NoConv
  /\ UNCHANGED <<tables, lastId, setup, links, txn>>

CommitConversion ==
  /\ conv.pc = "done"
  /\ users' = IF conv.apply THEN {Converted(u) : u \in users} ELSE users
  /\ rolls' = IF conv.apply THEN {Converted(a) : a \in rolls} ELSE rolls
  /\ conv' = NoConv
  /\ UNCHANGED <<lastId, setup, links, txn>>

StopConversion ==
  /\ conv # NoConv /\ conv' = NoConv
  /\ UNCHANGED <<tables, lastId, setup, links, txn>>

Next ==
  \/ \E r \in Requests :
        \/ \E form \in Forms : StartRegister(r, form)
        \/ Flush(r) \/ CommitRegistration(r) \/ SendVerificationEmail(r) \/ Interrupt(r)
  \/ \E u \in users : VerifyEmail(u) \/ Resend(u)
  \/ UpgradePii \/ BootstrapReferenceData
  \/ \E form \in Forms : BootstrapManager(form)
  \/ \E source \in Sources, apply \in BOOLEAN : StartConversion(source, apply)
  \/ ConvertUsers \/ ConvertRolls \/ CommitConversion \/ StopConversion

Spec == Init /\ [][Next]_vars

-----------------------------------------------------------------------------
\* However registrations, the first manager and a conversion interleave, no two
\* accounts have a name or an address in common.
OneAccountEach ==
  \A u, v \in users : u.id # v.id => u.name # v.name /\ u.email # v.email

\* Once no old data is left a licence is bound to one account and one enrolment,
\* however it is written, also if people registered before the conversion.
LicenceOnce ==
  (\A row \in users \cup rolls : row.format = "v1") =>
    /\ \A u, v \in users : u.id # v.id => Norm[u.lic] # Norm[v.lic]
    /\ \A a, b \in rolls : a # b => Norm[a.lic] # Norm[b.lic]

\* A registration is stored whole or not at all: every voter's account has one
\* enrolment, with its licence.
WholeRegistration ==
  \A u \in users : u.role = "voter" =>
    \E a \in rolls : a.lic = u.lic /\ {b \in rolls : b.owner = u.id} = {a}

\* A verification link is mailed only for an account that is stored: whoever
\* opens it finds the account.
LinksFindAccount == \A e \in links : \E u \in users : u.email = e

\* A conversion that changes any value changes every old value, in both tables;
\* nobody's licence changes.
Old(rows) == {row \in rows : ~Readable(row)}
Bound(us) == {<<u.id, u.lic>> : u \in us}
ConvertedTogether ==
  [][/\ Old(users') # Old(users) \/ Old(rolls') # Old(rolls) => Old(users' \cup rolls') = {}
     /\ Bound(users) \subseteq Bound(users')]_vars
=============================================================================
