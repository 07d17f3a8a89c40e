------------------------------ MODULE Sessions ------------------------------
(***************************************************************************)
(* One account's row in table user and everything that proves to be its      *)
(* owner: passwords, sessions (JWTs) and password-reset links.  A JWT and a  *)
(* link carry the session_version they were made for; raising the version    *)
(* revokes them (app/models.py, app/auth.py, app/routes/password.py,         *)
(* app/routes/password_reset.py, app/routes/admin_users.py).                 *)
(*                                                                           *)
(* A handler reads the row, and its commit writes the columns that differ    *)
(* from what it read; any handlers may run at once.  The database is MySQL:  *)
(* on SQLite the one FOR UPDATE of these handlers locks nothing.  A JWT also *)
(* expires, which only removes sessions and is left out; a refreshed JWT has *)
(* the version of the one it replaces.                                       *)
(***************************************************************************)
EXTENDS Integers

CONSTANTS
  Requests,     \* worker threads
  MaxAttempts,  \* record_failed_login: max_attempts
  LockFor,      \* record_failed_login: lockout_minutes
  MaxTime,      \* bound of the clock
  MaxEpoch,     \* bound of the revocations that may start
  Called,       \* the handlers somebody calls
  Nil

Handlers == {"login", "change", "reset", "reject", "unlock"}

ASSUME SessionAssumption ==
  /\ {MaxAttempts, LockFor} \subseteq Nat \ {0} /\ {MaxTime, MaxEpoch} \subseteq Nat
  /\ Called \subseteq Handlers /\ Nil \notin Nat

VARIABLES
  now,
  user,    \* version, failed, locked (account_locked_until), rejected
  jwts,    \* sessions issued
  links,   \* reset links mailed
  epoch,   \* how many revocations were committed
  wrong,   \* failed logins committed since the counter was last cleared
  overwritten,  \* a version raised by one request was overwritten by another
                \* that had read the row before
  txn      \* what each worker thread is doing

vars == <<now, user, jwts, links, epoch, wrong, overwritten, txn>>

Users  == [version : Nat, failed : Nat, locked : Nat \cup {Nil}, rejected : BOOLEAN]
Proofs == [ver : Nat, epoch : Nat]

\* A request: its handler, where it is, the row it read and the link it follows
Work == [op : Handlers \cup {"idle"},
         pc : {"idle", "right", "wrong", "issue", "writing", "linked", "owner"},
         seen : Users \cup {Nil}, link : Proofs \cup {Nil}]

Idle == [op |-> "idle", pc |-> "idle", seen |-> Nil, link |-> Nil]

Init ==
  /\ now = 0 /\ epoch = 0 /\ wrong = 0 /\ overwritten = FALSE
  /\ user = [version |-> 0, failed |-> 0, locked |-> Nil, rejected |-> FALSE]
  /\ jwts = {} /\ links = {}
  /\ txn = [r \in Requests |-> Idle]

-----------------------------------------------------------------------------
\* User.is_account_locked
Locked == user.locked # Nil /\ now < user.locked

\* Only reset_password keeps the row locked between two of its steps (on MySQL).
CanWrite(r) == \A q \in Requests \ {r} : txn[q].pc # "owner"

Begin(r, op, pc) ==
  /\ op \in Called /\ txn[r] = Idle
  /\ txn' = [txn EXCEPT ![r] = [Idle EXCEPT !.op = op, !.pc = pc, !.seen = user]]
  /\ UNCHANGED <<now, user, jwts, links, epoch, wrong, overwritten>>

Goto(r, pc) == txn' = [txn EXCEPT ![r].pc = pc]
End(r) == txn' = [txn EXCEPT ![r] = Idle]

Mine == [ver |-> user.version, epoch |-> epoch]

\* reset_failed_logins, and the end of set_password
Cleared(u, seen) ==
  [u EXCEPT !.failed = IF seen.failed = 0 THEN u.failed ELSE 0,
            !.locked = IF seen.locked = Nil THEN u.locked ELSE Nil]

\* User.record_failed_login on the row that was read
Failed(u, seen) ==
  [u EXCEPT !.failed = seen.failed + 1,
            !.locked = IF seen.failed + 1 >= MaxAttempts THEN now + LockFor ELSE u.locked]

-----------------------------------------------------------------------------
(* login without the second factor, and _complete_login.                     *)

Login(r, right) ==
  /\ ~Locked
  /\ Begin(r, "login", IF right THEN "right" ELSE "wrong")

CommitFailure(r) ==
  /\ txn[r].pc = "wrong" /\ CanWrite(r)
  /\ user' = Failed(user, txn[r].seen)
  /\ wrong' = wrong + 1
  /\ End(r)
  /\ UNCHANGED <<now, jwts, links, epoch, overwritten>>

CommitSuccess(r) ==
  /\ txn[r].pc = "right" /\ CanWrite(r)
  /\ user' = Cleared(user, txn[r].seen)
  /\ wrong' = 0
  /\ Goto(r, "issue")
  /\ UNCHANGED <<now, jwts, links, epoch, overwritten>>

\* The commit expired what was read: issue_token gets the current version.
IssueSession(r) ==
  /\ txn[r].pc = "issue"
  /\ jwts' = jwts \cup {Mine}
  /\ End(r)
  /\ UNCHANGED <<now, user, links, epoch, wrong, overwritten>>

-----------------------------------------------------------------------------
(* What revokes.                                                             *)

\* _load_user_from_jwt
Accepted(j) == j.ver = user.version /\ ~user.rejected

\* Somebody else has raised the version since the request read it.
Stale(r) == txn[r].seen.version # user.version

\* change_password behind a session; set_password works on the row that
\* loading the session read.
ChangePassword(r) ==
  /\ epoch < MaxEpoch /\ \E j \in jwts : Accepted(j)
  /\ Begin(r, "change", "writing")

CommitChange(r) ==
  /\ txn[r].op = "change" /\ txn[r].pc = "writing" /\ CanWrite(r)
  /\ user' = [Cleared(user, txn[r].seen) EXCEPT !.version = txn[r].seen.version + 1]
  /\ overwritten' = (overwritten \/ Stale(r))
  /\ epoch' = epoch + 1 /\ wrong' = 0
  /\ Goto(r, "issue")
  /\ UNCHANGED <<now, jwts, links>>

\* forgot_password
SendLink ==
  /\ "reset" \in Called
  /\ links' = links \cup {Mine}
  /\ UNCHANGED <<now, user, jwts, epoch, wrong, overwritten, txn>>

\* reset_password checks the link, locks the row and checks again.
FollowLink(r, l) ==
  /\ epoch < MaxEpoch /\ l.ver = user.version
  /\ txn[r] = Idle
  /\ txn' = [txn EXCEPT ![r] =
               [Idle EXCEPT !.op = "reset", !.pc = "linked", !.link = l]]
  /\ UNCHANGED <<now, user, jwts, links, epoch, wrong, overwritten>>

LinkTrusted(l) == TRUE
LinkStillValid(l) == l.ver = user.version

LockRow(r) ==
  /\ txn[r].pc = "linked" /\ CanWrite(r)
  /\ IF LinkStillValid(txn[r].link) THEN Goto(r, "owner") ELSE End(r)
  /\ UNCHANGED <<now, user, jwts, links, epoch, wrong, overwritten>>

RaisedSameVersion == user.version
RaisedVersion == user.version + 1

CommitReset(r) ==
  /\ txn[r].pc = "owner"
  /\ user' = [user EXCEPT !.version = RaisedVersion, !.failed = 0, !.locked = Nil]
  /\ epoch' = epoch + 1 /\ wrong' = 0
  /\ End(r)
  /\ UNCHANGED <<now, jwts, links, overwritten>>

RejectUser(r) == epoch < MaxEpoch /\ Begin(r, "reject", "writing")

CommitReject(r) ==
  /\ txn[r].op = "reject" /\ txn[r].pc = "writing" /\ CanWrite(r)
  /\ user' = [user EXCEPT !.rejected = @ \/ ~txn[r].seen.rejected,
                          !.version = txn[r].seen.version + 1]
  /\ overwritten' = (overwritten \/ Stale(r))
  /\ epoch' = epoch + 1
  /\ End(r)
  /\ UNCHANGED <<now, jwts, links, wrong>>

\* approve_user
ApproveUser ==
  /\ user.rejected /\ CanWrite(Nil)
  /\ user' = [user EXCEPT !.rejected = FALSE]
  /\ UNCHANGED <<now, jwts, links, epoch, wrong, overwritten, txn>>

UnlockUser(r) == Begin(r, "unlock", "writing")

CommitUnlock(r) ==
  /\ txn[r].op = "unlock" /\ txn[r].pc = "writing" /\ CanWrite(r)
  /\ user' = Cleared(user, txn[r].seen)
  /\ wrong' = 0
  /\ End(r)
  /\ UNCHANGED <<now, jwts, links, epoch, overwritten>>

Tick == now < MaxTime /\ now' = now + 1
        /\ UNCHANGED <<user, jwts, links, epoch, wrong, overwritten, txn>>

Next ==
  \/ \E r \in Requests :
        \/ \E right \in BOOLEAN : Login(r, right)
        \/ CommitFailure(r) \/ CommitSuccess(r) \/ IssueSession(r)
        \/ ChangePassword(r) \/ CommitChange(r)
        \/ \E l \in links : FollowLink(r, l)
        \/ LockRow(r) \/ CommitReset(r)
        \/ RejectUser(r) \/ CommitReject(r)
        \/ UnlockUser(r) \/ CommitUnlock(r)
  \/ SendLink \/ ApproveUser \/ Tick

Spec == Init /\ [][Next]_vars

-----------------------------------------------------------------------------
\* The row and everything made from it keep their types; a request carries the
\* row it read, and a reset the link it follows.
TypeOK ==
  /\ now \in 0..MaxTime /\ epoch \in Nat /\ wrong \in Nat
  /\ user \in Users /\ overwritten \in BOOLEAN
  /\ jwts \subseteq Proofs /\ links \subseteq Proofs
  /\ txn \in [Requests -> Work]
  /\ \A r \in Requests :
       \/ txn[r] = Idle
       \/ /\ txn[r].op = "reset" /\ txn[r].pc \in {"linked", "owner"}
          /\ txn[r].link \in links
       \/ /\ <<txn[r].op, txn[r].pc>> \in
               {<<"login", "right">>, <<"login", "wrong">>, <<"login", "issue">>,
                <<"change", "writing">>, <<"change", "issue">>,
                <<"reject", "writing">>, <<"unlock", "writing">>}
          /\ txn[r].seen \in Users

\* Every password change, reset or rejection makes all sessions and reset links
\* issued before it fail closed (User.session_version).
RevocationHolds == \A t \in jwts \cup links : t.ver = user.version => t.epoch = epoch

\* Nothing breaks that but a change or a rejection that overwrites a raised
\* version: logins, changes, resets, rejections and unlocks may otherwise
\* interleave in any way, and links and sessions be issued at any time.
RevokedUnlessOverwritten == ~overwritten => RevocationHolds

\* Concurrent or replayed requests never both consume one reset link: unless a
\* version was overwritten, a reset commits only with a link mailed since the
\* last revocation.
LinkOnce ==
  [][\A r \in Requests : txn[r].pc = "owner" /\ txn'[r] = Idle /\ ~overwritten
                            => txn[r].link.epoch = epoch]_vars

\* After MaxAttempts failed logins the account is locked (or its lock has run
\* out without being cleared): User.record_failed_login.
LockedAfterMax == wrong >= MaxAttempts => user.locked # Nil
=============================================================================
