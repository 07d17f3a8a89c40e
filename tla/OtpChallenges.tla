--------------------------- MODULE OtpChallenges ---------------------------
(***************************************************************************)
(* The second factor of one account (app/services/otp_service.py, and login  *)
(* and verify_mfa in app/auth.py): one row of otp_challenge at a time, made  *)
(* when the password was right, spent by the code or by too many wrong ones. *)
(* The browser keeps the challenge's identifier in its own session cookie,   *)
(* so it can present every identifier it was ever given.  The database is    *)
(* MySQL: on SQLite, which the development set-up uses, FOR UPDATE locks     *)
(* nothing and what is said here of concurrent requests does not hold.       *)
(***************************************************************************)
EXTENDS Integers

CONSTANTS
  Requests,           \* worker threads
  MaxFailedAttempts,  \* MAX_FAILED_ATTEMPTS
  Ttl,                \* ttl_seconds
  MaxTime,            \* bound of the clock
  MaxIssued,          \* bound of the challenges issued
  Nil

Ids    == 1 .. MaxIssued
OtpRow == [id : Ids, expires : Nat, failed : 0 .. MaxFailedAttempts, spent : BOOLEAN]

ASSUME OtpAssumption ==
  /\ {MaxFailedAttempts, Ttl} \subseteq Nat \ {0}
  /\ {MaxTime, MaxIssued} \subseteq Nat /\ Nil \notin Nat \cup OtpRow

VARIABLES
  now,
  row,       \* the otp_challenge row: id, expires, failed, spent (Nil: none)
  issued,    \* how many challenges were made: their identifiers
  cookies,   \* identifiers that reached the browser
  guesses,   \* wrong codes answered "invalid" or "locked", by challenge
  accepted,  \* logins completed, by challenge
  txn        \* what each worker thread is doing

vars == <<now, row, issued, cookies, guesses, accepted, txn>>

Doing(pc, id, seen, arg) == [pc |-> pc, id |-> id, seen |-> seen, arg |-> arg]
Idle == Doing("idle", Nil, Nil, Nil)

Init ==
  /\ now = 0 /\ row = Nil /\ issued = 0 /\ cookies = {}
  /\ guesses = [i \in Ids |-> 0]
  /\ accepted = [i \in Ids |-> 0]
  /\ txn = [r \in Requests |-> Idle]

\* with_for_update on the row, kept until the commit (MySQL; SQLAlchemy leaves it
\* out of the statement for SQLite)
Owns(r) == txn[r].pc \in {"replacing", "checking"} /\ txn[r].seen # Nil
RowFree(r) == \A q \in Requests \ {r} : ~Owns(q)

Goto(r, t) == txn' = [txn EXCEPT ![r] = t]

-----------------------------------------------------------------------------
(* issue_otp_challenge, called by login once the password was right.         *)

MayReplaceSpent == row # Nil => row.expires <= now \/ row.spent
MayReplace ==
  row # Nil => \/ row.expires <= now
               \/ row.spent /\ row.failed < MaxFailedAttempts

\* The time is read before the row, so the new challenge expires Ttl after the
\* request began.  Otherwise the caller is rate limited and nothing changes.
BeginIssue(r) ==
  /\ txn[r] = Idle /\ issued < MaxIssued
  /\ RowFree(r) /\ MayReplace
  /\ Goto(r, Doing("replacing", Nil, row, now + Ttl))
  /\ UNCHANGED <<now, row, issued, cookies, guesses, accepted>>

\* DELETE and INSERT under uq_otp_challenge_user_purpose, COMMIT
CommitIssue(r) ==
  /\ txn[r].pc = "replacing" /\ row = txn[r].seen /\ issued < MaxIssued
  /\ issued' = issued + 1
  /\ row' = [id |-> issued + 1, expires |-> txn[r].arg, failed |-> 0, spent |-> FALSE]
  /\ Goto(r, Doing("mailing", issued + 1, Nil, Nil))
  /\ UNCHANGED <<now, cookies, guesses, accepted>>

\* Another request inserted its challenge first, or the database failed.
FailIssue(r) ==
  /\ txn[r].pc = "replacing"
  /\ Goto(r, Idle)
  /\ UNCHANGED <<now, row, issued, cookies, guesses, accepted>>

\* The response of login sets the session cookie.
SendCode(r) ==
  /\ txn[r].pc = "mailing"
  /\ cookies' = cookies \cup {txn[r].id}
  /\ Goto(r, Idle)
  /\ UNCHANGED <<now, row, issued, guesses, accepted>>

\* The mail was not accepted: login deletes the challenge it made.
MailFails(r) ==
  /\ txn[r].pc = "mailing" /\ RowFree(r)
  /\ row' = IF row # Nil /\ row.id = txn[r].id THEN Nil ELSE row
  /\ Goto(r, Idle)
  /\ UNCHANGED <<now, issued, cookies, guesses, accepted>>

-----------------------------------------------------------------------------
(* verify_otp_challenge, called by verify_mfa.                               *)

BeginVerifySpent(r, id, code) ==
  /\ txn[r] = Idle /\ RowFree(r)
  /\ row # Nil /\ row.id = id
  /\ Goto(r, Doing("checking", id, row, code))
  /\ UNCHANGED <<now, row, issued, cookies, guesses, accepted>>

\* Without such a row the answer is "missing" and nothing changes.
BeginVerify(r, id, code) ==
  /\ txn[r] = Idle /\ RowFree(r)
  /\ row # Nil /\ row.id = id /\ ~row.spent
  /\ Goto(r, Doing("checking", id, row, code))
  /\ UNCHANGED <<now, row, issued, cookies, guesses, accepted>>

Dead(seen) == seen.expires <= now \/ seen.failed >= MaxFailedAttempts

\* "expired" or "locked" before the code is looked at
CommitDead(r) ==
  /\ txn[r].pc = "checking" /\ Dead(txn[r].seen)
  /\ row' = [row EXCEPT !.spent = TRUE]
  /\ Goto(r, Idle)
  /\ UNCHANGED <<now, issued, cookies, guesses, accepted>>

\* "invalid", or "locked" by the last attempt
CommitWrongUncounted(r) ==
  /\ txn[r].pc = "checking" /\ ~Dead(txn[r].seen) /\ txn[r].arg = "wrong"
  /\ guesses' = [guesses EXCEPT ![txn[r].id] = @ + 1]
  /\ Goto(r, Idle)
  /\ UNCHANGED <<now, row, issued, cookies, accepted>>

CommitWrong(r) ==
  LET failed == txn[r].seen.failed + 1 IN
  /\ txn[r].pc = "checking" /\ ~Dead(txn[r].seen) /\ txn[r].arg = "wrong"
  /\ row' = [row EXCEPT !.failed = failed, !.spent = @ \/ failed >= MaxFailedAttempts]
  /\ guesses' = [guesses EXCEPT ![txn[r].id] = @ + 1]
  /\ Goto(r, Idle)
  /\ UNCHANGED <<now, issued, cookies, accepted>>

\* "valid": verify_mfa completes the login
CommitRight(r) ==
  /\ txn[r].pc = "checking" /\ ~Dead(txn[r].seen) /\ txn[r].arg = "right"
  /\ row' = [row EXCEPT !.spent = TRUE]
  /\ accepted' = [accepted EXCEPT ![txn[r].id] = @ + 1]
  /\ Goto(r, Idle)
  /\ UNCHANGED <<now, issued, cookies, guesses>>

Tick == now < MaxTime /\ now' = now + 1
        /\ UNCHANGED <<row, issued, cookies, guesses, accepted, txn>>

Step(r) ==
  \/ BeginIssue(r) \/ CommitIssue(r) \/ FailIssue(r) \/ SendCode(r) \/ MailFails(r)
  \/ \E id \in cookies, code \in {"right", "wrong"} : BeginVerify(r, id, code)
  \/ CommitDead(r) \/ CommitWrong(r) \/ CommitRight(r)

Next == (\E r \in Requests : Step(r)) \/ Tick

Spec == Init /\ [][Next]_vars

-----------------------------------------------------------------------------
\* A request is idle, replacing the row it read (arg: when the new one expires),
\* mailing its code, or checking a code (arg) against the row it read.
Txns ==
  {Idle}
  \cup [pc : {"replacing"}, id : {Nil}, seen : OtpRow \cup {Nil}, arg : Nat]
  \cup [pc : {"mailing"}, id : Ids, seen : {Nil}, arg : {Nil}]
  \cup [pc : {"checking"}, id : Ids, seen : OtpRow, arg : {"right", "wrong"}]

\* The row, the counters and every request keep their types.
TypeOK ==
  /\ now \in 0..MaxTime /\ issued \in 0..MaxIssued
  /\ row \in OtpRow \cup {Nil} /\ cookies \subseteq Ids
  /\ guesses \in [Ids -> Nat] /\ accepted \in [Ids -> Nat]
  /\ txn \in [Requests -> Txns]

\* A code completes at most one login, however many requests present it.
CodeOnce == \A i \in Ids : accepted[i] <= 1

\* A challenge answers at most MaxFailedAttempts wrong codes, also when they
\* arrive at the same time.
GuessesBounded == \A i \in Ids : guesses[i] <= MaxFailedAttempts

\* A new challenge, and with it new attempts, comes only after the code was
\* accepted or its time ran out; a challenge that login takes back because its
\* mail failed was never guessed at.
BudgetRenewed ==
  [][row # Nil /\ row.expires > now /\ (row' = Nil \/ row'.id # row.id)
       => accepted[row.id] = 1 \/ guesses[row.id] = 0]_vars

-----------------------------------------------------------------------------
(* Why the counts are exact: a request that read the row owns it, so its     *)
(* write starts from what is there.                                          *)

OneOwner == \A q, r \in Requests : Owns(q) /\ Owns(r) => q = r

RowKept ==
  \A r \in Requests : Owns(r) =>
    /\ row = txn[r].seen
    /\ txn[r].pc = "checking" => row.id = txn[r].id /\ row.spent = FALSE

Counted ==
  row # Nil =>
    /\ row.id <= issued
    /\ guesses[row.id] = row.failed
    /\ accepted[row.id] # 0 => row.spent = TRUE

IdsFresh == \A i \in Ids : i > issued => guesses[i] = 0 /\ accepted[i] = 0

\* The inductive invariant of the challenge row.
CountsExact ==
  OneOwner /\ RowKept /\ Counted /\ IdsFresh /\ CodeOnce /\ GuessesBounded
=============================================================================
