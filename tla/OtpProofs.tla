----------------------------- MODULE OtpProofs -----------------------------
(***************************************************************************)
(* What verify_otp_challenge promises, for every number of concurrent        *)
(* requests, attempts and challenges.                                        *)
(***************************************************************************)
EXTENDS OtpChallenges, TLAPS

\* What a request carries in each of its states.
LEMMA Shapes ==
  ASSUME TypeOK, NEW r \in Requests
  PROVE  /\ txn[r].pc = "replacing" => txn[r].seen \in OtpRow \cup {Nil} /\ txn[r].arg \in Nat
         /\ txn[r].pc = "mailing" => txn[r].id \in Ids
         /\ txn[r].pc = "checking" =>
              txn[r].id \in Ids /\ txn[r].seen \in OtpRow /\ txn[r].seen # Nil
         /\ txn[r].pc = "idle" => txn[r] = Idle
<1>1. txn[r] \in Txns
  BY DEF TypeOK
<1>2. CASE txn[r] = Idle
  BY <1>2 DEF Idle, Doing
<1>3. CASE txn[r] # Idle
  BY <1>1, <1>3, OtpAssumption DEF Txns
<1> QED
  BY <1>2, <1>3

\* The type invariant and the counts together are inductive: only a request
\* that owns the row is sure that there is a row to write to.
Sound == TypeOK /\ CountsExact

\* Nobody owns the row once its only owner is done.
LEMMA OwnerDone ==
  ASSUME TypeOK, OneOwner, NEW r \in Requests, Owns(r) \/ RowFree(r),
         txn'[r].pc \in {"idle", "mailing"}, \A q \in Requests \ {r} : txn'[q] = txn[q]
  PROVE  \A q \in Requests : ~Owns(q)'
<1> SUFFICES ASSUME NEW q \in Requests PROVE ~Owns(q)'
  OBVIOUS
<1>1. CASE q = r
  BY <1>1 DEF Owns, TypeOK
<1>2. CASE q # r
  <2>1. ~Owns(q)
    BY <1>2 DEF OneOwner, RowFree
  <2> QED
    BY <1>2, <2>1 DEF Owns, TypeOK
<1> QED
  BY <1>1, <1>2

\* What a request that checks a code knows about the row.
LEMMA Checking ==
  ASSUME Sound, NEW r \in Requests, txn[r].pc = "checking"
  PROVE  /\ Owns(r) /\ row \in OtpRow /\ row = txn[r].seen /\ row # Nil
         /\ txn[r].id \in Ids /\ row.id = txn[r].id /\ row.spent = FALSE
         /\ guesses[row.id] = row.failed /\ accepted[row.id] = 0 /\ row.id <= issued
<1>1. txn[r].id \in Ids /\ txn[r].seen \in OtpRow /\ txn[r].seen # Nil
  BY Shapes DEF Sound
<1>2. Owns(r)
  BY <1>1 DEF Owns
<1>3. row = txn[r].seen /\ row.id = txn[r].id /\ row.spent = FALSE
  BY <1>2 DEF Sound, CountsExact, RowKept
<1> QED
  BY <1>1, <1>2, <1>3 DEF Sound, CountsExact, Counted

LEMMA SoundInit == Init => Sound
<1> SUFFICES ASSUME Init PROVE Sound
  OBVIOUS
<1>1. TypeOK
  BY OtpAssumption DEF Init, TypeOK, Txns
<1>2. \A r \in Requests : ~Owns(r)
  BY DEF Init, Owns, Idle, Doing
<1>3. OneOwner /\ RowKept
  BY <1>2 DEF OneOwner, RowKept
<1>4. Counted /\ IdsFresh /\ CodeOnce /\ GuessesBounded
  BY OtpAssumption DEF Init, Counted, IdsFresh, CodeOnce, GuessesBounded
<1> QED
  BY <1>1, <1>3, <1>4 DEF Sound, CountsExact

\* A request that starts to replace or to check the row becomes its only owner.
LEMMA SoundBegin ==
  ASSUME Sound, NEW r \in Requests,
         \/ BeginIssue(r)
         \/ \E id \in cookies, code \in {"right", "wrong"} : BeginVerify(r, id, code)
  PROVE  Sound'
<1> USE OtpAssumption
<1>1. PICK t \in Txns :
        /\ txn' = [txn EXCEPT ![r] = t] /\ t.seen = row
        /\ t.pc = "checking" => row # Nil /\ row.id = t.id /\ row.spent = FALSE
  <2>1. CASE BeginIssue(r)
    <3>1. Doing("replacing", Nil, row, now + Ttl) \in Txns
      BY DEF Sound, TypeOK, Doing, Txns
    <3> QED
      BY <2>1, <3>1 DEF BeginIssue, Goto, Doing
  <2>2. CASE \E id \in cookies, code \in {"right", "wrong"} : BeginVerify(r, id, code)
    <3>1. PICK id \in cookies, code \in {"right", "wrong"} : BeginVerify(r, id, code)
      BY <2>2
    <3>2. row \in OtpRow /\ row.id = id /\ row.spent = FALSE /\ row # Nil
      BY <3>1 DEF BeginVerify, Sound, TypeOK, OtpRow
    <3>3. Doing("checking", id, row, code) \in Txns
      BY <3>2 DEF Sound, TypeOK, Doing, Txns
    <3> QED
      BY <3>1, <3>2, <3>3 DEF BeginVerify, Goto, Doing
  <2> QED
    BY <2>1, <2>2
<1>2. RowFree(r) /\ UNCHANGED <<now, row, issued, cookies, guesses, accepted>>
  BY DEF BeginIssue, BeginVerify
<1>3. TypeOK'
  BY <1>1, <1>2 DEF Sound, TypeOK
<1>4. \A q \in Requests : q # r => ~Owns(q)'
  BY <1>1, <1>2 DEF RowFree, Owns, Sound, TypeOK
<1>5. OneOwner' /\ RowKept'
  BY <1>1, <1>2, <1>4 DEF OneOwner, RowKept, Owns, Sound, TypeOK
<1>6. Counted' /\ IdsFresh' /\ CodeOnce' /\ GuessesBounded'
  BY <1>2 DEF Sound, CountsExact, Counted, IdsFresh, CodeOnce, GuessesBounded
<1> QED
  BY <1>3, <1>5, <1>6 DEF Sound, CountsExact

\* A new challenge has an identifier nobody guessed at yet.
LEMMA SoundIssue ==
  ASSUME Sound, NEW r \in Requests, CommitIssue(r)
  PROVE  Sound'
<1> USE OtpAssumption
<1>1. issued + 1 \in Ids /\ issued \in Nat /\ issued' = issued + 1
  BY DEF CommitIssue, Sound, TypeOK, Ids
<1>2. row' \in OtpRow /\ row'.id = issued + 1 /\ row'.failed = 0 /\ row'.spent = FALSE
  BY <1>1, Shapes DEF CommitIssue, OtpRow, Sound
<1>3. Doing("mailing", issued + 1, Nil, Nil) \in Txns
  BY <1>1 DEF Doing, Txns
<1>4. TypeOK'
  BY <1>1, <1>2, <1>3 DEF CommitIssue, Goto, Sound, TypeOK, Ids
<1>5. Owns(r) \/ RowFree(r)
  <2>1. CASE txn[r].seen = Nil
    <3>1. row = Nil
      BY <2>1 DEF CommitIssue
    <3>2. \A q \in Requests : ~Owns(q)
      BY <3>1 DEF Sound, CountsExact, RowKept, Owns
    <3> QED
      BY <3>2 DEF RowFree
  <2>2. CASE txn[r].seen # Nil
    BY <2>2 DEF CommitIssue, Owns
  <2> QED
    BY <2>1, <2>2
<1>6. \A q \in Requests : ~Owns(q)'
  <2>1. txn'[r].pc = "mailing" /\ \A q \in Requests \ {r} : txn'[q] = txn[q]
    BY DEF CommitIssue, Goto, Doing, Sound, TypeOK
  <2> QED
    BY <1>5, <2>1, OwnerDone DEF Sound, CountsExact
<1>7. OneOwner' /\ RowKept'
  BY <1>6 DEF OneOwner, RowKept
<1>8. guesses[issued + 1] = 0 /\ accepted[issued + 1] = 0
  BY <1>1 DEF Sound, CountsExact, IdsFresh
<1>9. Counted' /\ IdsFresh' /\ CodeOnce' /\ GuessesBounded'
  <2>1. UNCHANGED <<guesses, accepted>>
    BY DEF CommitIssue
  <2>2. Counted'
    BY <1>1, <1>2, <1>8, <2>1 DEF Counted
  <2>3. IdsFresh'
    BY <1>1, <2>1 DEF Sound, CountsExact, IdsFresh, Ids
  <2> QED
    BY <2>1, <2>2, <2>3 DEF Sound, CountsExact, CodeOnce, GuessesBounded
<1> QED
  BY <1>4, <1>7, <1>9 DEF Sound, CountsExact

\* Giving up, and answering the browser, leave the counts alone.
LEMMA SoundLeave ==
  ASSUME Sound, NEW r \in Requests, FailIssue(r) \/ SendCode(r) \/ MailFails(r)
  PROVE  Sound'
<1> USE OtpAssumption
<1>1. /\ txn' = [txn EXCEPT ![r] = Idle] /\ UNCHANGED <<now, issued, guesses, accepted>>
      /\ row' = row \/ (row' = Nil /\ RowFree(r) /\ txn[r].pc = "mailing")
  BY DEF FailIssue, SendCode, MailFails, Goto
<1>2. TypeOK'
  <2>1. cookies' \subseteq Ids
    BY Shapes DEF FailIssue, SendCode, MailFails, Sound, TypeOK
  <2> QED
    BY <1>1, <2>1 DEF Sound, TypeOK, Txns
<1>3. \A q \in Requests : Owns(q)' => Owns(q) /\ txn'[q] = txn[q] /\ row' = row
  <2> SUFFICES ASSUME NEW q \in Requests, Owns(q)'
               PROVE  Owns(q) /\ txn'[q] = txn[q] /\ row' = row
    OBVIOUS
  <2>1. q # r
    BY <1>1 DEF Owns, Sound, TypeOK, Idle, Doing
  <2>2. Owns(q) /\ txn'[q] = txn[q]
    BY <1>1, <2>1 DEF Owns, Sound, TypeOK
  <2> QED
    BY <1>1, <2>1, <2>2 DEF RowFree
<1>4. OneOwner' /\ RowKept'
  BY <1>3 DEF Sound, CountsExact, OneOwner, RowKept
<1>5. Counted' /\ IdsFresh' /\ CodeOnce' /\ GuessesBounded'
  BY <1>1 DEF Sound, CountsExact, Counted, IdsFresh, CodeOnce, GuessesBounded
<1> QED
  BY <1>2, <1>4, <1>5 DEF Sound, CountsExact

\* An answer to a code: the count in the row and the guesses move together,
\* and the code is spent with the login it completes.
LEMMA SoundAnswer ==
  ASSUME Sound, NEW r \in Requests, CommitDead(r) \/ CommitWrong(r) \/ CommitRight(r)
  PROVE  Sound'
<1> USE OtpAssumption
<1> DEFINE i == row.id
<1>1. /\ txn[r].pc = "checking" /\ txn' = [txn EXCEPT ![r] = Idle]
      /\ UNCHANGED <<now, issued, cookies>>
  BY DEF CommitDead, CommitWrong, CommitRight, Goto
<1>2. /\ Owns(r) /\ row \in OtpRow /\ row = txn[r].seen /\ row # Nil
      /\ i \in Ids /\ i = txn[r].id /\ row.spent = FALSE
      /\ guesses[i] = row.failed /\ accepted[i] = 0 /\ i <= issued
  BY <1>1, Checking
<1>3. /\ row' \in OtpRow /\ row'.id = i
      /\ guesses' \in [Ids -> Nat] /\ accepted' \in [Ids -> Nat]
      /\ \A j \in Ids : j # i => guesses'[j] = guesses[j] /\ accepted'[j] = accepted[j]
      /\ guesses'[i] = row'.failed /\ accepted'[i] <= 1
      /\ accepted'[i] # 0 => row'.spent = TRUE
  <2>1. CASE CommitDead(r)
    <3>1. row' \in OtpRow /\ row'.id = i /\ row'.failed = row.failed
      BY <1>2, <2>1 DEF CommitDead, OtpRow
    <3>2. accepted' = accepted /\ guesses' = guesses
      BY <2>1 DEF CommitDead
    <3> QED
      BY <1>2, <3>1, <3>2 DEF Sound, TypeOK
  <2>2. CASE CommitWrong(r)
    <3>1. row.failed + 1 \in 0 .. MaxFailedAttempts
      BY <1>2, <2>2 DEF CommitWrong, Dead, OtpRow
    <3>2. row' \in OtpRow /\ row'.id = i /\ row'.failed = row.failed + 1
      BY <1>2, <2>2, <3>1 DEF CommitWrong, OtpRow
    <3>3. guesses' = [guesses EXCEPT ![i] = @ + 1] /\ accepted' = accepted
      BY <1>2, <2>2 DEF CommitWrong
    <3> QED
      BY <1>2, <3>1, <3>2, <3>3 DEF Sound, TypeOK
  <2>3. CASE CommitRight(r)
    <3>1. row' \in OtpRow /\ row'.id = i /\ row'.failed = row.failed /\ row'.spent = TRUE
      BY <1>2, <2>3 DEF CommitRight, OtpRow
    <3>2. accepted' = [accepted EXCEPT ![i] = @ + 1] /\ guesses' = guesses
      BY <1>2, <2>3 DEF CommitRight
    <3> QED
      BY <1>2, <3>1, <3>2 DEF Sound, TypeOK
  <2> QED
    BY <2>1, <2>2, <2>3
<1>4. TypeOK'
  BY <1>1, <1>3 DEF Sound, TypeOK, Txns
<1>5. \A q \in Requests : ~Owns(q)'
  <2>1. txn'[r].pc = "idle" /\ \A q \in Requests \ {r} : txn'[q] = txn[q]
    BY <1>1 DEF Idle, Doing, Sound, TypeOK
  <2> QED
    BY <1>2, <2>1, OwnerDone DEF Sound, CountsExact
<1>6. OneOwner' /\ RowKept'
  BY <1>5 DEF OneOwner, RowKept
<1>7. Counted'
  BY <1>1, <1>2, <1>3 DEF Counted
<1>8. IdsFresh'
  BY <1>1, <1>2, <1>3 DEF Sound, CountsExact, IdsFresh, Ids, TypeOK
<1>9. CodeOnce'
  BY <1>2, <1>3 DEF Sound, CountsExact, CodeOnce
<1>10. GuessesBounded'
  BY <1>2, <1>3 DEF Sound, CountsExact, GuessesBounded, OtpRow
<1> QED
  BY <1>4, <1>6, <1>7, <1>8, <1>9, <1>10 DEF Sound, CountsExact

LEMMA SoundStep == Sound /\ [Next]_vars => Sound'
<1> SUFFICES ASSUME Sound, [Next]_vars PROVE Sound'
  OBVIOUS
<1>1. ASSUME NEW r \in Requests, Step(r) PROVE Sound'
  BY <1>1, SoundBegin, SoundIssue, SoundLeave, SoundAnswer DEF Step
<1>2. CASE Tick \/ UNCHANGED vars
  <2>1. UNCHANGED <<row, issued, cookies, guesses, accepted, txn>> /\ now' \in 0..MaxTime
    BY <1>2, OtpAssumption DEF Tick, vars, Sound, TypeOK
  <2>2. TypeOK'
    BY <2>1 DEF Sound, TypeOK
  <2>3. OneOwner' /\ RowKept'
    BY <2>1 DEF Sound, CountsExact, OneOwner, RowKept, Owns
  <2>4. Counted' /\ IdsFresh' /\ CodeOnce' /\ GuessesBounded'
    BY <2>1 DEF Sound, CountsExact, Counted, IdsFresh, CodeOnce, GuessesBounded
  <2> QED
    BY <2>2, <2>3, <2>4 DEF Sound, CountsExact
<1> QED
  BY <1>1, <1>2 DEF Next

(* The row, the counters and the requests of the second factor keep their    *)
(* types (otp_service.py, login, verify_mfa).                                *)
THEOREM OtpTyped == Spec => []TypeOK
<1>1. Sound => TypeOK
  BY DEF Sound
<1> QED
  BY <1>1, SoundInit, SoundStep, PTL DEF Spec

(* The row lock of verify_otp_challenge makes the stored count exact: it is  *)
(* the number of wrong codes that were answered, whoever sent them.          *)
THEOREM OtpCounts == Spec => []CountsExact
<1>1. Sound => CountsExact
  BY DEF Sound
<1> QED
  BY <1>1, SoundInit, SoundStep, PTL DEF Spec

(* A code completes at most one login (verify_otp_challenge, verify_mfa).    *)
THEOREM CodeUsedOnce == Spec => []CodeOnce
<1>1. CountsExact => CodeOnce
  BY DEF CountsExact
<1> QED
  BY <1>1, OtpCounts, PTL

(* Concurrent requests get no more guesses at a challenge than               *)
(* MAX_FAILED_ATTEMPTS (verify_otp_challenge).                               *)
THEOREM GuessBudget == Spec => []GuessesBounded
<1>1. CountsExact => GuessesBounded
  BY DEF CountsExact
<1> QED
  BY <1>1, OtpCounts, PTL

-----------------------------------------------------------------------------
(* New attempts come only with a new challenge, and a new challenge only when *)
(* the old one is used up or was never delivered.                             *)

\* A challenge is spent by time, by too many wrong codes or by the right one.
SpentFor ==
  row # Nil /\ row.spent =>
    row.expires <= now \/ row.failed >= MaxFailedAttempts \/ accepted[row.id] = 1

\* What issue_otp_challenge replaces was replaceable when it looked, and still is.
Replaceable ==
  \A r \in Requests : txn[r].pc = "replacing" /\ txn[r].seen # Nil =>
    \/ txn[r].seen.expires <= now
    \/ txn[r].seen.spent /\ txn[r].seen.failed < MaxFailedAttempts

\* Only a challenge whose identifier reached the browser is guessed at.
Undelivered ==
  /\ cookies \subseteq 1 .. issued
  /\ \A i \in Ids : guesses[i] # 0 => i \in cookies
  /\ \A r \in Requests : txn[r].pc = "checking" => txn[r].id \in cookies
  /\ \A r \in Requests : txn[r].pc = "mailing" =>
       /\ txn[r].id \in 1 .. issued /\ txn[r].id \notin cookies
       /\ \A q \in Requests \ {r} : txn[q].pc = "mailing" => txn[q].id # txn[r].id

Renewal == SpentFor /\ Replaceable /\ Undelivered

LEMMA RenewalInit == Init => Renewal
  BY DEF Init, Renewal, SpentFor, Replaceable, Undelivered, Idle, Doing

LEMMA RenewalBegin ==
  ASSUME Sound, Renewal, NEW r \in Requests,
         \/ BeginIssue(r)
         \/ \E id \in cookies, code \in {"right", "wrong"} : BeginVerify(r, id, code)
  PROVE  Renewal'
<1>1. PICK t :
        /\ txn' = [txn EXCEPT ![r] = t]
        /\ \/ t.pc = "replacing" /\ t.seen = row /\ MayReplace
           \/ t.pc = "checking" /\ t.id \in cookies
  <2>1. CASE BeginIssue(r)
    <3>1. PICK t : t = Doing("replacing", Nil, row, now + Ttl)
      OBVIOUS
    <3>2. t.pc = "replacing" /\ t.seen = row
      BY <3>1 DEF Doing
    <3> QED
      BY <2>1, <3>1, <3>2 DEF BeginIssue, Goto
  <2>2. CASE \E id \in cookies, code \in {"right", "wrong"} : BeginVerify(r, id, code)
    <3>1. PICK id \in cookies, code \in {"right", "wrong"} : BeginVerify(r, id, code)
      BY <2>2
    <3>2. PICK t : t = Doing("checking", id, row, code)
      OBVIOUS
    <3>3. t.pc = "checking" /\ t.id = id
      BY <3>2 DEF Doing
    <3> QED
      BY <3>1, <3>2, <3>3 DEF BeginVerify, Goto
  <2> QED
    BY <2>1, <2>2
<1>2. UNCHANGED <<now, row, issued, cookies, guesses, accepted>>
  BY DEF BeginIssue, BeginVerify
<1>3. txn'[r] = t /\ \A q \in Requests \ {r} : txn'[q] = txn[q]
  BY <1>1 DEF Sound, TypeOK
<1>4. SpentFor'
  BY <1>2 DEF Renewal, SpentFor
<1>5. Replaceable'
  BY <1>1, <1>2, <1>3 DEF Renewal, Replaceable, MayReplace
<1>6. Undelivered'
  BY <1>1, <1>2, <1>3 DEF Renewal, Undelivered
<1> QED
  BY <1>4, <1>5, <1>6 DEF Renewal

LEMMA RenewalIssue ==
  ASSUME Sound, Renewal, NEW r \in Requests, CommitIssue(r)
  PROVE  Renewal'
<1>1. /\ issued \in Nat /\ issued' = issued + 1 /\ row'.spent = FALSE
      /\ UNCHANGED <<now, cookies, guesses, accepted>>
  BY OtpAssumption DEF CommitIssue, Sound, TypeOK
<1>2. /\ txn'[r].pc = "mailing" /\ txn'[r].id = issued + 1
      /\ \A q \in Requests \ {r} : txn'[q] = txn[q]
  BY DEF CommitIssue, Goto, Doing, Sound, TypeOK
<1>3. SpentFor'
  BY <1>1 DEF SpentFor
<1>4. Replaceable'
  BY <1>1, <1>2 DEF Renewal, Replaceable
<1>5. Undelivered'
  <2>1. \A i \in 1 .. issued : i \in 1 .. issued' /\ i # issued + 1
    BY <1>1
  <2>2. issued + 1 \in 1 .. issued'
    BY <1>1
  <2> QED
    BY <1>1, <1>2, <2>1, <2>2 DEF Renewal, Undelivered
<1> QED
  BY <1>3, <1>4, <1>5 DEF Renewal

LEMMA RenewalLeave ==
  ASSUME Sound, Renewal, NEW r \in Requests, FailIssue(r) \/ SendCode(r) \/ MailFails(r)
  PROVE  Renewal'
<1>1. /\ UNCHANGED <<now, issued, guesses, accepted>> /\ (row' = row \/ row' = Nil)
      /\ txn'[r].pc = "idle" /\ \A q \in Requests \ {r} : txn'[q] = txn[q]
      /\ cookies' = cookies \/ (txn[r].pc = "mailing" /\ cookies' = cookies \cup {txn[r].id})
  BY DEF FailIssue, SendCode, MailFails, Goto, Sound, TypeOK, Idle, Doing
<1>2. SpentFor' /\ Replaceable'
  BY <1>1 DEF Renewal, SpentFor, Replaceable
<1>3. Undelivered'
  BY <1>1 DEF Renewal, Undelivered
<1> QED
  BY <1>2, <1>3 DEF Renewal

LEMMA RenewalAnswer ==
  ASSUME Sound, Renewal, NEW r \in Requests, CommitDead(r) \/ CommitWrong(r) \/ CommitRight(r)
  PROVE  Renewal'
<1>1. /\ txn[r].pc = "checking" /\ UNCHANGED <<now, issued, cookies>>
      /\ txn'[r].pc = "idle" /\ \A q \in Requests \ {r} : txn'[q] = txn[q]
  BY DEF CommitDead, CommitWrong, CommitRight, Goto, Sound, TypeOK, Idle, Doing
<1>2. /\ row \in OtpRow /\ row = txn[r].seen /\ txn[r].id \in Ids /\ row.id = txn[r].id
      /\ row.spent = FALSE /\ accepted[row.id] = 0
  BY <1>1, Checking
<1>3. PICK d : d = row
  OBVIOUS
<1>4. SpentFor'
  <2>1. CASE CommitDead(r)
    <3>1. d.expires <= now \/ d.failed >= MaxFailedAttempts
      BY <1>2, <1>3, <2>1 DEF CommitDead, Dead
    <3>2. row' = [d EXCEPT !.spent = TRUE]
      BY <1>3, <2>1 DEF CommitDead
    <3>3. row'.expires = d.expires /\ row'.failed = d.failed
      BY <1>2, <1>3, <3>2 DEF OtpRow
    <3> QED
      BY <1>1, <3>1, <3>3 DEF SpentFor
  <2>2. CASE CommitWrong(r)
    <3>1. PICK f : f = d.failed + 1
      OBVIOUS
    <3>2. row' = [d EXCEPT !.failed = f, !.spent = d.spent \/ f >= MaxFailedAttempts]
      BY <1>2, <1>3, <2>2, <3>1 DEF CommitWrong
    <3>3. row'.failed = f /\ (row'.spent => f >= MaxFailedAttempts)
      BY <1>2, <1>3, <3>2 DEF OtpRow
    <3> QED
      BY <3>3 DEF SpentFor
  <2>3. CASE CommitRight(r)
    <3>1. row' = [d EXCEPT !.spent = TRUE] /\ accepted' = [accepted EXCEPT ![d.id] = @ + 1]
      BY <1>2, <1>3, <2>3 DEF CommitRight
    <3>2. row'.id = d.id /\ d.id \in Ids /\ accepted[d.id] = 0
      BY <1>2, <1>3, <3>1 DEF OtpRow
    <3>3. accepted'[d.id] = 1
      BY <3>1, <3>2 DEF Sound, TypeOK
    <3> QED
      BY <3>2, <3>3 DEF SpentFor
  <2> QED
    BY <2>1, <2>2, <2>3
<1>5. Replaceable'
  BY <1>1 DEF Renewal, Replaceable
<1>6. Undelivered'
  <2>1. \A i \in Ids : guesses'[i] = guesses[i] \/ i = txn[r].id
    BY <1>2 DEF CommitDead, CommitWrong, CommitRight, Sound, TypeOK
  <2>2. txn[r].id \in cookies
    BY <1>1 DEF Renewal, Undelivered
  <2> QED
    BY <1>1, <2>1, <2>2 DEF Renewal, Undelivered
<1> QED
  BY <1>4, <1>5, <1>6 DEF Renewal

LEMMA RenewalStep == Sound /\ Renewal /\ [Next]_vars => Renewal'
<1> SUFFICES ASSUME Sound, Renewal, [Next]_vars PROVE Renewal'
  OBVIOUS
<1>1. ASSUME NEW r \in Requests, Step(r) PROVE Renewal'
  BY <1>1, RenewalBegin, RenewalIssue, RenewalLeave, RenewalAnswer DEF Step
<1>2. CASE Tick \/ UNCHANGED vars
  <2>1. /\ UNCHANGED <<row, issued, cookies, guesses, accepted, txn>>
        /\ now \in Nat /\ now' \in Nat /\ now <= now'
    BY <1>2, OtpAssumption DEF Tick, vars, Sound, TypeOK
  <2>2. SpentFor'
    <3>1. row # Nil => row.expires \in Nat
      BY DEF Sound, TypeOK, OtpRow
    <3> QED
      BY <2>1, <3>1 DEF Renewal, SpentFor
  <2>3. Replaceable'
    <3>1. \A r \in Requests : txn[r].pc = "replacing" /\ txn[r].seen # Nil
                                => txn[r].seen.expires \in Nat
      BY Shapes DEF Sound, OtpRow
    <3> QED
      BY <2>1, <3>1 DEF Renewal, Replaceable
  <2>4. Undelivered'
    BY <2>1 DEF Renewal, Undelivered
  <2> QED
    BY <2>2, <2>3, <2>4 DEF Renewal
<1> QED
  BY <1>1, <1>2 DEF Next

\* Who takes a challenge away that still counts
LEMMA Taken ==
  ASSUME Sound, Renewal, Next, row # Nil, row.expires > now, row' = Nil \/ row'.id # row.id
  PROVE  accepted[row.id] = 1 \/ guesses[row.id] = 0
<1> USE OtpAssumption
<1>1. row \in OtpRow
  BY DEF Sound, TypeOK
<1>2. ASSUME NEW r \in Requests, CommitIssue(r) PROVE accepted[row.id] = 1
  <2>1. txn[r].seen = row /\ txn[r].pc = "replacing"
    BY <1>2 DEF CommitIssue
  <2>2. row.expires \in Nat /\ row.failed \in Nat /\ now \in Nat
    BY <1>1 DEF OtpRow, Sound, TypeOK
  <2>3. row.spent /\ row.failed < MaxFailedAttempts
    BY <2>1, <2>2 DEF Renewal, Replaceable
  <2> QED
    BY <2>2, <2>3 DEF Renewal, SpentFor
<1>3. ASSUME NEW r \in Requests, MailFails(r) PROVE guesses[row.id] = 0
  <2>1. row.id = txn[r].id /\ txn[r].pc = "mailing" /\ row.id \in Ids
    BY <1>1, <1>3 DEF MailFails, OtpRow
  <2> QED
    BY <2>1 DEF Renewal, Undelivered
<1>4. ASSUME NEW r \in Requests, CommitDead(r) \/ CommitWrong(r) \/ CommitRight(r)
      PROVE  row' \in OtpRow /\ row'.id = row.id
  <2>1. txn[r].pc = "checking"
    BY <1>4 DEF CommitDead, CommitWrong, CommitRight
  <2>2. PICK d \in OtpRow : d = row /\ d = txn[r].seen
    BY <2>1, Checking
  <2>3. CASE CommitDead(r) \/ CommitRight(r)
    BY <2>2, <2>3 DEF CommitDead, CommitRight, OtpRow
  <2>4. CASE CommitWrong(r)
    <3>1. d.failed + 1 \in 0 .. MaxFailedAttempts
      BY <2>2, <2>4 DEF CommitWrong, Dead, OtpRow
    <3> QED
      BY <2>2, <2>4, <3>1 DEF CommitWrong, OtpRow
  <2> QED
    BY <1>4, <2>3, <2>4
<1>5. \/ \E r \in Requests : CommitIssue(r) \/ MailFails(r)
      \/ \E r \in Requests : CommitDead(r) \/ CommitWrong(r) \/ CommitRight(r)
      \/ row' = row
  BY DEF Next, Step, BeginIssue, FailIssue, SendCode, BeginVerify, Tick
<1> QED
  BY <1>2, <1>3, <1>4, <1>5

(* issue_otp_challenge gives new attempts only after the code was accepted or *)
(* its time ran out, and login takes back only a challenge nobody guessed at. *)
THEOREM AttemptsRenewed == Spec => BudgetRenewed
<1>1. Sound /\ Renewal /\ [Next]_vars =>
        [row # Nil /\ row.expires > now /\ (row' = Nil \/ row'.id # row.id)
           => accepted[row.id] = 1 \/ guesses[row.id] = 0]_vars
  BY Taken
<1> QED
  BY <1>1, SoundInit, SoundStep, RenewalInit, RenewalStep, PTL DEF Spec, BudgetRenewed
=============================================================================
