--------------------------- MODULE SessionProofs ----------------------------
(***************************************************************************)
(* Proofs about Sessions, for every number of threads and every set of       *)
(* handlers that are called, however they overlap.                           *)
(***************************************************************************)
EXTENDS Sessions, TLAPS

-----------------------------------------------------------------------------
(* What handlers write.                                                      *)

LEMMA Columns ==
  ASSUME NEW u \in Users
  PROVE  /\ u.version \in Nat /\ u.failed \in Nat
         /\ u.locked \in Nat \cup {Nil} /\ u.rejected \in BOOLEAN
BY DEF Users

LEMMA VersionWritten ==
  ASSUME NEW u \in Users, NEW n \in Nat
  PROVE  LET w == [u EXCEPT !.version = n]
         IN  w \in Users /\ w.version = n
BY DEF Users

LEMMA ResetWritten ==
  ASSUME NEW u \in Users, NEW n \in Nat
  PROVE  LET w == [u EXCEPT !.version = n, !.failed = 0, !.locked = Nil]
         IN  w \in Users /\ w.version = n
BY DEF Users

LEMMA RejectionWritten ==
  ASSUME NEW u \in Users, NEW b \in BOOLEAN, NEW n \in Nat
  PROVE  LET w == [u EXCEPT !.rejected = b, !.version = n]
         IN  w \in Users /\ w.version = n
BY DEF Users

LEMMA ApprovalWritten ==
  ASSUME NEW u \in Users
  PROVE  LET w == [u EXCEPT !.rejected = FALSE]
         IN  w \in Users /\ w.version = u.version
BY DEF Users

\* Clearing keeps the version.
LEMMA ClearedRow ==
  ASSUME NEW u \in Users, NEW seen \in Users
  PROVE  Cleared(u, seen) \in Users /\ Cleared(u, seen).version = u.version
<1>1. PICK n \in Nat : n = IF seen.failed = 0 THEN u.failed ELSE 0
  BY Columns
<1>2. PICK l \in Nat \cup {Nil} : l = IF seen.locked = Nil THEN u.locked ELSE Nil
  BY Columns
<1>3. Cleared(u, seen) = [u EXCEPT !.failed = n, !.locked = l]
  BY <1>1, <1>2 DEF Cleared
<1>4. PICK w : w = [u EXCEPT !.failed = n, !.locked = l]
  OBVIOUS
<1>5. w \in Users /\ w.version = u.version
  BY <1>4 DEF Users
<1>6. Cleared(u, seen) = w
  BY <1>3, <1>4
<1> QED
  BY <1>5, <1>6

\* Counting keeps the version.
LEMMA FailedRow ==
  ASSUME NEW u \in Users, NEW seen \in Users, now \in Nat
  PROVE  Failed(u, seen) \in Users /\ Failed(u, seen).version = u.version
<1>1. PICK n \in Nat : n = seen.failed + 1
  BY Columns
<1>2. PICK l \in Nat \cup {Nil} :
        l = IF seen.failed + 1 >= MaxAttempts THEN now + LockFor ELSE u.locked
  <2>1. (IF seen.failed + 1 >= MaxAttempts THEN now + LockFor ELSE u.locked)
          \in Nat \cup {Nil}
    BY Columns, SessionAssumption
  <2> QED
    BY <2>1
<1>3. Failed(u, seen) = [u EXCEPT !.failed = n, !.locked = l]
  BY <1>1, <1>2 DEF Failed
<1>4. PICK w : w = [u EXCEPT !.failed = n, !.locked = l]
  OBVIOUS
<1>5. w \in Users /\ w.version = u.version
  BY <1>4 DEF Users
<1>6. Failed(u, seen) = w
  BY <1>3, <1>4
<1> QED
  BY <1>5, <1>6

-----------------------------------------------------------------------------
(* How requests move.                                                        *)

\* All other requests stay where they are.
OthersStay(r) ==
  txn' \in [Requests -> Work] /\ \A q \in Requests \ {r} : txn'[q] = txn[q]

LEMMA Begins ==
  ASSUME TypeOK, NEW r \in Requests, NEW op \in Handlers,
         NEW pc \in {"right", "wrong", "writing"}, Begin(r, op, pc)
  PROVE  /\ OthersStay(r) /\ txn[r] = Idle
         /\ txn'[r].op = op /\ txn'[r].pc = pc /\ txn'[r].seen = user /\ txn'[r] # Idle
         /\ UNCHANGED <<now, user, jwts, links, epoch, wrong, overwritten>>
<1> DEFINE t == [Idle EXCEPT !.op = op, !.pc = pc, !.seen = user]
<1>1. ASSUME NEW u \in Users
      PROVE  LET w == [Idle EXCEPT !.op = op, !.pc = pc, !.seen = u]
             IN  w \in Work /\ w.op = op /\ w.pc = pc /\ w.seen = u
  BY DEF Work, Idle
<1>2. t \in Work /\ t.op = op /\ t.pc = pc /\ t.seen = user
  BY <1>1 DEF TypeOK
<1>3. txn' = [txn EXCEPT ![r] = t] /\ txn \in [Requests -> Work]
  BY DEF Begin, TypeOK
<1>4. t # Idle
  BY <1>2 DEF Idle
<1> HIDE DEF t
<1> QED
  BY <1>2, <1>3, <1>4 DEF Begin, OthersStay

LEMMA Moves ==
  ASSUME TypeOK, NEW r \in Requests, NEW pc \in {"issue", "owner"}, Goto(r, pc)
  PROVE  /\ OthersStay(r)
         /\ txn'[r].op = txn[r].op /\ txn'[r].pc = pc
         /\ txn'[r].seen = txn[r].seen /\ txn'[r].link = txn[r].link
<1>1. ASSUME NEW w \in Work
      PROVE  LET t == [w EXCEPT !.pc = pc]
             IN  /\ t \in Work /\ t.op = w.op /\ t.pc = pc
                 /\ t.seen = w.seen /\ t.link = w.link
  BY DEF Work
<1> DEFINE t == [txn[r] EXCEPT !.pc = pc]
<1>2. /\ t \in Work /\ t.op = txn[r].op /\ t.pc = pc
      /\ t.seen = txn[r].seen /\ t.link = txn[r].link
  BY <1>1 DEF TypeOK
<1>3. txn' = [txn EXCEPT ![r] = t] /\ txn \in [Requests -> Work]
  BY DEF Goto, TypeOK
<1> HIDE DEF t
<1> QED
  BY <1>2, <1>3 DEF OthersStay

LEMMA Ends ==
  ASSUME TypeOK, NEW r \in Requests, End(r)
  PROVE  OthersStay(r) /\ txn'[r] = Idle
<1>1. Idle \in Work
  BY DEF Idle, Work
<1> QED
  BY <1>1 DEF End, TypeOK, OthersStay

LEMMA Follows ==
  ASSUME TypeOK, NEW r \in Requests, NEW l \in links, FollowLink(r, l)
  PROVE  /\ OthersStay(r) /\ txn[r] = Idle
         /\ txn'[r].op = "reset" /\ txn'[r].pc = "linked" /\ txn'[r].link = l
         /\ UNCHANGED <<now, user, jwts, links, epoch, wrong, overwritten>>
<1> DEFINE t == [Idle EXCEPT !.op = "reset", !.pc = "linked", !.link = l]
<1>1. ASSUME NEW k \in Proofs
      PROVE  LET w == [Idle EXCEPT !.op = "reset", !.pc = "linked", !.link = k]
             IN  w \in Work /\ w.op = "reset" /\ w.pc = "linked" /\ w.link = k
  BY DEF Work, Idle, Handlers
<1>2. t \in Work /\ t.op = "reset" /\ t.pc = "linked" /\ t.link = l
  BY <1>1 DEF TypeOK
<1>3. txn' = [txn EXCEPT ![r] = t] /\ txn \in [Requests -> Work]
  BY DEF FollowLink, TypeOK
<1> HIDE DEF t
<1> QED
  BY <1>2, <1>3 DEF FollowLink, OthersStay

\* What a request at each place carries.
LEMMA Carries ==
  ASSUME TypeOK, NEW r \in Requests
  PROVE  /\ txn[r].pc \in {"right", "wrong"} => txn[r].op = "login"
         /\ txn[r].pc = "issue" => txn[r].op \in {"login", "change"}
         /\ txn[r].pc = "writing" => txn[r].op \in {"change", "reject", "unlock"}
         /\ txn[r].pc \in {"right", "wrong", "issue", "writing"} => txn[r].seen \in Users
         /\ txn[r].pc \in {"linked", "owner"} => txn[r].op = "reset" /\ txn[r].link \in links
BY DEF TypeOK, Idle

LEMMA MineTyped ==
  ASSUME TypeOK
  PROVE  /\ Mine \in Proofs /\ Mine.ver = user.version /\ Mine.epoch = epoch
         /\ now \in Nat /\ user.version \in Nat
BY Columns, SessionAssumption DEF TypeOK, Mine, Proofs

-----------------------------------------------------------------------------
\* A request that begins, goes on or ends keeps requests well typed.
LEMMA RequestsTyped ==
  ASSUME TypeOK, NEW r \in Requests, OthersStay(r), links \subseteq links',
         \/ txn'[r] = Idle
         \/ txn'[r].op = "reset" /\ txn'[r].pc \in {"linked", "owner"} /\ txn'[r].link \in links
         \/ /\ <<txn'[r].op, txn'[r].pc>> \in
                 {<<"login", "right">>, <<"login", "wrong">>, <<"login", "issue">>,
                  <<"change", "writing">>, <<"change", "issue">>,
                  <<"reject", "writing">>, <<"unlock", "writing">>}
            /\ txn'[r].seen \in Users,
         now' = now, epoch' \in Nat, wrong' \in Nat, user' \in Users,
         overwritten' \in BOOLEAN,
         jwts' \subseteq Proofs, links' \subseteq Proofs
  PROVE  TypeOK'
<1>1. ASSUME NEW q \in Requests
      PROVE  \/ txn'[q] = Idle
             \/ /\ txn'[q].op = "reset" /\ txn'[q].pc \in {"linked", "owner"}
                /\ txn'[q].link \in links'
             \/ /\ <<txn'[q].op, txn'[q].pc>> \in
                     {<<"login", "right">>, <<"login", "wrong">>, <<"login", "issue">>,
                      <<"change", "writing">>, <<"change", "issue">>,
                      <<"reject", "writing">>, <<"unlock", "writing">>}
                /\ txn'[q].seen \in Users
  <2>1. CASE q = r
    BY <2>1
  <2>2. CASE q # r
    BY <2>2 DEF OthersStay, TypeOK
  <2> QED
    BY <2>1, <2>2
<1> QED
  BY <1>1 DEF TypeOK, OthersStay

LEMMA TypesKept ==
  ASSUME TypeOK, [Next]_vars
  PROVE  TypeOK'
<1>0. /\ epoch \in Nat /\ wrong \in Nat /\ user \in Users /\ overwritten \in BOOLEAN
      /\ jwts \subseteq Proofs /\ links \subseteq Proofs /\ epoch + 1 \in Nat /\ wrong + 1 \in Nat
  BY DEF TypeOK
<1>1. ASSUME NEW r \in Requests, NEW right \in BOOLEAN, Login(r, right) PROVE TypeOK'
  <2> DEFINE pc == IF right THEN "right" ELSE "wrong"
  <2>1. pc \in {"right", "wrong"} /\ Begin(r, "login", pc) /\ "login" \in Handlers
    BY <1>1 DEF Login, Handlers
  <2> HIDE DEF pc
  <2>2. /\ OthersStay(r) /\ txn'[r].op = "login" /\ txn'[r].pc = pc /\ txn'[r].seen = user
        /\ UNCHANGED <<now, user, jwts, links, epoch, wrong, overwritten>>
    BY <2>1, Begins
  <2> QED
    BY <1>0, <2>1, <2>2, RequestsTyped
<1>2. ASSUME NEW r \in Requests, NEW op \in {"change", "reject", "unlock"}, Begin(r, op, "writing")
      PROVE  TypeOK'
  <2>1. /\ OthersStay(r) /\ txn'[r].op = op /\ txn'[r].pc = "writing" /\ txn'[r].seen = user
        /\ UNCHANGED <<now, user, jwts, links, epoch, wrong, overwritten>>
    BY <1>2, Begins DEF Handlers
  <2> QED
    BY <1>0, <2>1, RequestsTyped
<1>3. ASSUME NEW r \in Requests, CommitFailure(r) PROVE TypeOK'
  <2>1. OthersStay(r) /\ txn'[r] = Idle
    BY <1>3, Ends DEF CommitFailure
  <2>2. user' \in Users
    BY <1>0, <1>3, Carries, MineTyped, FailedRow DEF CommitFailure
  <2> QED
    BY <1>0, <1>3, <2>1, <2>2, RequestsTyped DEF CommitFailure
<1>4. ASSUME NEW r \in Requests, CommitSuccess(r) PROVE TypeOK'
  <2>1. OthersStay(r) /\ txn'[r].op = "login" /\ txn'[r].pc = "issue" /\ txn'[r].seen \in Users
    BY <1>4, Moves, Carries DEF CommitSuccess
  <2>2. user' \in Users
    BY <1>0, <1>4, Carries, ClearedRow DEF CommitSuccess
  <2> QED
    BY <1>0, <1>4, <2>1, <2>2, RequestsTyped DEF CommitSuccess
<1>5. ASSUME NEW r \in Requests, IssueSession(r) PROVE TypeOK'
  <2>1. OthersStay(r) /\ txn'[r] = Idle
    BY <1>5, Ends DEF IssueSession
  <2> QED
    BY <1>0, <1>5, <2>1, MineTyped, RequestsTyped DEF IssueSession
<1>6. ASSUME NEW r \in Requests, CommitChange(r) PROVE TypeOK'
  <2>1. OthersStay(r) /\ txn'[r].op = "change" /\ txn'[r].pc = "issue" /\ txn'[r].seen \in Users
    BY <1>6, Moves, Carries DEF CommitChange
  <2>2. user' \in Users
    BY <1>0, <1>6, Carries, Columns, ClearedRow, VersionWritten DEF CommitChange
  <2> QED
    BY <1>0, <1>6, <2>1, <2>2, RequestsTyped DEF CommitChange
<1>7. ASSUME NEW r \in Requests, NEW l \in links, FollowLink(r, l) PROVE TypeOK'
  <2>1. /\ OthersStay(r) /\ txn'[r].op = "reset" /\ txn'[r].pc = "linked" /\ txn'[r].link = l
        /\ UNCHANGED <<now, user, jwts, links, epoch, wrong, overwritten>>
    BY <1>7, Follows
  <2> QED
    BY <1>0, <2>1, RequestsTyped
<1>8. ASSUME NEW r \in Requests, LockRow(r) PROVE TypeOK'
  <2>1. UNCHANGED <<now, user, jwts, links, epoch, wrong, overwritten>> /\ (Goto(r, "owner") \/ End(r))
    BY <1>8 DEF LockRow
  <2>2. CASE Goto(r, "owner")
    <3>1. OthersStay(r) /\ txn'[r].op = "reset" /\ txn'[r].pc = "owner" /\ txn'[r].link \in links
      BY <1>8, <2>2, Moves, Carries DEF LockRow
    <3> QED
      BY <1>0, <2>1, <3>1, RequestsTyped
  <2>3. CASE End(r)
    <3>1. OthersStay(r) /\ txn'[r] = Idle
      BY <2>3, Ends
    <3> QED
      BY <1>0, <2>1, <3>1, RequestsTyped
  <2> QED
    BY <2>1, <2>2, <2>3
<1>9. ASSUME NEW r \in Requests, CommitReset(r) PROVE TypeOK'
  <2>1. OthersStay(r) /\ txn'[r] = Idle
    BY <1>9, Ends DEF CommitReset
  <2>2. RaisedVersion \in Nat
    BY <1>0, Columns DEF RaisedVersion
  <2>3. user' \in Users
    BY <1>0, <1>9, <2>2, ResetWritten DEF CommitReset
  <2> QED
    BY <1>0, <1>9, <2>1, <2>3, RequestsTyped DEF CommitReset
<1>10. ASSUME NEW r \in Requests, CommitReject(r) PROVE TypeOK'
  <2>1. OthersStay(r) /\ txn'[r] = Idle
    BY <1>10, Ends DEF CommitReject
  <2>2. (user.rejected \/ ~txn[r].seen.rejected) \in BOOLEAN
    OBVIOUS
  <2>3. txn[r].seen.version + 1 \in Nat
    BY <1>10, Carries, Columns DEF CommitReject
  <2>4. user' \in Users
    BY <1>0, <1>10, <2>2, <2>3, RejectionWritten DEF CommitReject
  <2> QED
    BY <1>0, <1>10, <2>1, <2>4, RequestsTyped DEF CommitReject
<1>11. ASSUME NEW r \in Requests, CommitUnlock(r) PROVE TypeOK'
  <2>1. OthersStay(r) /\ txn'[r] = Idle
    BY <1>11, Ends DEF CommitUnlock
  <2>2. user' \in Users
    BY <1>0, <1>11, Carries, ClearedRow DEF CommitUnlock
  <2> QED
    BY <1>0, <1>11, <2>1, <2>2, RequestsTyped DEF CommitUnlock
<1>12. CASE SendLink
  BY <1>12, MineTyped DEF SendLink, TypeOK
<1>13. CASE ApproveUser
  <2>1. user' = [user EXCEPT !.rejected = FALSE]
    BY <1>13 DEF ApproveUser
  <2>2. user' \in Users
    BY <1>0, <2>1, ApprovalWritten DEF TypeOK
  <2> QED
    BY <1>13, <2>2 DEF ApproveUser, TypeOK
<1>14. CASE Tick
  BY <1>14, SessionAssumption DEF Tick, TypeOK
<1>15. CASE UNCHANGED vars
  BY <1>15 DEF vars, TypeOK
<1>16. ASSUME NEW r \in Requests, ChangePassword(r) \/ RejectUser(r) \/ UnlockUser(r) PROVE TypeOK'
  BY <1>16, <1>2 DEF ChangePassword, RejectUser, UnlockUser
<1> QED
  BY <1>1, <1>3, <1>4, <1>5, <1>6, <1>7, <1>8, <1>9, <1>10, <1>11, <1>12, <1>13, <1>14,
     <1>15, <1>16 DEF Next

\* The row and everything made from it keep their types.
THEOREM SessionTypes == Spec => []TypeOK
<1>1. ASSUME Init PROVE TypeOK
  <2>1. now \in 0..MaxTime /\ epoch \in Nat /\ wrong \in Nat
    BY <1>1, SessionAssumption DEF Init
  <2>2. overwritten \in BOOLEAN /\ user \in Users /\ jwts \subseteq Proofs /\ links \subseteq Proofs
    BY <1>1 DEF Init, Users
  <2>3. Idle \in Work
    BY DEF Idle, Work
  <2> QED
    BY <1>1, <2>1, <2>2, <2>3 DEF Init, TypeOK
<1> QED
  BY <1>1, TypesKept, PTL DEF Spec
-----------------------------------------------------------------------------
(* What a step does to requests and to the version.                          *)

\* Request r begins, issues a session, becomes the row's owner or ends.
RequestMoves(r) ==
  /\ OthersStay(r)
  /\ \/ txn'[r].pc # "owner"
     \/ CanWrite(r) /\ txn'[r].link.ver = user.version

\* Nothing is revoked; a session or a link may be issued for the version.
Quiet ==
  /\ user'.version = user.version /\ epoch' = epoch /\ overwritten' = overwritten
  /\ \A t \in jwts' \cup links' : t \in jwts \cup links \/ t = Mine

\* Request r revokes, as the row's owner or alone with a version that it read;
\* unless that overwrites a later version, it raises the version by one.
Revokes(r) ==
  /\ CanWrite(r) \/ txn[r].pc = "owner"
  /\ ~overwritten' => ~overwritten /\ user'.version = user.version + 1
  /\ epoch' = epoch + 1 /\ UNCHANGED <<jwts, links>>
  /\ txn'[r].pc # "owner"

Works(r) == RequestMoves(r) /\ (Quiet \/ Revokes(r))

LEMMA BeginWorks ==
  ASSUME TypeOK, NEW r \in Requests, NEW op \in Handlers,
         NEW pc \in {"right", "wrong", "writing"}, Begin(r, op, pc)
  PROVE  Works(r)
<1>1. /\ OthersStay(r) /\ txn[r] = Idle
      /\ txn'[r].op = op /\ txn'[r].pc = pc /\ txn'[r].seen = user
      /\ UNCHANGED <<now, user, jwts, links, epoch, wrong, overwritten>>
  BY Begins
<1> QED
  BY <1>1 DEF Works, RequestMoves, Quiet

LEMMA Steps ==
  ASSUME TypeOK, [Next]_vars
  PROVE  (txn' = txn /\ Quiet) \/ \E r \in Requests : Works(r)
<1>0. /\ user \in Users /\ user.version \in Nat /\ user.failed \in Nat /\ now \in Nat
      /\ Idle.pc = "idle"
  BY Columns, MineTyped DEF TypeOK, Idle
<1>1. ASSUME NEW r \in Requests, NEW right \in BOOLEAN, Login(r, right) PROVE Works(r)
  <2> DEFINE pc == IF right THEN "right" ELSE "wrong"
  <2>1. pc \in {"right", "wrong"} /\ Begin(r, "login", pc) /\ "login" \in Handlers
    BY <1>1 DEF Login, Handlers
  <2> HIDE DEF pc
  <2> QED
    BY <2>1, BeginWorks
<1>2. ASSUME NEW r \in Requests, ChangePassword(r) \/ RejectUser(r) \/ UnlockUser(r)
      PROVE  Works(r)
  BY <1>2, BeginWorks DEF ChangePassword, RejectUser, UnlockUser, Handlers
<1>3. ASSUME NEW r \in Requests, CommitFailure(r) PROVE Works(r)
  <2>1. OthersStay(r) /\ txn'[r] = Idle
    BY <1>3, Ends DEF CommitFailure
  <2>2. txn[r].seen \in Users
    BY <1>3, Carries DEF CommitFailure
  <2>3. user'.version = user.version
    BY <1>0, <1>3, <2>2, FailedRow DEF CommitFailure
  <2> QED
    BY <1>0, <1>3, <2>1, <2>3 DEF Works, RequestMoves, Quiet, CommitFailure
<1>4. ASSUME NEW r \in Requests, CommitSuccess(r) PROVE Works(r)
  <2>1. /\ OthersStay(r) /\ txn'[r].op = txn[r].op /\ txn'[r].pc = "issue" /\ txn[r] # Idle
    BY <1>0, <1>4, Moves DEF CommitSuccess
  <2>2. txn[r].seen \in Users
    BY <1>4, Carries DEF CommitSuccess
  <2>3. user'.version = user.version
    BY <1>0, <1>4, <2>2, ClearedRow DEF CommitSuccess
  <2> QED
    BY <1>4, <2>1, <2>3 DEF Works, RequestMoves, Quiet, CommitSuccess
<1>5. ASSUME NEW r \in Requests, IssueSession(r) PROVE Works(r)
  <2>1. OthersStay(r) /\ txn'[r] = Idle
    BY <1>5, Ends DEF IssueSession
  <2> QED
    BY <1>0, <1>5, <2>1 DEF Works, RequestMoves, Quiet, IssueSession
<1>6. ASSUME NEW r \in Requests, CommitChange(r) PROVE Works(r)
  <2>1. /\ OthersStay(r) /\ txn'[r].op = txn[r].op /\ txn'[r].pc = "issue" /\ txn[r] # Idle
    BY <1>0, <1>6, Moves DEF CommitChange
  <2>2. txn[r].seen \in Users /\ txn[r].seen.version + 1 \in Nat
    BY <1>6, Carries, Columns DEF CommitChange
  <2>3. user'.version = txn[r].seen.version + 1
    BY <1>0, <1>6, <2>2, ClearedRow, VersionWritten DEF CommitChange
  <2> QED
    BY <1>6, <2>1, <2>3 DEF Works, RequestMoves, Revokes, CommitChange, Stale
<1>7. ASSUME NEW r \in Requests, NEW l \in links, FollowLink(r, l) PROVE Works(r)
  <2>1. /\ OthersStay(r) /\ txn[r] = Idle
        /\ txn'[r].op = "reset" /\ txn'[r].pc = "linked"
        /\ UNCHANGED <<now, user, jwts, links, epoch, wrong, overwritten>>
    BY <1>7, Follows
  <2> QED
    BY <2>1 DEF Works, RequestMoves, Quiet
<1>8. ASSUME NEW r \in Requests, LockRow(r) PROVE Works(r)
  <2>1. /\ UNCHANGED <<now, user, jwts, links, epoch, wrong, overwritten>> /\ CanWrite(r)
        /\ txn[r].pc = "linked" /\ txn[r] # Idle
        /\ \/ Goto(r, "owner") /\ txn[r].link.ver = user.version
           \/ End(r)
    BY <1>0, <1>8 DEF LockRow, LinkStillValid
  <2>2. CASE Goto(r, "owner") /\ txn[r].link.ver = user.version
    <3>1. /\ OthersStay(r) /\ txn'[r].op = txn[r].op /\ txn'[r].pc = "owner"
          /\ txn'[r].link.ver = user.version
      BY <2>2, Moves
    <3> QED
      BY <2>1, <3>1 DEF Works, RequestMoves, Quiet
  <2>3. CASE End(r)
    <3>1. OthersStay(r) /\ txn'[r] = Idle
      BY <2>3, Ends
    <3> QED
      BY <1>0, <2>1, <3>1 DEF Works, RequestMoves, Quiet
  <2> QED
    BY <2>1, <2>2, <2>3
<1>9. ASSUME NEW r \in Requests, CommitReset(r) PROVE Works(r)
  <2>1. OthersStay(r) /\ txn'[r] = Idle
    BY <1>9, Ends DEF CommitReset
  <2>2. RaisedVersion \in Nat /\ RaisedVersion = user.version + 1
    BY <1>0 DEF RaisedVersion
  <2>3. user'.version = RaisedVersion
    BY <1>0, <1>9, <2>2, ResetWritten DEF CommitReset
  <2> QED
    BY <1>0, <1>9, <2>1, <2>2, <2>3 DEF Works, RequestMoves, Revokes, CommitReset
<1>10. ASSUME NEW r \in Requests, CommitReject(r) PROVE Works(r)
  <2>1. OthersStay(r) /\ txn'[r] = Idle
    BY <1>10, Ends DEF CommitReject
  <2>2. PICK b \in BOOLEAN : b = (user.rejected \/ ~txn[r].seen.rejected)
    OBVIOUS
  <2>3. PICK n \in Nat : n = txn[r].seen.version + 1
    BY <1>10, Carries, Columns DEF CommitReject
  <2>5. user' = [user EXCEPT !.rejected = b, !.version = n]
    BY <1>10, <2>2, <2>3 DEF CommitReject
  <2>6. PICK w : w = [user EXCEPT !.rejected = b, !.version = n]
    OBVIOUS
  <2>7. w.version = n
    BY <1>0, <2>6 DEF Users
  <2>4. user'.version = txn[r].seen.version + 1
    BY <2>3, <2>5, <2>6, <2>7
  <2> QED
    BY <1>0, <1>10, <2>1, <2>4 DEF Works, RequestMoves, Revokes, CommitReject, Stale
<1>11. ASSUME NEW r \in Requests, CommitUnlock(r) PROVE Works(r)
  <2>1. OthersStay(r) /\ txn'[r] = Idle
    BY <1>11, Ends DEF CommitUnlock
  <2>2. txn[r].seen \in Users
    BY <1>11, Carries DEF CommitUnlock
  <2>3. user'.version = user.version
    BY <1>0, <1>11, <2>2, ClearedRow DEF CommitUnlock
  <2> QED
    BY <1>0, <1>11, <2>1, <2>3 DEF Works, RequestMoves, Quiet, CommitUnlock
<1>12. CASE SendLink \/ Tick \/ UNCHANGED vars
  BY <1>12 DEF SendLink, Tick, vars, Quiet
<1>13. CASE ApproveUser
  <2>1. user'.version = user.version
    BY <1>0, <1>13, ApprovalWritten DEF ApproveUser
  <2> QED
    BY <1>13, <2>1 DEF ApproveUser, Quiet
<1> QED
  BY <1>1, <1>2, <1>3, <1>4, <1>5, <1>6, <1>7, <1>8, <1>9, <1>10, <1>11, <1>12, <1>13 DEF Next

-----------------------------------------------------------------------------
(* The row's lock and revocation.                                            *)

\* The lock that reset_password takes on the row has one owner, whose link is
\* for the current version.
OwnerCurrent ==
  /\ \A q, r \in Requests : txn[q].pc = "owner" /\ txn[r].pc = "owner" => q = r
  /\ \A r \in Requests : txn[r].pc = "owner" => txn[r].link.ver = user.version

\* Until a version is overwritten, the version counts revocations and proofs
\* carry the one of their epoch.
VersionCounts ==
  ~overwritten => /\ user.version = epoch
                  /\ \A t \in jwts \cup links : t.ver = t.epoch

LEMMA OwnerStep ==
  ASSUME TypeOK, OwnerCurrent, [Next]_vars
  PROVE  OwnerCurrent'
<1>1. CASE txn' = txn /\ Quiet
  BY <1>1 DEF OwnerCurrent, Quiet
<1>2. ASSUME NEW r \in Requests, Works(r) PROVE OwnerCurrent'
  <2>1. ASSUME NEW q \in Requests, q # r, txn'[q].pc = "owner"
        PROVE  /\ txn[q].pc = "owner" /\ ~CanWrite(r)
               /\ txn'[q].link.ver = user.version /\ txn'[r].pc # "owner" /\ txn[r].pc # "owner"
    <3>1. txn'[q] = txn[q]
      BY <1>2, <2>1 DEF Works, RequestMoves, OthersStay
    <3>2. txn[q].pc = "owner" /\ ~CanWrite(r)
      BY <2>1, <3>1 DEF CanWrite
    <3> QED
      BY <1>2, <2>1, <3>1, <3>2 DEF Works, RequestMoves, OwnerCurrent
  <2>2. ASSUME NEW q \in Requests, q # r, txn'[q].pc = "owner"
        PROVE  user'.version = user.version
    BY <1>2, <2>1, <2>2 DEF Works, Revokes, Quiet
  <2>3. ASSUME txn'[r].pc = "owner"
        PROVE  txn'[r].link.ver = user'.version
    BY <1>2, <2>3 DEF Works, RequestMoves, Revokes, Quiet
  <2>4. ASSUME NEW p \in Requests, NEW q \in Requests, p # q,
               txn'[p].pc = "owner", txn'[q].pc = "owner"
        PROVE  FALSE
    <3>1. CASE p = r \/ q = r
      BY <2>1, <2>4, <3>1
    <3>2. CASE p # r /\ q # r
      BY <2>1, <2>4, <3>2 DEF OwnerCurrent
    <3> QED
      BY <3>1, <3>2
  <2> QED
    BY <2>1, <2>2, <2>3, <2>4 DEF OwnerCurrent
<1> QED
  BY <1>1, <1>2, Steps

LEMMA VersionStep ==
  ASSUME TypeOK, VersionCounts, [Next]_vars
  PROVE  VersionCounts'
<1>0. user.version \in Nat /\ epoch \in Nat /\ Mine.ver = user.version /\ Mine.epoch = epoch
  BY MineTyped DEF TypeOK
<1>1. CASE Quiet
  BY <1>0, <1>1 DEF Quiet, VersionCounts
<1>2. ASSUME NEW r \in Requests, Revokes(r) PROVE VersionCounts'
  BY <1>0, <1>2 DEF Revokes, VersionCounts
<1> QED
  BY <1>1, <1>2, Steps DEF Works

LEMMA VersionsCount == Spec => [](TypeOK /\ OwnerCurrent /\ VersionCounts)
<1>1. Init => OwnerCurrent /\ VersionCounts
  BY DEF Init, OwnerCurrent, VersionCounts, Idle
<1>2. TypeOK /\ OwnerCurrent /\ VersionCounts /\ [Next]_vars => OwnerCurrent' /\ VersionCounts'
  BY OwnerStep, VersionStep
<1> QED
  BY <1>1, <1>2, SessionTypes, PTL DEF Spec

\* However handlers overlap, a password change, a reset or a rejection revokes
\* every session and reset link made before it, unless a change or a rejection
\* has overwritten a version raised since it read the row.
THEOREM Revocation == Spec => []RevokedUnlessOverwritten
<1>1. VersionCounts => RevokedUnlessOverwritten
  BY DEF VersionCounts, RevokedUnlessOverwritten, RevocationHolds
<1> QED
  BY <1>1, VersionsCount, PTL

\* A reset commits only with a link mailed since the last revocation, so two
\* requests never both use one link (reset_password), until a version is
\* overwritten.
THEOREM LinkUsedOnce == Spec => LinkOnce
<1>1. ASSUME TypeOK, OwnerCurrent, VersionCounts, ~overwritten,
             NEW r \in Requests, txn[r].pc = "owner"
      PROVE  txn[r].link.epoch = epoch
  <2>1. txn[r].link \in links /\ txn[r].link.ver = user.version
    BY <1>1, Carries DEF OwnerCurrent
  <2> QED
    BY <1>1, <2>1 DEF VersionCounts
<1>2. TypeOK /\ OwnerCurrent /\ VersionCounts
        => [\A r \in Requests : txn[r].pc = "owner" /\ txn'[r] = Idle /\ ~overwritten
                                   => txn[r].link.epoch = epoch]_vars
  BY <1>1
<1> QED
  BY <1>2, VersionsCount, PTL DEF LinkOnce
=============================================================================
