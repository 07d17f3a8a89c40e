--------------------------- MODULE ElectionAdmin ---------------------------
(***************************************************************************)
(* The handlers of managers and delegates: an election's life cycle          *)
(* (app/routes/elections.py) and its roster (app/routes/candidates.py).      *)
(* Their first statement on the admin connection is a locking read, so what  *)
(* they read afterwards is as fresh as the lock.                             *)
(***************************************************************************)
EXTENDS VotingState

(* create_election: one INSERT. *)
CreateElection(r, e, times) ==
  /\ status[e] = "none"
  /\ times[1] # Nil /\ times[2] # Nil => times[1] < times[2]
  /\ Begin(r, [Idle EXCEPT !.op = "create", !.pc = "done", !.el = e])
  /\ status' = [status EXCEPT ![e] = "draft"]
  /\ openAt' = [openAt EXCEPT ![e] = times[1]]
  /\ closeAt' = [closeAt EXCEPT ![e] = times[2]]
  /\ UNCHANGED <<row, account, verified, enrolled, tokens, votes, spent,
                 signed, outside>>

(* open_election: every election row is locked, then checked. *)
MayOpenBesideAnother(e) ==
  status[e] = "draft" /\ e \notin Quarantined /\ SingleContest(ContestsOf(e))
MayOpenMixedRoster(e) ==
  /\ status[e] = "draft" /\ e \notin Quarantined
  /\ \A f \in Elections \ {e} : status[f] # "open"
  /\ Roster(e) # {}
MayOpen(e) ==
  /\ status[e] = "draft"
  /\ e \notin Quarantined
  /\ \A f \in Elections \ {e} : status[f] # "open"
  /\ SingleContest(ContestsOf(e))

\* open_at unless it was scheduled
OpeningTimeUnset(e) == openAt[e]
OpeningTime(e) == IF openAt[e] = Nil THEN now ELSE openAt[e]

OpenElectionAnyWindow(r, e) ==
  /\ \A f \in Elections : CanOwnElection(r, f)
  /\ MayOpen(e)
  /\ Begin(r, [Idle EXCEPT !.op = "open", !.pc = "ready", !.el = e,
                           !.arg = OpeningTime(e)])
  /\ UNCHANGED <<db, outside>>

OpenElection(r, e) ==
  /\ \A f \in Elections : CanOwnElection(r, f)
  /\ MayOpen(e)
  /\ closeAt[e] # Nil => closeAt[e] > OpeningTime(e)
  /\ Begin(r, [Idle EXCEPT !.op = "open", !.pc = "ready", !.el = e,
                           !.arg = OpeningTime(e)])
  /\ UNCHANGED <<db, outside>>

CommitOpen(r) ==
  /\ txn[r].op = "open" /\ txn[r].pc = "ready"
  /\ status' = [status EXCEPT ![txn[r].el] = "open"]
  /\ openAt' = [openAt EXCEPT ![txn[r].el] = txn[r].arg]
  /\ Goto(r, "done")
  /\ UNCHANGED <<closeAt, row, account, verified, enrolled, tokens, votes,
                 spent, signed, outside>>

(* close_election *)
CloseElectionUnlocked(r, e) ==
  /\ status[e] = "open"
  /\ Begin(r, [Idle EXCEPT !.op = "close", !.pc = "ready", !.el = e,
                           !.arg = now])
  /\ UNCHANGED <<db, outside>>

CloseElection(r, e) ==
  /\ CanOwnElection(r, e)
  /\ status[e] = "open"
  /\ Begin(r, [Idle EXCEPT !.op = "close", !.pc = "ready", !.el = e,
                           !.arg = now])
  /\ UNCHANGED <<db, outside>>

CommitClose(r) ==
  /\ txn[r].op = "close" /\ txn[r].pc = "ready"
  /\ status' = [status EXCEPT ![txn[r].el] = "closed"]
  /\ closeAt' = [closeAt EXCEPT ![txn[r].el] = txn[r].arg]
  /\ Goto(r, "done")
  /\ UNCHANGED <<openAt, row, account, verified, enrolled, tokens, votes,
                 spent, signed, outside>>

-----------------------------------------------------------------------------
(* Rosters. A delegate works inside the region it is enrolled in.            *)

MayManage(scope, region) == scope = Manager \/ scope = region

(* create_candidate *)
AddCandidate(r, e, c, region, position, scope) ==
  /\ row[c] = Nil
  /\ \A q \in Requests : ~(txn[q].op = "add" /\ txn[q].cand = c)
  /\ CanOwnElection(r, e)
  /\ status[e] = "draft"
  /\ MayManage(scope, region)
  /\ Begin(r, [Idle EXCEPT !.op = "add", !.pc = "ready", !.el = e, !.cand = c,
                 !.arg = [scope |-> scope, region |-> region,
                          position |-> position]])
  /\ UNCHANGED <<db, outside>>

CommitAdd(r) ==
  /\ txn[r].op = "add" /\ txn[r].pc = "ready"
  /\ row' = [row EXCEPT ![txn[r].cand] =
               [el |-> txn[r].el, region |-> txn[r].arg.region,
                position |-> txn[r].arg.position]]
  /\ Goto(r, "done")
  /\ UNCHANGED <<status, openAt, closeAt, account, verified, enrolled, tokens,
                 votes, spent, signed, outside>>

(* update_candidate and delete_candidate lock the candidate first, then its  *)
(* election.  Keep stands for a field that is not sent, or sent unchanged:   *)
(* neither is written.                                                       *)
LockCandidatePlainRead(r, op, c, region, position, scope) ==
  /\ op \in {"edit", "drop"}
  /\ row[c] \in Rows
  /\ region # row[c].region /\ position # row[c].position
  /\ op = "drop" => region = Keep /\ position = Keep
  /\ Begin(r, [Idle EXCEPT !.op = op, !.pc = "candidate", !.cand = c,
                 !.el = row[c].el, !.seen = row[c].region,
                 !.arg = [scope |-> scope, region |-> region,
                          position |-> position]])
  /\ UNCHANGED <<db, outside>>

LockCandidate(r, op, c, region, position, scope) ==
  /\ op \in {"edit", "drop"}
  /\ row[c] \in Rows
  /\ CanReadCandidate(r, c)
  /\ region # row[c].region /\ position # row[c].position
  /\ op = "drop" => region = Keep /\ position = Keep
  /\ Begin(r, [Idle EXCEPT !.op = op, !.pc = "candidate", !.cand = c,
                 !.el = row[c].el, !.seen = row[c].region,
                 !.arg = [scope |-> scope, region |-> region,
                          position |-> position]])
  /\ UNCHANGED <<db, outside>>

MayChangeAnyRoster(r) ==
  /\ MayManage(txn[r].arg.scope, txn[r].seen)
  /\ txn[r].arg.region # Keep => MayManage(txn[r].arg.scope, txn[r].arg.region)

MayChangeRoster(r) ==
  /\ status[txn[r].el] = "draft"
  /\ MayManage(txn[r].arg.scope, txn[r].seen)
  /\ txn[r].arg.region # Keep => MayManage(txn[r].arg.scope, txn[r].arg.region)

CheckRosterEditUnlocked(r) ==
  /\ txn[r].op \in {"edit", "drop"} /\ txn[r].pc = "candidate"
  /\ txn[r].op = "drop" => CanOwnElection(r, txn[r].el)
  /\ MayChangeRoster(r)
  /\ Goto(r, "ready")
  /\ UNCHANGED <<db, outside>>

CheckRosterChange(r) ==
  /\ txn[r].op \in {"edit", "drop"} /\ txn[r].pc = "candidate"
  /\ CanOwnElection(r, txn[r].el)
  /\ MayChangeRoster(r)
  /\ Goto(r, "ready")
  /\ UNCHANGED <<db, outside>>

\* Only the columns that changed are written.
Edited(old, arg) ==
  [old EXCEPT !.region   = IF arg.region = Keep THEN @ ELSE arg.region,
              !.position = IF arg.position = Keep THEN @ ELSE arg.position]

\* An UPDATE that matches no row is an error (StaleDataError): no commit then.
CommitEdit(r) ==
  /\ txn[r].op = "edit" /\ txn[r].pc = "ready"
  /\ row[txn[r].cand] \in Rows
  /\ row' = [row EXCEPT ![txn[r].cand] = Edited(@, txn[r].arg)]
  /\ Goto(r, "done")
  /\ UNCHANGED <<status, openAt, closeAt, account, verified, enrolled, tokens,
                 votes, spent, signed, outside>>

\* ON DELETE CASCADE takes the candidate's votes with it.
CommitDrop(r) ==
  /\ txn[r].op = "drop" /\ txn[r].pc = "ready"
  /\ row' = [row EXCEPT ![txn[r].cand] = Gone]
  /\ votes' = {v \in votes : v.cand # txn[r].cand}
  /\ Goto(r, "done")
  /\ UNCHANGED <<status, openAt, closeAt, account, verified, enrolled, tokens,
                 spent, signed, outside>>

RefuseOnlyGoneCandidate(r) ==
  /\ txn[r].op = "edit" /\ txn[r].pc = "ready"
  /\ row[txn[r].cand] = Gone
  /\ Rollback(r)

RefuseRosterChange(r) ==
  /\ txn[r].op \in {"edit", "drop"}
  /\ \/ /\ txn[r].pc = "candidate" /\ CanOwnElection(r, txn[r].el)
        /\ ~MayChangeRoster(r)
     \/ /\ txn[r].pc = "ready" /\ txn[r].op = "edit"
        /\ row[txn[r].cand] = Gone
  /\ Rollback(r)
=============================================================================
