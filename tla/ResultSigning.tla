--------------------------- MODULE ResultSigning ---------------------------
(***************************************************************************)
(* sign_election_results (app/routes/results.py): the tally of a closed      *)
(* election is read, signed and stored once.  The process-wide lock of the   *)
(* handler serialises signers of one worker process only; the threads of     *)
(* Requests may belong to different processes, so it restricts nothing here. *)
(***************************************************************************)
EXTENDS VotingState

SignResults(r, e) ==
  /\ CanOwnElection(r, e)
  /\ status[e] = "closed"
  /\ signed[e] = Nil
  /\ Begin(r, [Idle EXCEPT !.op = "sign", !.pc = "ready", !.el = e,
                           !.seen = Tally(e)])
  /\ UNCHANGED <<db, outside>>

CommitSignNonzero(r) ==
  /\ txn[r].op = "sign" /\ txn[r].pc = "ready"
  /\ signed[txn[r].el] = Nil
  /\ signed' = [signed EXCEPT ![txn[r].el] =
       [c \in {d \in DOMAIN txn[r].seen : txn[r].seen[d] > 0} |-> txn[r].seen[c]]]
  /\ Goto(r, "done")
  /\ UNCHANGED <<status, openAt, closeAt, row, account, verified, enrolled,
                 tokens, votes, spent, outside>>

\* INSERT under uq_signed_election_result_election, COMMIT
CommitSign(r) ==
  /\ txn[r].op = "sign" /\ txn[r].pc = "ready"
  /\ signed[txn[r].el] = Nil
  /\ signed' = [signed EXCEPT ![txn[r].el] = txn[r].seen]
  /\ Goto(r, "done")
  /\ UNCHANGED <<status, openAt, closeAt, row, account, verified, enrolled,
                 tokens, votes, spent, outside>>

\* IntegrityError: another process stored its signature first.
RefuseSign(r) ==
  /\ txn[r].op = "sign" /\ txn[r].pc = "ready"
  /\ signed[txn[r].el] # Nil
  /\ Rollback(r)
=============================================================================
