------------------------------ MODULE AuditLog ------------------------------
(***************************************************************************)
(* The tamper-evident audit log (app/logging_service.py): worker processes   *)
(* append records to one file, each record naming the HMAC of the one before *)
(* it.  The last HMAC is handed from process to process in a state file,     *)
(* under an advisory lock.  A record's HMAC is modelled as the number of the *)
(* record: the payload holds a timestamp, so no two records share one.  A    *)
(* record is written whole or not at all: a line torn by a full disk, which  *)
(* verify_audit reports as invalid JSON, is left out.                        *)
(***************************************************************************)
EXTENDS Integers, Sequences, FiniteSets

CONSTANTS
  Workers,     \* worker processes; a process runs one emit at a time
  MaxRecords,  \* bound of the log
  FaultKinds,  \* what may go wrong inside emit: "crash", "io"
  MaxFaults,   \* bound of those faults
  None,        \* prev_hmac of the first record; an empty state file
  Absent       \* there is no state file yet

ASSUME LogAssumption ==
  /\ MaxRecords \in Nat /\ MaxFaults \in Nat
  /\ None \notin Nat /\ Absent \notin Nat \cup {None}

VARIABLES
  log,      \* the audit file: a sequence of records
  saved,    \* the state file
  memory,   \* last_hmac of each process's handler
  at,       \* how far each process is inside emit
  faults    \* crashes and I/O errors so far

vars == <<log, saved, memory, at, faults>>

Hmacs   == Nat \cup {None}
Records == [prev : Hmacs, hmac : Nat]

Init ==
  /\ log = <<>> /\ saved = Absent /\ faults = 0
  /\ memory = [w \in Workers |-> None]
  /\ at = [w \in Workers |-> "out"]

\* HmacAuditHandler.__init__ and the re-read in emit: what the state file says,
\* or what the process remembers when there is no such file.
LoadedFromMemory(remembered) == remembered
Loaded(remembered) == IF saved = Absent THEN remembered ELSE saved

\* _exclusive_file_lock
LockFree == \A w \in Workers : at[w] = "out"

Enter(w) ==
  /\ at[w] = "out" /\ LockFree /\ Len(log) < MaxRecords
  /\ memory' = [memory EXCEPT ![w] = Loaded(@)]
  /\ at' = [at EXCEPT ![w] = "locked"]
  /\ UNCHANGED <<log, saved, faults>>

\* The state file cannot be read: the process goes on with what it remembers.
ReadFails(w) ==
  /\ at[w] = "out" /\ LockFree /\ Len(log) < MaxRecords
  /\ "io" \in FaultKinds /\ faults < MaxFaults
  /\ faults' = faults + 1
  /\ at' = [at EXCEPT ![w] = "locked"]
  /\ UNCHANGED <<log, saved, memory>>

AppendRecord(w) ==
  /\ at[w] = "locked"
  /\ log' = Append(log, [prev |-> memory[w], hmac |-> Len(log) + 1])
  /\ memory' = [memory EXCEPT ![w] = Len(log) + 1]
  /\ at' = [at EXCEPT ![w] = "appended"]
  /\ UNCHANGED <<saved, faults>>

\* open(state_path, 'w') empties the file before the new value is written.
OpenState(w) ==
  /\ at[w] = "appended"
  /\ saved' = None
  /\ at' = [at EXCEPT ![w] = "opened"]
  /\ UNCHANGED <<log, memory, faults>>

SaveState(w) ==
  /\ at[w] = "opened"
  /\ saved' = memory[w]
  /\ at' = [at EXCEPT ![w] = "out"]
  /\ UNCHANGED <<log, memory, faults>>

\* The record or the state file cannot be written: the exception is swallowed
\* and the lock released.
WriteFails(w) ==
  /\ at[w] # "out" /\ "io" \in FaultKinds /\ faults < MaxFaults
  /\ faults' = faults + 1
  /\ at' = [at EXCEPT ![w] = "out"]
  /\ UNCHANGED <<log, saved, memory>>

\* The process dies; its successor starts from the state file.  Outside emit
\* this is an ordinary restart.
Restart(w) ==
  /\ at[w] # "out" => "crash" \in FaultKinds /\ faults < MaxFaults
  /\ faults' = IF at[w] = "out" THEN faults ELSE faults + 1
  /\ memory' = [memory EXCEPT ![w] = Loaded(None)]
  /\ at' = [at EXCEPT ![w] = "out"]
  /\ UNCHANGED <<log, saved>>

Step(w) ==
  \/ Enter(w) \/ ReadFails(w) \/ AppendRecord(w) \/ OpenState(w) \/ SaveState(w)
  \/ WriteFails(w) \/ Restart(w)

Next == \E w \in Workers : Step(w)

Spec == Init /\ [][Next]_vars

-----------------------------------------------------------------------------
\* The HMAC that verify_audit expects the record at i to name.
LastHmac(i) == IF i = 0 THEN None ELSE log[i].hmac

\* verify_audit: the lines it reports.  The records are never edited, so
\* recomputing their own HMAC always succeeds.
Errors == {i \in 1 .. Len(log) : log[i].prev # LastHmac(i - 1)}

\* The audit file, the state file and what each worker remembers keep their
\* types: a record always names an HMAC or the start of the chain.
TypeOK ==
  /\ log \in Seq(Records) /\ saved \in Hmacs \cup {Absent} /\ faults \in 0..MaxFaults
  /\ memory \in [Workers -> Hmacs]
  /\ at \in [Workers -> {"out", "locked", "appended", "opened"}]

-----------------------------------------------------------------------------
(* emit promises that the chain stays linear and verifiable across workers   *)
(* and restarts.  A fault inside emit can break it once, at the next record. *)

\* One process is inside emit at a time.
Exclusive == \A v, w \in Workers : at[v] # "out" /\ at[w] # "out" => v = w

\* Nothing is remembered before the first record; a process that has appended
\* one knows its HMAC.
Known ==
  /\ log = <<>> => saved = Absent /\ \A w \in Workers : memory[w] = None
  /\ \A w \in Workers :
       at[w] \in {"appended", "opened"} => log # <<>> /\ memory[w] = LastHmac(Len(log))

\* The next record will not name the HMAC of the last one.
Owed ==
  \/ \E w \in Workers : at[w] = "locked" /\ memory[w] # LastHmac(Len(log))
  \/ LockFree /\ log # <<>> /\ saved # LastHmac(Len(log))

\* Every line that verify_audit reports, and every one it is going to report,
\* was paid for by a fault of its own inside emit.
ErrorsPaid ==
  /\ Exclusive /\ Known
  /\ Cardinality(Errors) + (IF Owed THEN 1 ELSE 0) <= faults
=============================================================================
