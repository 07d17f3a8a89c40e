---------------------------- MODULE AuditProofs ----------------------------
(***************************************************************************)
(* The audit chain: whatever the number of worker processes and records, and *)
(* however they interleave, restart, die and fail, verify_audit reports at   *)
(* most one line for each fault inside emit.                                 *)
(***************************************************************************)
EXTENDS AuditLog, FiniteSetTheorems, TLAPS

(* emit and __init__ keep the log, the state file and the handlers well typed. *)
THEOREM LogTyped == Spec => []TypeOK
<1>1. Init => TypeOK
  BY LogAssumption DEF Init, TypeOK, Hmacs
<1>2. TypeOK /\ [Next]_vars => TypeOK'
  <2> SUFFICES ASSUME TypeOK, [Next]_vars PROVE TypeOK'
    OBVIOUS
  <2> USE LogAssumption DEF TypeOK, Hmacs
  <2>1. ASSUME NEW w \in Workers, Enter(w) PROVE TypeOK'
    BY <2>1 DEF Enter, Loaded
  <2>2. ASSUME NEW w \in Workers, AppendRecord(w) PROVE TypeOK'
    BY <2>2 DEF AppendRecord, Records
  <2>3. ASSUME NEW w \in Workers, OpenState(w) \/ SaveState(w) PROVE TypeOK'
    BY <2>3 DEF OpenState, SaveState
  <2>4. ASSUME NEW w \in Workers, ReadFails(w) \/ WriteFails(w) PROVE TypeOK'
    BY <2>4 DEF ReadFails, WriteFails
  <2>5. ASSUME NEW w \in Workers, Restart(w) PROVE TypeOK'
    BY <2>5 DEF Restart, Loaded
  <2>6. CASE UNCHANGED vars
    BY <2>6 DEF vars
  <2> QED
    BY <2>1, <2>2, <2>3, <2>4, <2>5, <2>6 DEF Next, Step
<1> QED
  BY <1>1, <1>2, PTL DEF Spec

\* The reported lines are finitely many.
LEMMA ErrorsFinite ==
  ASSUME TypeOK
  PROVE  IsFiniteSet(Errors) /\ Cardinality(Errors) \in Nat /\ Len(log) + 1 \notin Errors
<1>1. Len(log) \in Nat
  BY DEF TypeOK
<1>2. IsFiniteSet(1 .. Len(log)) /\ Errors \subseteq 1 .. Len(log)
  BY <1>1, FS_Interval DEF Errors
<1>3. IsFiniteSet(Errors)
  BY <1>2, FS_Subset
<1>4. Len(log) + 1 \notin Errors
  BY <1>1, <1>2
<1> QED
  BY <1>3, <1>4, FS_CardinalityType

\* A record is reported exactly if it does not name the HMAC of the last one.
LEMMA RecordReported ==
  ASSUME TypeOK, NEW p, NEW h \in Nat, log' = Append(log, [prev |-> p, hmac |-> h])
  PROVE  /\ Errors' = IF p = LastHmac(Len(log)) THEN Errors ELSE Errors \cup {Len(log) + 1}
         /\ LastHmac(Len(log))' = h /\ log' # <<>>
<1>1. /\ Len(log) \in Nat /\ Len(log') = Len(log) + 1
      /\ log'[Len(log) + 1] = [prev |-> p, hmac |-> h]
      /\ \A i \in 1 .. Len(log) : log'[i] = log[i]
  BY DEF TypeOK
<1>2. LastHmac(Len(log))' = h
  BY <1>1 DEF LastHmac
<1>3. \A i \in 1 .. Len(log) + 1 : LastHmac(i - 1)' = LastHmac(i - 1)
  BY <1>1 DEF LastHmac
<1>4. \A i \in 1 .. Len(log) : log'[i].prev = log[i].prev
  BY <1>1
<1>5. log'[Len(log) + 1].prev = p /\ LastHmac(Len(log) + 1 - 1) = LastHmac(Len(log))
  BY <1>1
<1>6. Errors' = {i \in 1 .. Len(log) + 1 : log'[i].prev # LastHmac(i - 1)}
  BY <1>1, <1>3 DEF Errors
<1>7. \A i : i \in 1 .. Len(log) + 1 <=> i \in 1 .. Len(log) \/ i = Len(log) + 1
  BY <1>1
<1>8. Errors' = IF p = LastHmac(Len(log)) THEN Errors ELSE Errors \cup {Len(log) + 1}
  BY <1>4, <1>5, <1>6, <1>7, ErrorsFinite DEF Errors
<1> QED
  BY <1>1, <1>2, <1>8

\* The last HMAC of a log that has one is a number.
LEMMA LastIsHmac ==
  ASSUME TypeOK, log # <<>>
  PROVE  LastHmac(Len(log)) \in Nat
<1>1. Len(log) # 0 /\ log[Len(log)] \in Records
  BY DEF TypeOK
<1> QED
  BY <1>1 DEF LastHmac, Records

LEMMA PaidInit == Init => ErrorsPaid
<1> SUFFICES ASSUME Init PROVE ErrorsPaid
  OBVIOUS
<1>1. Errors = {} /\ ~Owed
  BY DEF Init, Errors, Owed
<1>2. Cardinality(Errors) = 0
  BY <1>1, FS_EmptySet
<1> QED
  BY <1>1, <1>2 DEF Init, ErrorsPaid, Exclusive, Known

\* A fault pays for whatever it breaks: it changes no record and adds at most
\* one line to come.
LEMMA FaultPays ==
  ASSUME TypeOK, ErrorsPaid, UNCHANGED log, faults' = faults + 1
  PROVE  (Cardinality(Errors) + (IF Owed THEN 1 ELSE 0) <= faults)'
<1>1. Errors' = Errors
  BY DEF Errors, LastHmac
<1>2. Cardinality(Errors) \in Nat /\ faults \in Nat
  BY ErrorsFinite, LogAssumption DEF TypeOK
<1> QED
  BY <1>1, <1>2 DEF ErrorsPaid

\* A step without a fault and without a record must not run into debt.
LEMMA NoNewDebt ==
  ASSUME TypeOK, ErrorsPaid, UNCHANGED <<log, faults>>, Owed' => Owed
  PROVE  (Cardinality(Errors) + (IF Owed THEN 1 ELSE 0) <= faults)'
<1>1. Errors' = Errors
  BY DEF Errors, LastHmac
<1>2. Cardinality(Errors) \in Nat /\ faults \in Nat
  BY ErrorsFinite, LogAssumption DEF TypeOK
<1> QED
  BY <1>1, <1>2 DEF ErrorsPaid

LEMMA PaidStep ==
  ASSUME TypeOK, ErrorsPaid, NEW w \in Workers, Step(w)
  PROVE  ErrorsPaid'
<1> USE LogAssumption
<1> DEFINE Last == LastHmac(Len(log))
<1>1. CASE Enter(w)
  <2>1. /\ UNCHANGED <<log, saved, faults>> /\ LastHmac(Len(log))' = Last
        /\ at'[w] = "locked" /\ memory'[w] = Loaded(memory[w])
        /\ \A v \in Workers : v # w => at'[v] = "out" /\ memory'[v] = memory[v]
    BY <1>1 DEF Enter, LockFree, TypeOK, LastHmac
  <2>2. Owed' => Owed
    <3>1. CASE log = <<>>
      <4>1. saved = Absent /\ memory[w] = None /\ Last = None
        BY <3>1 DEF ErrorsPaid, Known, LastHmac
      <4> QED
        BY <2>1, <4>1, <3>1 DEF Owed, Loaded
    <3>2. CASE log # <<>> /\ saved = Last
      BY <2>1, <3>2, LastIsHmac DEF Owed, Loaded, LockFree
    <3>3. CASE log # <<>> /\ saved # Last
      BY <1>1, <3>3 DEF Owed, Enter
    <3> QED
      BY <3>1, <3>2, <3>3
  <2>3. Exclusive' /\ Known'
    BY <2>1 DEF ErrorsPaid, Exclusive, Known, Loaded
  <2> QED
    BY <2>1, <2>2, <2>3, NoNewDebt DEF ErrorsPaid
<1>2. CASE ReadFails(w)
  <2>1. /\ UNCHANGED <<log, saved, memory>> /\ faults' = faults + 1
        /\ LastHmac(Len(log))' = Last
        /\ at'[w] = "locked" /\ \A v \in Workers : v # w => at'[v] = "out"
    BY <1>2 DEF ReadFails, LockFree, TypeOK, LastHmac
  <2>2. Exclusive' /\ Known'
    BY <2>1 DEF ErrorsPaid, Exclusive, Known
  <2> QED
    BY <2>1, <2>2, FaultPays DEF ErrorsPaid
<1>3. CASE AppendRecord(w)
  <2>1. /\ UNCHANGED faults /\ at[w] = "locked" /\ at'[w] = "appended"
        /\ memory'[w] = Len(log) + 1 /\ Len(log) + 1 \in Nat
        /\ \A v \in Workers : v # w => at'[v] = "out"
    BY <1>3 DEF AppendRecord, ErrorsPaid, Exclusive, TypeOK
  <2>2. /\ Errors' = IF memory[w] = Last THEN Errors ELSE Errors \cup {Len(log) + 1}
        /\ LastHmac(Len(log))' = Len(log) + 1 /\ log' # <<>>
    BY <1>3, <2>1, RecordReported DEF AppendRecord
  <2>3. ~Owed' /\ Exclusive' /\ Known'
    BY <2>1, <2>2 DEF Owed, LockFree, Exclusive, Known
  <2>4. Cardinality(Errors)' <= faults
    <3>1. CASE memory[w] = Last
      BY <2>2, <3>1, ErrorsFinite DEF ErrorsPaid, TypeOK
    <3>2. CASE memory[w] # Last
      <4>1. Owed
        BY <2>1, <3>2 DEF Owed
      <4>2. Cardinality(Errors)' = Cardinality(Errors) + 1
        BY <2>2, <3>2, ErrorsFinite, FS_AddElement
      <4> QED
        BY <4>1, <4>2 DEF ErrorsPaid
    <3> QED
      BY <3>1, <3>2
  <2>5. Cardinality(Errors)' \in Nat
    <3>1. IsFiniteSet(Errors \cup {Len(log) + 1})
      BY ErrorsFinite, FS_AddElement
    <3> QED
      BY <2>2, <3>1, ErrorsFinite, FS_CardinalityType
  <2> QED
    BY <2>1, <2>3, <2>4, <2>5 DEF ErrorsPaid, TypeOK
<1>4. CASE OpenState(w) \/ SaveState(w)
  <2>1. /\ UNCHANGED <<log, memory, faults>> /\ LastHmac(Len(log))' = Last
        /\ log # <<>> /\ memory[w] = Last
    BY <1>4 DEF OpenState, SaveState, ErrorsPaid, Known, LastHmac
  <2>2. \A v \in Workers : v # w => at[v] = "out" /\ at'[v] = "out"
    BY <1>4 DEF OpenState, SaveState, ErrorsPaid, Exclusive, TypeOK
  <2>3. at'[w] = "opened" \/ (at'[w] = "out" /\ saved' = Last)
    BY <1>4, <2>1 DEF OpenState, SaveState, TypeOK
  <2>4. ~Owed' /\ Exclusive' /\ Known'
    BY <2>1, <2>2, <2>3 DEF Owed, LockFree, Exclusive, Known
  <2> QED
    BY <2>1, <2>4, NoNewDebt DEF ErrorsPaid
<1>5. CASE WriteFails(w)
  <2>1. /\ UNCHANGED <<log, saved, memory>> /\ faults' = faults + 1
        /\ LastHmac(Len(log))' = Last
        /\ \A v \in Workers : at'[v] = "out" \/ at'[v] = at[v]
    BY <1>5 DEF WriteFails, TypeOK, LastHmac
  <2>2. Exclusive' /\ Known'
    BY <2>1 DEF ErrorsPaid, Exclusive, Known
  <2> QED
    BY <2>1, <2>2, FaultPays DEF ErrorsPaid
<1>6. CASE Restart(w)
  <2>1. /\ UNCHANGED <<log, saved>> /\ LastHmac(Len(log))' = Last
        /\ at'[w] = "out" /\ memory'[w] = Loaded(None)
        /\ \A v \in Workers : v # w => at'[v] = at[v] /\ memory'[v] = memory[v]
    BY <1>6 DEF Restart, TypeOK, LastHmac
  <2>2. Exclusive' /\ Known'
    BY <2>1 DEF ErrorsPaid, Exclusive, Known, Loaded
  <2>3. CASE at[w] = "out"
    <3>1. UNCHANGED <<log, faults>>
      BY <1>6, <2>3 DEF Restart
    <3>2. Owed' => Owed
      BY <2>1, <2>3 DEF Owed, LockFree
    <3> QED
      BY <2>2, <3>1, <3>2, NoNewDebt DEF ErrorsPaid
  <2>4. CASE at[w] # "out"
    <3>1. UNCHANGED log /\ faults' = faults + 1
      BY <1>6, <2>4 DEF Restart
    <3> QED
      BY <2>2, <3>1, FaultPays DEF ErrorsPaid
  <2> QED
    BY <2>3, <2>4
<1> QED
  BY <1>1, <1>2, <1>3, <1>4, <1>5, <1>6 DEF Step

(* Crashes and I/O errors inside emit are all that verify_audit can ever     *)
(* report, one line each: races between workers and restarts outside emit    *)
(* cost nothing (HmacAuditHandler.emit, verify_audit).                       *)
THEOREM FaultsPayForErrors == Spec => []ErrorsPaid
<1>1. TypeOK /\ ErrorsPaid /\ [Next]_vars => ErrorsPaid'
  <2> SUFFICES ASSUME TypeOK, ErrorsPaid, [Next]_vars PROVE ErrorsPaid'
    OBVIOUS
  <2>1. CASE Next
    BY <2>1, PaidStep DEF Next
  <2>2. CASE UNCHANGED vars
    <3>1. UNCHANGED <<log, faults>> /\ Owed' = Owed
      BY <2>2 DEF vars, Owed, LockFree, LastHmac
    <3>2. Exclusive' /\ Known'
      BY <2>2 DEF vars, ErrorsPaid, Exclusive, Known, LastHmac
    <3> QED
      BY <3>1, <3>2, NoNewDebt DEF ErrorsPaid
  <2> QED
    BY <2>1, <2>2
<1> QED
  BY <1>1, PaidInit, LogTyped, PTL DEF Spec

(* As long as nothing fails inside emit, the records of all workers form one *)
(* chain that verify_audit accepts.                                          *)
THEOREM ChainVerifies == Spec => [](faults = 0 => Errors = {})
<1>1. TypeOK /\ ErrorsPaid => (faults = 0 => Errors = {})
  <2> SUFFICES ASSUME TypeOK, ErrorsPaid, faults = 0 PROVE Errors = {}
    OBVIOUS
  <2>1. Cardinality(Errors) = 0
    BY ErrorsFinite DEF ErrorsPaid
  <2> QED
    BY <2>1, ErrorsFinite, FS_EmptySet
<1> QED
  BY <1>1, LogTyped, FaultsPayForErrors, PTL
=============================================================================
