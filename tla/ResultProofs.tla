---------------------------- MODULE ResultProofs ----------------------------
(***************************************************************************)
(* Signed results stay verifiable: proofs for SignedResults, for every       *)
(* number of elections, processes, keys, versions and signatures.            *)
(***************************************************************************)
EXTENDS SignedResults, TLAPS

\* A signature names a local key, or a Vault key and one of its versions.
LEMMA SignatureForm ==
  ASSUME NEW s \in Signatures
  PROVE  /\ s.el \in Elections
         /\ \/ s.key \in Keys /\ s.ver = Nil
            \/ s.key \in Identities /\ s.ver \in Versions /\ s.ver # Nil /\ s.key \notin Keys
<1>1. \A v \in Versions : v # Nil
  BY ResultAssumption DEF Versions
<1>2. \A i \in Identities : i \notin Keys
  BY ResultAssumption DEF Keys
<1> QED BY <1>1, <1>2 DEF Signatures

\* What CommitResult stores is a row of signed_election_result.
LEMMA ProvenanceStored ==
  ASSUME NEW s \in Signatures
  PROVE  Provenance(s) \in Stored
<1>1. CASE s.key \in Keys /\ s.ver = Nil
  BY <1>1 DEF Provenance, Stored
<1>2. CASE s.key \in Identities /\ s.ver \in Versions /\ s.ver # Nil
  BY <1>2 DEF Provenance, Stored
<1> QED BY <1>1, <1>2, SignatureForm

LEMMA TypeInit == Init => TypeOK
<1> SUFFICES ASSUME Init PROVE TypeOK
  OBVIOUS
<1>1. 1 \in Keys /\ 1 \in Versions /\ 0 \in 0 .. MaxSigned
  BY ResultAssumption DEF Keys, Versions
<1>2. Idle \in Work
  BY DEF Idle, Work
<1> QED BY <1>1, <1>2 DEF Init, TypeOK, Idle

\* Both backends sign with a key of the kind they record.
LEMMA SignType ==
  ASSUME TypeOK, NEW r \in Requests, NEW key, NEW ver, Sign(r, key, ver),
         cached' \in [Processes -> Keys \cup {Nil}],
         \/ key \in Keys /\ ver = Nil
         \/ key \in Identities /\ ver \in Versions
  PROVE  TypeOK'
<1> DEFINE sig == [el |-> txn[r].el, nr |-> attempts + 1, key |-> key, ver |-> ver]
<1>1. txn[r].el \in Elections /\ txn[r] \in Work
  BY DEF Sign, TypeOK
<1>2. attempts + 1 \in 1 .. MaxSigned /\ attempts + 1 \in 0 .. MaxSigned
  BY ResultAssumption DEF Sign, TypeOK
<1>3. sig \in Signatures /\ sig.el = txn[r].el
  BY <1>1, <1>2 DEF Signatures
<1>4. /\ made' = made \cup {sig} /\ attempts' = attempts + 1
      /\ txn' = [txn EXCEPT ![r].pc = "signed", ![r].sig = sig]
      /\ UNCHANGED <<locking, tables, files, config, vault, downloaded>>
  BY DEF Sign
<1> HIDE DEF sig
<1>5. txn' \in [Requests -> Work]
  BY <1>1, <1>3, <1>4 DEF TypeOK, Work
<1>6. \A q \in Requests :
        /\ txn'[q].pc = "tallied" => txn'[q].el \in Elections
        /\ txn'[q].pc \in {"signed", "ready"} =>
             txn'[q].sig \in made' /\ txn'[q].sig.el = txn'[q].el
  BY <1>1, <1>3, <1>4 DEF TypeOK, Work
<1> QED BY <1>2, <1>3, <1>4, <1>5, <1>6 DEF TypeOK, tables, vault

LEMMA TypeStep == TypeOK /\ [Next]_vars => TypeOK'
<1> SUFFICES ASSUME TypeOK, [Next]_vars PROVE TypeOK'
  OBVIOUS
<1>1. ASSUME NEW r \in Requests, NEW e \in Elections, StartSign(r, e) PROVE TypeOK'
  <2>1. [Idle EXCEPT !.pc = "tallied", !.el = e] \in Work
    BY DEF Idle, Work
  <2> QED BY <1>1, <2>1 DEF TypeOK, StartSign, Idle, tables, signer, vault, seen
<1>2. ASSUME NEW r \in Requests, SignWithVault(r) PROVE TypeOK'
  <2>1. /\ Config(r) \in Identities /\ latest[Config(r)] \in Versions
        /\ cached' \in [Processes -> Keys \cup {Nil}]
    BY <1>2 DEF SignWithVault, TypeOK
  <2> QED BY <1>2, <2>1, SignType DEF SignWithVault
<1>3. ASSUME NEW r \in Requests, SignLocally(r) PROVE TypeOK'
  <2>1. Home[r] \in Processes
    BY ResultAssumption
  <2>2. Loaded(Home[r]) \in Keys
    BY <1>3, <2>1 DEF SignLocally, Loaded, TypeOK
  <2>3. cached' \in [Processes -> Keys \cup {Nil}]
    BY <1>3, <2>1, <2>2 DEF SignLocally, TypeOK
  <2> QED BY <1>3, <2>2, <2>3, SignType DEF SignLocally
<1>4. ASSUME NEW r \in Requests, ArchiveKey(r) PROVE TypeOK'
  <2>1. txn[r] \in Work
    BY DEF TypeOK
  <2>2. NeedsArchive(r) => txn[r].sig.key \in Keys
    BY DEF NeedsArchive
  <2>3. txn' \in [Requests -> Work]
    BY <1>4, <2>1, <2>2 DEF ArchiveKey, TypeOK, Work
  <2> QED BY <1>4, <2>1, <2>3 DEF ArchiveKey, TypeOK, Work, tables, signer, vault, seen
<1>5. ASSUME NEW r \in Requests, CommitResult(r) PROVE TypeOK'
  <2>1. txn[r].sig \in Signatures /\ txn[r].el \in Elections /\ txn[r].adds \in Keys \cup {Nil}
    BY <1>5, SignatureForm DEF CommitResult, TypeOK, Work
  <2>2. Provenance(txn[r].sig) \in Stored
    BY <2>1, ProvenanceStored
  <2>3. Idle \in Work
    BY DEF Idle, Work
  <2> QED BY <1>5, <2>1, <2>2, <2>3 DEF TypeOK, CommitResult, End, Idle, signer, vault, seen
<1>6. ASSUME NEW r \in Requests, RollBack(r) PROVE TypeOK'
  <2>1. Idle \in Work
    BY DEF Idle, Work
  <2> QED BY <1>6, <2>1 DEF TypeOK, RollBack, End, Idle, tables, signer, vault, seen
<1>7. ASSUME NEW e \in Elections, Download(e) PROVE TypeOK'
  <2>1. result[e].sig \in Signatures
    BY <1>7 DEF Download, TypeOK, Stored
  <2> QED BY <1>7, <2>1 DEF TypeOK, Download, tables, signer, vault
<1>8. ASSUME NEW k \in Keys \cup {Nil}, ReplaceFiles(k) PROVE TypeOK'
  BY <1>8 DEF TypeOK, ReplaceFiles, tables, vault, seen
<1>9. ASSUME NEW p \in Processes, NEW c \in Configs, Restart(p, c) PROVE TypeOK'
  <2>1. Idle \in Work
    BY DEF Idle, Work
  <2>2. txn' \in [Requests -> Work]
    BY <1>9, <2>1 DEF Restart, TypeOK
  <2>3. \A q \in Requests : txn'[q] = Idle \/ txn'[q] = txn[q]
    BY <1>9 DEF Restart
  <2> QED BY <1>9, <2>2, <2>3 DEF TypeOK, Restart, Idle, tables, vault, seen
<1>10. ASSUME VaultFails PROVE TypeOK'
  BY <1>10 DEF TypeOK, VaultFails, tables, signer, seen
<1>11. ASSUME NEW i \in Identities, RotateVaultKey(i) PROVE TypeOK'
  <2>1. latest[i] + 1 \in Versions
    BY <1>11, ResultAssumption DEF RotateVaultKey, TypeOK, Versions
  <2> QED BY <1>11, <2>1 DEF TypeOK, RotateVaultKey, tables, signer, seen
<1>12. ASSUME NEW i \in Identities, TrimVaultKey(i) PROVE TypeOK'
  <2>1. oldest[i] + 1 \in Versions
    BY <1>12, ResultAssumption DEF TrimVaultKey, TypeOK, Versions
  <2> QED BY <1>12, <2>1 DEF TypeOK, TrimVaultKey, tables, signer, seen
<1>13. CASE UNCHANGED vars
  BY <1>13 DEF TypeOK, vars, tables, signer, vault, seen
<1> QED BY <1>1, <1>2, <1>3, <1>4, <1>5, <1>6, <1>7, <1>8, <1>9, <1>10, <1>11, <1>12, <1>13
        DEF Next

\* The three parts of ProvenanceHeld
ResultsHeld ==
  \A e \in Elections :
    result[e] # Nil => /\ result[e] = Provenance(result[e].sig)
                       /\ result[e].sig \in Signatures /\ result[e].sig.el = e
                       /\ Archived(result[e])
DownloadsHeld == \A d \in downloaded : result[d.el] # Nil /\ result[d.el].sig = d
KeysHeld ==
  \A r \in Requests : txn[r].pc = "ready" /\ NeedsArchive(r) => txn[r].adds = txn[r].sig.key

LEMMA Parts == ProvenanceHeld <=> ResultsHeld /\ DownloadsHeld /\ KeysHeld
BY DEF ProvenanceHeld, ResultsHeld, DownloadsHeld, KeysHeld

LEMMA HeldInit == Init => ProvenanceHeld
BY DEF Init, ProvenanceHeld, Idle

\* A step that leaves the tables alone disturbs neither results nor downloads,
\* and of the requests only those it moves.
LEMMA TablesKept ==
  ASSUME ProvenanceHeld, UNCHANGED <<tables, downloaded>>,
         \A q \in Requests : \/ txn'[q] = txn[q]
                             \/ txn'[q].pc # "ready"
                             \/ txn'[q].sig.key \in Keys \ archive => txn'[q].adds = txn'[q].sig.key
  PROVE  ProvenanceHeld'
<1>1. result' = result /\ archive' = archive /\ downloaded' = downloaded
  BY DEF tables
<1> QED BY <1>1 DEF ProvenanceHeld, NeedsArchive, Archived, Provenance

LEMMA HeldStep == TypeOK /\ ProvenanceHeld /\ [Next]_vars => ProvenanceHeld'
<1> SUFFICES ASSUME TypeOK, ProvenanceHeld, [Next]_vars PROVE ProvenanceHeld'
  OBVIOUS
<1>1. ASSUME NEW r \in Requests, NEW e \in Elections, StartSign(r, e) PROVE ProvenanceHeld'
  <2>1. \A q \in Requests : txn'[q] = txn[q] \/ txn'[q].pc # "ready"
    BY <1>1 DEF StartSign, TypeOK, Idle
  <2> QED BY <1>1, <2>1, TablesKept DEF StartSign, seen
<1>2. ASSUME NEW r \in Requests, NEW key, NEW ver, Sign(r, key, ver) PROVE ProvenanceHeld'
  <2>1. \A q \in Requests : txn'[q] = txn[q] \/ txn'[q].pc # "ready"
    BY <1>2 DEF Sign, TypeOK, Work
  <2> QED BY <1>2, <2>1, TablesKept DEF Sign
<1>3. ASSUME NEW r \in Requests, ArchiveKey(r) PROVE ProvenanceHeld'
  <2>1. \A q \in Requests \ {r} : txn'[q] = txn[q]
    BY <1>3 DEF ArchiveKey, TypeOK
  <2>2. txn'[r].sig = txn[r].sig
        /\ txn'[r].adds = IF NeedsArchive(r) THEN txn[r].sig.key ELSE Nil
    BY <1>3 DEF ArchiveKey, TypeOK, Work
  <2> QED BY <1>3, <2>1, <2>2, TablesKept DEF ArchiveKey, NeedsArchive, seen
<1>4. ASSUME NEW r \in Requests, CommitResult(r) PROVE ProvenanceHeld'
  <2> DEFINE s == txn[r].sig
             el == txn[r].el
  <2>1. s \in Signatures /\ s.el = el /\ el \in Elections /\ txn[r].adds \in Keys \cup {Nil}
    BY <1>4, SignatureForm DEF CommitResult, TypeOK, Work
  <2>2. /\ result' = [result EXCEPT ![el] = Provenance(s)] /\ result[el] = Nil
        /\ archive' = archive \cup ({txn[r].adds} \ {Nil})
        /\ txn' = [txn EXCEPT ![r] = Idle] /\ downloaded' = downloaded
        /\ latest' = latest /\ txn[r].pc = "ready"
    BY <1>4 DEF CommitResult, End, seen, vault
  <2>3. Provenance(s).backend = "local" => Provenance(s).key \in archive'
    <3>1. SUFFICES ASSUME Provenance(s).backend = "local" PROVE s.key \in archive'
      BY DEF Provenance
    <3>2. s.key \in Keys
      BY <2>1, <3>1, SignatureForm DEF Provenance
    <3>3. s.key \in archive \/ txn[r].adds = s.key
      BY <2>2, <3>2 DEF ProvenanceHeld, NeedsArchive
    <3>4. s.key # Nil
      BY <3>2, ResultAssumption DEF Keys
    <3> QED BY <2>2, <3>3, <3>4
  <2>4. Provenance(s).sig = s
    BY DEF Provenance
  <2>5. archive \subseteq archive'
    BY <2>2
  <2>6. ResultsHeld'
    <3> SUFFICES ASSUME NEW e \in Elections, result'[e] # Nil
                 PROVE  /\ result'[e] = Provenance(result'[e].sig)
                        /\ result'[e].sig \in Signatures /\ result'[e].sig.el = e
                        /\ result'[e].backend = "local" => result'[e].key \in archive'
      BY DEF ResultsHeld, Provenance, Archived
    <3> HIDE DEF s, el
    <3>1. CASE e = el
      BY <2>1, <2>2, <2>3, <2>4, <3>1 DEF TypeOK
    <3>2. CASE e # el
      BY <2>1, <2>2, <2>5, <3>2, Parts DEF TypeOK, ResultsHeld, Archived
    <3> QED BY <3>1, <3>2
  <2>7. DownloadsHeld'
    <3> HIDE DEF s, el
    <3>1. \A d \in downloaded : result[d.el] # Nil /\ d.el \in Elections
      BY Parts, SignatureForm DEF DownloadsHeld, TypeOK
    <3> QED BY <2>1, <2>2, <3>1, Parts DEF DownloadsHeld, TypeOK
  <2>8. KeysHeld'
    <3> HIDE DEF s, el
    <3>1. \A q \in Requests : txn'[q] = txn[q] \/ txn'[q].pc = "idle"
      BY <2>2 DEF TypeOK, Idle
    <3> QED BY <2>5, <3>1, Parts DEF KeysHeld, NeedsArchive
  <2> QED BY <2>6, <2>7, <2>8 DEF ProvenanceHeld, ResultsHeld, DownloadsHeld, KeysHeld
<1>5. ASSUME NEW r \in Requests, RollBack(r) PROVE ProvenanceHeld'
  <2>1. \A q \in Requests : txn'[q] = txn[q] \/ txn'[q].pc # "ready"
    BY <1>5 DEF RollBack, End, TypeOK, Idle
  <2> QED BY <1>5, <2>1, TablesKept DEF RollBack, seen
<1>6. ASSUME NEW e \in Elections, Download(e) PROVE ProvenanceHeld'
  <2>1. result[e].sig.el = e /\ result[e] # Nil
    BY <1>6, Parts DEF Download, ResultsHeld
  <2> QED BY <1>6, <2>1 DEF Download, ProvenanceHeld, tables, Archived, NeedsArchive, Provenance
<1>7. ASSUME NEW k, ReplaceFiles(k) PROVE ProvenanceHeld'
  BY <1>7, TablesKept DEF ReplaceFiles, seen
<1>8. ASSUME NEW p \in Processes, NEW c \in Configs, Restart(p, c) PROVE ProvenanceHeld'
  <2>1. \A q \in Requests : txn'[q] = txn[q] \/ txn'[q].pc # "ready"
    BY <1>8 DEF Restart, Idle
  <2> QED BY <1>8, <2>1, TablesKept DEF Restart, seen
<1>9. ASSUME VaultFails PROVE ProvenanceHeld'
  BY <1>9, TablesKept DEF VaultFails, seen
<1>10. ASSUME NEW i \in Identities, RotateVaultKey(i) \/ TrimVaultKey(i) PROVE ProvenanceHeld'
  BY <1>10, TablesKept DEF RotateVaultKey, TrimVaultKey, seen
<1>11. CASE UNCHANGED vars
  BY <1>11, TablesKept DEF vars, seen
<1> QED BY <1>1, <1>2, <1>3, <1>4, <1>5, <1>6, <1>7, <1>8, <1>9, <1>10, <1>11
        DEF Next, SignWithVault, SignLocally

\* The tables, the processes and the requests of the signing code keep their types.
THEOREM ResultTypes == Spec => []TypeOK
<1> QED BY TypeInit, TypeStep, PTL DEF Spec

\* A stored result records the key of its signature, with which the key of a
\* local result was archived; and a download is the stored result.
THEOREM ProvenanceKept == Spec => []ProvenanceHeld
<1> QED BY TypeInit, TypeStep, HeldInit, HeldStep, PTL DEF Spec

\* What process p answers to the signature of a stored result
LEMMA StoredAnswer ==
  ASSUME ProvenanceHeld, NEW e \in Elections, NEW p \in Processes, result[e] # Nil
  PROVE  /\ Answer(p, result[e].sig) \in {"valid", "unavailable"}
         /\ result[e].backend = "local" => Answer(p, result[e].sig) = "valid"
         /\ result[e].backend = "vault" /\ VaultReach(p, result[e])
              /\ oldest[result[e].key] <= result[e].sig.ver /\ TypeOK
            => Answer(p, result[e].sig) = "valid"
<1> DEFINE st == result[e]
           s == result[e].sig
<1>1. st = Provenance(s) /\ s \in Signatures /\ s.el = e /\ Archived(st)
  BY Parts DEF ResultsHeld
<1>2. st.key = s.key /\ st.ver = s.ver /\ st.backend = IF s.ver = Nil THEN "local" ELSE "vault"
  BY <1>1 DEF Provenance
<1>3. Answer(p, s) = VerifySignature(p, s, st)
  BY <1>1 DEF Answer
<1>4. ASSUME st.backend = "vault", TypeOK, oldest[st.key] <= s.ver
      PROVE  ~(s.ver < oldest[st.key])
  <2>1. s.key \in Identities /\ s.ver \in Versions
    BY <1>1, <1>2, <1>4, SignatureForm
  <2>2. oldest[st.key] \in Versions
    BY <1>2, <1>4, <2>1 DEF TypeOK
  <2> QED BY <1>4, <2>1, <2>2 DEF Versions
<1> HIDE DEF s, st
<1>5. Answer(p, s) \in {"valid", "unavailable"}
  BY <1>2, <1>3 DEF VerifySignature
<1>6. st.backend = "local" => Answer(p, s) = "valid"
  BY <1>1, <1>2, <1>3 DEF VerifySignature
<1>7. ASSUME st.backend = "vault", VaultReach(p, st), oldest[st.key] <= s.ver, TypeOK
      PROVE  Answer(p, s) = "valid"
  BY <1>2, <1>3, <1>4, <1>7 DEF VerifySignature
<1> QED BY <1>5, <1>6, <1>7 DEF s, st

\* verify_election_results never refutes a result that was downloaded.
THEOREM NeverRefuted == Spec => []GenuineNeverRefuted
<1>1. TypeOK /\ ProvenanceHeld => GenuineNeverRefuted
  <2> SUFFICES ASSUME TypeOK, ProvenanceHeld, NEW d \in downloaded, NEW p \in Processes
               PROVE  Answer(p, d) \in {"valid", "unavailable"}
    BY DEF GenuineNeverRefuted
  <2>1. d.el \in Elections /\ result[d.el] # Nil /\ result[d.el].sig = d
    BY Parts, SignatureForm DEF DownloadsHeld, TypeOK
  <2> QED BY <2>1, StoredAnswer
<1> QED BY <1>1, ResultTypes, ProvenanceKept, PTL

\* A result of the local key verifies for ever: sign_election_results archives
\* the public key in the transaction that stores the result.
THEOREM LocalVerifies == Spec => []LocalAlwaysVerifies
<1>1. ProvenanceHeld => LocalAlwaysVerifies
  BY StoredAnswer DEF LocalAlwaysVerifies
<1> QED BY <1>1, ProvenanceKept, PTL

\* A result of Vault verifies where its key is configured and keeps the version.
THEOREM VaultVerifies == Spec => []VaultVerifiesAgain
<1>1. TypeOK /\ ProvenanceHeld => VaultVerifiesAgain
  BY StoredAnswer DEF VaultVerifiesAgain
<1> QED BY <1>1, ResultTypes, ProvenanceKept, PTL

\* No other signature of an election is ever answered to be valid.
THEOREM OfficialIsOne == Spec => []OneOfficial
<1>1. ProvenanceHeld => OneOfficial
  BY Parts DEF OneOfficial, Answer, DownloadsHeld
<1> QED BY <1>1, ProvenanceKept, PTL
=============================================================================
