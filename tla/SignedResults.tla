--------------------------- MODULE SignedResults ---------------------------
(***************************************************************************)
(* The provenance of signed results: what sign_election_results stores with  *)
(* a signature, and what get_latest_results and verify_election_results      *)
(* answer years later (app/routes/results.py, app/security/signing_service.py,*)
(* app/security/vault_client.py).  A result is signed by Vault Transit or by *)
(* a local RSA key that every worker process caches; meanwhile keys rotate,  *)
(* key files are replaced, processes restart with another configuration and  *)
(* Vault is down.                                                            *)
(*                                                                           *)
(* All elections here are closed; the tally is Voting's concern.  A local    *)
(* key is a number and is its own fingerprint.                               *)
(***************************************************************************)
EXTENDS Integers

CONSTANTS
  Elections,   \* closed elections
  Requests,    \* worker threads that managers sign with
  Processes,   \* worker processes
  Home,        \* Home[r]: the process of thread r
  Identities,  \* Vault keys: cluster, namespace, mount and name
  MaxKeys,     \* bound of the local key pairs
  MaxVersion,  \* bound of the versions of a Vault key
  MaxSigned,   \* bound of the signatures made
  Nil

Keys     == 1 .. MaxKeys
Versions == 1 .. MaxVersion
\* VaultClient: not configured, configured but not enabled, or a key
Configs  == {"none", "broken"} \cup Identities

ASSUME ResultAssumption ==
  /\ Home \in [Requests -> Processes]
  /\ {MaxKeys, MaxVersion, MaxSigned} \subseteq Nat \ {0}
  /\ Nil \notin Int \cup Identities /\ Identities \cap (Int \cup {"none", "broken"}) = {}

VARIABLES
  locking,     \* the database takes row locks (MySQL) or none (SQLite)
  result,      \* signed_election_result by election
  archive,     \* result_signing_public_key: the fingerprints
  files,       \* the key pair in the instance directory; Nil is no valid pair
  cached,      \* _private_key of each process
  config,      \* vault_client of each process
  up,          \* Vault answers
  latest,      \* newest version of each Vault key
  oldest,      \* its min_decryption_version
  attempts,    \* how many signatures were made
  made,        \* the signatures made, stored or not
  downloaded,  \* signatures that /results/latest has answered
  txn          \* what each thread is doing

tables == <<result, archive>>
signer == <<files, cached, config>>
vault  == <<up, latest, oldest>>
seen   == <<attempts, made, downloaded>>
vars   == <<locking, tables, signer, vault, seen, txn>>

\* A signature of one attempt's payload: payloads of two attempts differ in
\* signed_at.  Its key is a local pair, or a Vault key and the version in the
\* vault:vN: envelope.
Signatures == [el : Elections, nr : 1 .. MaxSigned, key : Keys, ver : {Nil}]
         \cup [el : Elections, nr : 1 .. MaxSigned, key : Identities, ver : Versions]

\* What is stored: the payload and signature, and the provenance recorded
Stored == [sig : Signatures, backend : {"local", "vault"},
           key : Keys \cup Identities, ver : Versions \cup {Nil}]

\* A signing in progress: its election, its signature, the key it archives
Work == [pc : {"idle", "tallied", "signed", "ready"}, el : Elections \cup {Nil},
         sig : Signatures \cup {Nil}, adds : Keys \cup {Nil}]

Idle == [pc |-> "idle", el |-> Nil, sig |-> Nil, adds |-> Nil]

Init ==
  /\ locking \in BOOLEAN
  /\ result = [e \in Elections |-> Nil] /\ archive = {}
  /\ files \in {1, Nil} /\ cached = [p \in Processes |-> Nil]
  /\ config \in [Processes -> Configs]
  /\ up = TRUE /\ latest = [i \in Identities |-> 1] /\ oldest = [i \in Identities |-> 1]
  /\ attempts = 0 /\ made = {} /\ downloaded = {}
  /\ txn = [r \in Requests |-> Idle]

-----------------------------------------------------------------------------
(* sign_election_results                                                     *)

Goto(r, pc) == txn' = [txn EXCEPT ![r].pc = pc]
End(r) == txn' = [txn EXCEPT ![r] = Idle]
Config(r) == config[Home[r]]

\* _result_signing_lock of the process, then the election row FOR UPDATE
CanSign(r, e) ==
  \A q \in Requests \ {r} :
    txn[q] # Idle => Home[q] # Home[r] /\ (locking => txn[q].el # e)

StartSign(r, e) ==
  /\ txn[r] = Idle /\ CanSign(r, e)
  /\ result[e] = Nil
  /\ txn' = [txn EXCEPT ![r] = [Idle EXCEPT !.pc = "tallied", !.el = e]]
  /\ UNCHANGED <<locking, tables, signer, vault, seen>>

\* signing_service.sign_data: with Vault configured only Vault signs.
Sign(r, key, ver) ==
  LET sig == [el |-> txn[r].el, nr |-> attempts + 1, key |-> key, ver |-> ver]
  IN  /\ txn[r].pc = "tallied" /\ attempts < MaxSigned
      /\ attempts' = attempts + 1
      /\ made' = made \cup {sig}
      /\ txn' = [txn EXCEPT ![r].pc = "signed", ![r].sig = sig]
      /\ UNCHANGED <<locking, tables, files, config, vault, downloaded>>

\* The version is the one in the envelope that Vault answers.
SignWithVault(r) ==
  /\ Config(r) \in Identities /\ up
  /\ Sign(r, Config(r), latest[Config(r)])
  /\ UNCHANGED cached

\* load_keys, once per process
Loaded(p) == IF cached[p] # Nil THEN cached[p] ELSE files

SignLocally(r) ==
  /\ Config(r) = "none" /\ Loaded(Home[r]) # Nil
  /\ Sign(r, Loaded(Home[r]), Nil)
  /\ cached' = [cached EXCEPT ![Home[r]] = Loaded(Home[r])]

\* INSERT of the public key in a savepoint.  A second INSERT of the fingerprint
\* waits for the first one's transaction, and yields to it if that commits.
NeedsArchive(r) == txn[r].sig.key \in Keys \ archive
AddsKey(q, k) == txn[q].adds = k

ArchiveKeyDirty(r) ==
  /\ txn[r].pc = "signed"
  /\ txn' = [txn EXCEPT ![r].pc = "ready",
                        ![r].adds = IF /\ NeedsArchive(r)
                                       /\ \A q \in Requests : ~AddsKey(q, txn[r].sig.key)
                                    THEN txn[r].sig.key ELSE Nil]
  /\ UNCHANGED <<locking, tables, signer, vault, seen>>

ArchiveKey(r) ==
  /\ txn[r].pc = "signed"
  /\ NeedsArchive(r) => \A q \in Requests : ~AddsKey(q, txn[r].sig.key)
  /\ txn' = [txn EXCEPT ![r].pc = "ready",
                        ![r].adds = IF NeedsArchive(r) THEN txn[r].sig.key ELSE Nil]
  /\ UNCHANGED <<locking, tables, signer, vault, seen>>

\* The provenance that SigningResult carries
ProvenanceLatest(s) ==
  [sig |-> s, backend |-> IF s.ver = Nil THEN "local" ELSE "vault",
   key |-> s.key, ver |-> IF s.ver = Nil THEN Nil ELSE latest[s.key]]
Provenance(s) ==
  [sig |-> s, backend |-> IF s.ver = Nil THEN "local" ELSE "vault",
   key |-> s.key, ver |-> s.ver]

\* INSERT under uq_signed_election_result_election; COMMIT of key and result
CommitAny(r) ==
  /\ txn[r].pc = "ready"
  /\ result' = [result EXCEPT ![txn[r].el] = Provenance(txn[r].sig)]
  /\ archive' = archive \cup ({txn[r].adds} \ {Nil})
  /\ End(r)
  /\ UNCHANGED <<locking, signer, vault, seen>>

CommitResult(r) ==
  /\ txn[r].pc = "ready" /\ result[txn[r].el] = Nil
  /\ result' = [result EXCEPT ![txn[r].el] = Provenance(txn[r].sig)]
  /\ archive' = archive \cup ({txn[r].adds} \ {Nil})
  /\ End(r)
  /\ UNCHANGED <<locking, signer, vault, seen>>

\* A backend that is unavailable, a concurrent repeat signing (IntegrityError)
\* or any other failure rolls back, the archived key included.
RollBack(r) ==
  /\ txn[r] # Idle
  /\ End(r)
  /\ UNCHANGED <<locking, tables, signer, vault, seen>>

-----------------------------------------------------------------------------
(* get_latest_results and verify_election_results                            *)

\* The archived key of a local result is there and is the key recorded.
Archived(st) == st.backend = "local" => st.key \in archive

Download(e) ==
  /\ result[e] # Nil /\ Archived(result[e])
  /\ downloaded' = downloaded \cup {result[e].sig}
  /\ UNCHANGED <<locking, tables, signer, vault, attempts, made, txn>>

\* signing_service.verify_signature in process p, by the recorded backend and
\* key only.  A Vault key that has dropped the version answers an error.
VaultReach(p, st) == up /\ config[p] = st.key

VerifySignature(p, s, st) ==
  IF st.backend = "vault"
    THEN IF s.ver # st.ver THEN "invalid"
         ELSE IF ~VaultReach(p, st) \/ s.ver < oldest[st.key] THEN "unavailable"
         ELSE IF s.key = st.key THEN "valid" ELSE "invalid"
    ELSE IF st.ver # Nil \/ ~Archived(st) THEN "unavailable"
         ELSE IF s.key = st.key THEN "valid" ELSE "invalid"

\* The answer of process p to signature s and its payload
AnswerAny(p, s) ==
  IF result[s.el] = Nil THEN "missing" ELSE VerifySignature(p, s, result[s.el])
Answer(p, s) ==
  IF result[s.el] = Nil THEN "missing"
  ELSE IF result[s.el].sig # s THEN "invalid"
  ELSE VerifySignature(p, s, result[s.el])

-----------------------------------------------------------------------------
(* What operators and Vault do meanwhile.                                    *)

\* Another pair is put in place, or the files are missing or do not match.
ReplaceFiles(k) ==
  /\ k # files /\ files' = k
  /\ UNCHANGED <<locking, tables, cached, config, vault, seen, txn>>

\* A process starts with the environment's configuration; Vault is enabled only
\* when it authenticates the token at that moment.
Restart(p, c) ==
  /\ c \in Identities => up
  /\ cached' = [cached EXCEPT ![p] = Nil]
  /\ config' = [config EXCEPT ![p] = c]
  /\ txn' = [r \in Requests |-> IF Home[r] = p THEN Idle ELSE txn[r]]
  /\ UNCHANGED <<locking, tables, files, vault, seen>>

VaultFails == up' = ~up
              /\ UNCHANGED <<locking, tables, signer, latest, oldest, seen, txn>>

RotateVaultKey(i) ==
  /\ latest[i] < MaxVersion
  /\ latest' = [latest EXCEPT ![i] = @ + 1]
  /\ UNCHANGED <<locking, tables, signer, up, oldest, seen, txn>>

TrimVaultKey(i) ==
  /\ oldest[i] < latest[i]
  /\ oldest' = [oldest EXCEPT ![i] = @ + 1]
  /\ UNCHANGED <<locking, tables, signer, up, latest, seen, txn>>

Next ==
  \/ \E r \in Requests :
        \/ \E e \in Elections : StartSign(r, e)
        \/ SignWithVault(r) \/ SignLocally(r) \/ ArchiveKey(r)
        \/ CommitResult(r) \/ RollBack(r)
  \/ \E e \in Elections : Download(e)
  \/ \E k \in Keys \cup {Nil} : ReplaceFiles(k)
  \/ \E p \in Processes, c \in Configs : Restart(p, c)
  \/ VaultFails
  \/ \E i \in Identities : RotateVaultKey(i) \/ TrimVaultKey(i)

Spec == Init /\ [][Next]_vars

-----------------------------------------------------------------------------
\* Tables, keys and requests keep their types: a signing that goes on holds a
\* signature of its election, and a stored result records a key.
TypeOK ==
  /\ {locking, up} \subseteq BOOLEAN
  /\ result \in [Elections -> Stored \cup {Nil}] /\ archive \subseteq Keys
  /\ files \in Keys \cup {Nil} /\ cached \in [Processes -> Keys \cup {Nil}]
  /\ config \in [Processes -> Configs]
  /\ latest \in [Identities -> Versions] /\ oldest \in [Identities -> Versions]
  /\ attempts \in 0 .. MaxSigned
  /\ made \subseteq Signatures /\ downloaded \subseteq Signatures
  /\ txn \in [Requests -> Work]
  /\ \A r \in Requests :
       /\ txn[r].pc = "tallied" => txn[r].el \in Elections
       /\ txn[r].pc \in {"signed", "ready"} =>
            txn[r].sig \in made /\ txn[r].sig.el = txn[r].el

\* A result that anyone has downloaded is never answered to be invalid, whatever
\* was rotated, replaced, restarted or reconfigured since it was signed.
GenuineNeverRefuted ==
  \A s \in downloaded, p \in Processes : Answer(p, s) \in {"valid", "unavailable"}

\* A stored result of the local key verifies in every process: its public key
\* was archived with it, and neither key files nor Vault are asked.
LocalAlwaysVerifies ==
  \A e \in Elections, p \in Processes :
    result[e] # Nil /\ result[e].backend = "local" => Answer(p, result[e].sig) = "valid"

\* A stored result of Vault verifies wherever the key it names is configured and
\* Vault has the version, however often the key was rotated.
VaultVerifiesAgain ==
  \A e \in Elections, p \in Processes :
    /\ result[e] # Nil /\ result[e].backend = "vault"
    /\ VaultReach(p, result[e]) /\ oldest[result[e].key] <= result[e].sig.ver
    => Answer(p, result[e].sig) = "valid"

\* An election has one official result: of all signatures ever made for it, none
\* but the one that was downloaded is ever answered to be valid.
OneOfficial ==
  \A d \in downloaded, s \in made, p \in Processes :
    s.el = d.el /\ Answer(p, s) = "valid" => s = d

-----------------------------------------------------------------------------
(* Why it holds: the provenance is that of the signature, and the key of a   *)
(* local signature is archived before or with the result.                    *)

ProvenanceHeld ==
  /\ \A e \in Elections :
       result[e] # Nil => /\ result[e] = Provenance(result[e].sig)
                          /\ result[e].sig \in Signatures /\ result[e].sig.el = e
                          /\ Archived(result[e])
  /\ \A d \in downloaded : result[d.el] # Nil /\ result[d.el].sig = d
  /\ \A r \in Requests :
       txn[r].pc = "ready" /\ NeedsArchive(r) => txn[r].adds = txn[r].sig.key
=============================================================================
