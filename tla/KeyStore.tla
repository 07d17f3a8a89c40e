------------------------------ MODULE KeyStore ------------------------------
(***************************************************************************)
(* The blind-signing key of one election (app/security/blind_signature.py,   *)
(* app/services/election_key_service.py and the handlers that call them): a  *)
(* key directory published by rename, a cache in every worker process, and   *)
(* the fingerprint anchored in the election's row.  A key pair is a number;  *)
(* what it signs is left out.  Closing the election only ends its use and is *)
(* left out too.                                                             *)
(***************************************************************************)
EXTENDS Integers

CONSTANTS
  Threads,    \* worker threads
  Processes,  \* worker processes
  Home,       \* Home[t]: the process of thread t
  MaxKeys,    \* bound of the key pairs generated
  MaxLosses,  \* bound of the times the key directory is lost or replaced
  Nil

Legacy  == 0  \* the one authority of all elections before the migration
Keys    == 1 .. MaxKeys
Anchors == Keys \cup {Nil}

ASSUME KeyAssumption ==
  /\ Home \in [Threads -> Processes]
  /\ MaxKeys \in Nat /\ MaxLosses \in Nat /\ Nil \notin Nat

VARIABLES
  locking,     \* the database takes row locks (MySQL) or none (SQLite)
  open,        \* election.status is open; otherwise it is draft
  recovery,    \* election.blind_key_recovery_required
  anchor,      \* election.blind_signing_key_id
  dir,         \* the published key directory
  cache,       \* _key_cache of each process
  made,        \* key pairs generated so far
  losses,      \* how often the directory was lost or replaced
  authorized,  \* there are blind_signature_token rows
  signatures,  \* keys of the signatures that voters hold
  shown,       \* public keys that /vote/blind-key has answered
  refused,     \* a voter's signature was answered "Invalid signature"
  txn          \* what each thread is doing

row   == <<locking, open, recovery, anchor>>
store == <<dir, cache, made, losses>>
seen  == <<authorized, signatures, shown, refused>>
vars  == <<row, store, seen, txn>>

Doing(op, pc, expected, key) == [op |-> op, pc |-> pc, expected |-> expected, key |-> key]
Idle == Doing("idle", "idle", Nil, Nil)

\* A new election is a draft.  The migration leaves elections open without an
\* anchor, and marks them when voters may hold signatures of the old authority.
Init ==
  /\ locking \in BOOLEAN /\ open \in BOOLEAN /\ recovery \in BOOLEAN
  /\ recovery => open
  /\ signatures = IF recovery THEN {Legacy} ELSE {}
  /\ anchor = Nil /\ dir = Nil /\ cache = [p \in Processes |-> Nil]
  /\ made = 0 /\ losses = 0
  /\ authorized = FALSE /\ shown = {} /\ refused = FALSE
  /\ txn = [t \in Threads |-> Idle]

-----------------------------------------------------------------------------
Provisions(t) == txn[t].op \in {"open", "reconcile"}  \* FOR UPDATE
Uses(t) == txn[t].op \in {"token", "cast"}            \* FOR SHARE

CanOwnAnyway(t) == TRUE
CanOwnRow(t) == locking => \A u \in Threads \ {t} : ~Provisions(u) /\ ~Uses(u)
CanShareRow(t) == locking => \A u \in Threads \ {t} : ~Provisions(u)

\* _cache_lock, held while a pair is generated and published
CacheFree(t) ==
  \A u \in Threads \ {t} : Home[u] = Home[t] => txn[u].pc \notin {"publishing", "loading"}

Begin(t, op) ==
  /\ txn[t] = Idle
  /\ txn' = [txn EXCEPT ![t] = Doing(op, "begun", anchor, Nil)]
  /\ UNCHANGED <<row, store, seen>>

Goto(t, pc, key) == txn' = [txn EXCEPT ![t] = Doing(@.op, pc, @.expected, key)]
End(t) == txn' = [txn EXCEPT ![t] = Idle]

\* open_election, up to its key
StartOpen(t) == ~open /\ ~recovery /\ CanOwnRow(t) /\ Begin(t, "open")

\* reconcile_open_election_keys, when the service is initialised
MayReconcile == open /\ ~recovery /\ (anchor = Nil => ~authorized)
StartReconcile(t) == MayReconcile /\ CanOwnRow(t) /\ Begin(t, "reconcile")

\* request_blind_token, cast_anonymous_ballot and blind_signing_public_key on an
\* election that is_open; without an anchor they answer that the key is
\* unavailable.
MayUse == open /\ ~recovery /\ anchor # Nil
StartUse(t, op) == MayUse /\ CanShareRow(t) /\ Begin(t, op)
ReadKey(t) == MayUse /\ Begin(t, "key")

-----------------------------------------------------------------------------
(* ensure_election_blind_signing_key                                         *)

MustGenerate(t) ==
  /\ txn[t].pc = "begun" /\ Provisions(t) /\ txn[t].expected = Nil
  /\ cache[Home[t]] = Nil /\ dir = Nil

Generate(t) ==
  /\ MustGenerate(t) /\ CacheFree(t) /\ made < MaxKeys
  /\ made' = made + 1
  /\ Goto(t, "publishing", made + 1)
  /\ UNCHANGED <<row, dir, cache, losses, seen>>

\* Renaming fails when another process has published a pair: that one counts.
Publish(t) ==
  /\ txn[t].pc = "publishing"
  /\ dir' = IF dir = Nil THEN txn[t].key ELSE dir
  /\ Goto(t, "loading", Nil)
  /\ UNCHANGED <<row, cache, made, losses, seen>>

\* _load_keys
Loaded(t) == IF cache[Home[t]] # Nil THEN cache[Home[t]] ELSE dir

MatchesAny(k, expected) == k # Nil
Matches(k, expected) == k # Nil /\ (expected # Nil => k = expected)

\* What was loaded stays cached, also when it is not the key expected.
Load(t) ==
  /\ txn[t].pc \in {"begun", "loading"} /\ ~MustGenerate(t) /\ CacheFree(t)
  /\ cache' = [cache EXCEPT ![Home[t]] = Loaded(t)]
  /\ IF Matches(Loaded(t), txn[t].expected) THEN Goto(t, "ready", Loaded(t)) ELSE End(t)
  /\ UNCHANGED <<row, dir, made, losses, seen>>

-----------------------------------------------------------------------------
(* What the key is for.                                                      *)

CommitAnchor(t) ==
  /\ Provisions(t) /\ txn[t].pc = "ready"
  /\ open' = TRUE
  /\ anchor' = IF txn[t].expected = Nil THEN txn[t].key ELSE anchor
  /\ End(t)
  /\ UNCHANGED <<locking, recovery, store, seen>>

\* blind_sign loads the key again.
Sign(t) ==
  /\ txn[t].op = "token" /\ txn[t].pc = "ready"
  /\ Goto(t, "signed", Loaded(t))
  /\ UNCHANGED <<row, store, seen>>

CommitToken(t) ==
  /\ txn[t].pc = "signed"
  /\ authorized' = TRUE /\ signatures' = signatures \cup {txn[t].key}
  /\ End(t)
  /\ UNCHANGED <<row, store, shown, refused>>

\* verify_unblinded_signature of a signature that a voter holds
AnswerCastFromFiles(t, s) ==
  /\ txn[t].op = "cast" /\ txn[t].pc = "ready"
  /\ refused' = (refused \/ s # dir)
  /\ End(t)
  /\ UNCHANGED <<row, store, authorized, signatures, shown>>

AnswerCast(t, s) ==
  /\ txn[t].op = "cast" /\ txn[t].pc = "ready"
  /\ refused' = (refused \/ s # Loaded(t))
  /\ End(t)
  /\ UNCHANGED <<row, store, authorized, signatures, shown>>

ShowKey(t) ==
  /\ txn[t].op = "key" /\ txn[t].pc = "ready"
  /\ shown' = shown \cup {txn[t].key}
  /\ End(t)
  /\ UNCHANGED <<row, store, authorized, signatures, refused>>

-----------------------------------------------------------------------------
(* What goes wrong.                                                          *)

\* An exception, a refused check or a failed commit ends the transaction.
Abort(t) ==
  /\ txn[t] # Idle
  /\ End(t)
  /\ UNCHANGED <<row, store, seen>>

Restart(p) ==
  /\ cache' = [cache EXCEPT ![p] = Nil]
  /\ txn' = [t \in Threads |-> IF Home[t] = p THEN Idle ELSE txn[t]]
  /\ UNCHANGED <<row, dir, made, losses, seen>>

\* The key volume is lost, or a copy of some pair is put in its place.
DisturbFiles(k) ==
  /\ losses < MaxLosses /\ k # dir
  /\ losses' = losses + 1 /\ dir' = k
  /\ UNCHANGED <<row, cache, made, seen, txn>>

Step(t) ==
  \/ StartOpen(t) \/ StartReconcile(t)
  \/ \E op \in {"token", "cast"} : StartUse(t, op)
  \/ ReadKey(t)
  \/ Generate(t) \/ Publish(t) \/ Load(t)
  \/ CommitAnchor(t) \/ Sign(t) \/ CommitToken(t) \/ ShowKey(t)
  \/ \E s \in signatures : AnswerCast(t, s)
  \/ Abort(t)

Next ==
  \/ \E t \in Threads : Step(t)
  \/ \E p \in Processes : Restart(p)
  \/ \E k \in 1 .. made \cup {Nil} : DisturbFiles(k)

Spec == Init /\ [][Next]_vars

-----------------------------------------------------------------------------
Txns ==
  {Idle}
  \cup [op : {"open", "reconcile"}, pc : {"begun"}, expected : Anchors, key : {Nil}]
  \cup [op : {"token", "cast", "key"}, pc : {"begun"}, expected : Keys, key : {Nil}]
  \cup [op : {"open", "reconcile"}, pc : {"publishing"}, expected : {Nil}, key : Keys]
  \cup [op : {"open", "reconcile"}, pc : {"loading"}, expected : {Nil}, key : {Nil}]
  \cup [op : {"open", "reconcile"}, pc : {"ready"}, expected : Anchors, key : Keys]
  \cup [op : {"token", "cast", "key"}, pc : {"ready"}, expected : Keys, key : Keys]
  \cup [op : {"token"}, pc : {"signed"}, expected : Keys, key : Keys]

\* The row, the files, the caches and every request keep their types: a handler
\* that goes on past ensure_election_blind_signing_key holds a key.
TypeOK ==
  /\ {locking, open, recovery, authorized, refused} \subseteq BOOLEAN
  /\ anchor \in Anchors /\ dir \in Anchors
  /\ made \in 0..MaxKeys /\ losses \in 0..MaxLosses
  /\ cache \in [Processes -> Anchors]
  /\ signatures \subseteq Keys \cup {Legacy} /\ shown \subseteq Keys
  /\ txn \in [Threads -> Txns]

\* With row locks whatever happens to the files, without them while nothing
\* happens to the files.
Protected == locking \/ losses = 0

\* A key that is anchored has been published whole: its files are there, unless
\* they were lost later.
AnchorPublished == losses = 0 /\ anchor # Nil => dir = anchor

\* Voters only see and hold material of one authority, the anchored one; voters
\* with signatures of the old one are never given another.
OneAuthority ==
  /\ recovery => anchor = Nil
  /\ Protected => /\ shown \subseteq {anchor}
                  /\ signatures \subseteq (IF recovery THEN {Legacy} ELSE {anchor})

\* A signature that a voter was issued is accepted or the key is unavailable; it
\* is never answered to be invalid.
GenuineAccepted == Protected => ~refused

\* Once a fingerprint is anchored it is never rotated.
AnchorKept == [][Protected' /\ anchor # Nil => anchor' = anchor]_vars

-----------------------------------------------------------------------------
(* Why it holds: what a thread expects is still anchored when it uses the    *)
(* key, and a process that has looked at the key keeps it.                   *)

LockHeld ==
  locking => \A t, u \in Threads : Provisions(t) /\ (Provisions(u) \/ Uses(u)) => t = u

\* The anchor that a thread read is still there.
AnchorRead ==
  \A t \in Threads :
    /\ Protected /\ txn[t].expected # Nil => anchor = txn[t].expected
    /\ locking /\ Provisions(t) /\ txn[t].expected = Nil => anchor = Nil
    /\ recovery => txn[t] = Idle

\* The key that a thread has checked is the one its process has cached.
KeyChecked ==
  \A t \in Threads :
    /\ txn[t].pc = "ready" => cache[Home[t]] = txn[t].key
    /\ txn[t].pc \in {"ready", "signed"} /\ txn[t].expected # Nil
         => txn[t].key = txn[t].expected

\* While nothing happens to the files there is one pair.
OnePair ==
  losses = 0 => /\ anchor # Nil => dir = anchor
                /\ \A p \in Processes : cache[p] # Nil => dir = cache[p]

\* The inductive invariant of the key store.
KeysHeld ==
  LockHeld /\ AnchorRead /\ KeyChecked /\ OnePair /\ OneAuthority /\ GenuineAccepted
=============================================================================
