----------------------------- MODULE KeyProofs -----------------------------
(***************************************************************************)
(* One blind-signing authority per election, for every number of processes,  *)
(* threads, restarts and losses of the key directory; and the upgrade of a   *)
(* database of older code, wherever it is cut off, which hands over to it.   *)
(***************************************************************************)
EXTENDS Upgrade, TLAPS

\* The types and what the threads know are inductive together: blind_sign loads
\* a key because its process has cached one.
Held == TypeOK /\ KeysHeld

\* What a thread carries in each of its states.
LEMMA Shapes ==
  ASSUME TypeOK, NEW t \in Threads
  PROVE  /\ Home[t] \in Processes /\ txn[t].expected \in Anchors
         /\ txn[t].pc = "publishing" =>
              Provisions(t) /\ txn[t].expected = Nil /\ txn[t].key \in Keys
         /\ txn[t].pc = "loading" => Provisions(t) /\ txn[t].expected = Nil
         /\ txn[t].pc = "ready" => txn[t].key \in Keys
         /\ txn[t].pc = "signed" => txn[t].key \in Keys /\ txn[t].op = "token"
         /\ txn[t].op \in {"token", "cast", "key"} => txn[t].expected \in Keys
         /\ txn[t].pc = "idle" => txn[t] = Idle
         /\ txn[t].pc # "idle" => txn[t].op # "idle"
<1>1. txn[t] \in Txns /\ Home[t] \in Processes
  BY KeyAssumption DEF TypeOK
<1>2. CASE txn[t] = Idle
  BY <1>1, <1>2 DEF Idle, Doing, Anchors
<1>3. CASE txn[t] # Idle
  BY <1>1, <1>3, KeyAssumption DEF Txns, Anchors, Provisions
<1> QED
  BY <1>2, <1>3

LEMMA NilIsNoKey == Nil \notin Keys /\ Idle \in Txns
  BY KeyAssumption DEF Keys, Txns

LEMMA HeldInit == Init => Held
<1> SUFFICES ASSUME Init PROVE Held
  OBVIOUS
<1>1. TypeOK
  <2>1. {locking, open, recovery, authorized, refused} \subseteq BOOLEAN
    BY DEF Init
  <2>2. signatures \subseteq Keys \cup {Legacy} /\ shown \subseteq Keys
    BY DEF Init
  <2>3. txn \in [Threads -> Txns] /\ cache \in [Processes -> Anchors]
    BY NilIsNoKey DEF Init, Anchors
  <2> QED
    BY <2>1, <2>2, <2>3, KeyAssumption DEF Init, TypeOK, Anchors
<1>2. \A t \in Threads : txn[t] = Idle /\ ~Provisions(t) /\ ~Uses(t)
  BY DEF Init, Provisions, Uses, Idle, Doing
<1>3. LockHeld /\ AnchorRead /\ KeyChecked
  BY <1>2 DEF Init, LockHeld, AnchorRead, KeyChecked, Idle, Doing
<1>4. OnePair /\ OneAuthority /\ GenuineAccepted
  BY DEF Init, OnePair, OneAuthority, GenuineAccepted, Protected
<1> QED
  BY <1>1, <1>3, <1>4 DEF Held, KeysHeld

\* Beginning: the thread has read the anchor under the lock its handler takes.
LEMMA HeldBegin ==
  ASSUME Held, NEW t \in Threads,
         \/ StartOpen(t) \/ StartReconcile(t) \/ ReadKey(t)
         \/ \E op \in {"token", "cast"} : StartUse(t, op)
  PROVE  Held'
<1> USE KeyAssumption, NilIsNoKey
<1>1. PICK op \in {"open", "reconcile", "token", "cast", "key"} :
        /\ Begin(t, op) /\ recovery = FALSE
        /\ op \in {"open", "reconcile"} => CanOwnRow(t)
        /\ op \in {"token", "cast"} => CanShareRow(t)
        /\ op \in {"token", "cast", "key"} => anchor # Nil
  BY DEF StartOpen, StartReconcile, MayReconcile, StartUse, ReadKey, MayUse, Held, TypeOK
<1> DEFINE b == Doing(op, "begun", anchor, Nil)
<1>2. txn' = [txn EXCEPT ![t] = b] /\ UNCHANGED <<row, store, seen>>
  BY <1>1 DEF Begin
<1>3. b \in Txns
  BY <1>1 DEF Doing, Txns, Held, TypeOK, Anchors
<1>4. TypeOK'
  BY <1>2, <1>3 DEF Held, TypeOK, row, store, seen
<1>5. txn'[t] = b /\ \A u \in Threads \ {t} : txn'[u] = txn[u]
  BY <1>2 DEF Held, TypeOK
<1> HIDE DEF b
<1>6. b.op = op /\ b.pc = "begun" /\ b.expected = anchor
  BY DEF b, Doing
<1>7. LockHeld'
  BY <1>1, <1>2, <1>5, <1>6
     DEF Held, KeysHeld, LockHeld, Provisions, Uses, CanOwnRow, CanShareRow, row
<1>8. AnchorRead'
  BY <1>1, <1>2, <1>5, <1>6
     DEF Held, KeysHeld, AnchorRead, Provisions, Protected, row, store
<1>9. KeyChecked'
  BY <1>2, <1>5, <1>6 DEF Held, KeysHeld, KeyChecked, store
<1>10. OnePair' /\ OneAuthority' /\ GenuineAccepted'
  BY <1>2 DEF Held, KeysHeld, OnePair, OneAuthority, GenuineAccepted, Protected, row, store, seen
<1> QED
  BY <1>4, <1>7, <1>8, <1>9, <1>10 DEF Held, KeysHeld

\* A thread that has ended holds no lock and expects nothing.
LEMMA Ended ==
  ASSUME Held, NEW t \in Threads, End(t), UNCHANGED <<row, store>>
  PROVE  /\ txn' \in [Threads -> Txns]
         /\ LockHeld' /\ AnchorRead' /\ KeyChecked' /\ OnePair'
<1>1. /\ txn'[t] = Idle /\ \A u \in Threads \ {t} : txn'[u] = txn[u]
      /\ txn' \in [Threads -> Txns]
  BY NilIsNoKey DEF End, Held, TypeOK
<1>2. LockHeld'
  BY <1>1 DEF Held, KeysHeld, LockHeld, Provisions, Uses, Idle, Doing, row
<1>3. AnchorRead'
  BY <1>1 DEF Held, KeysHeld, AnchorRead, Provisions, Idle, Doing, Protected, row, store
<1>4. KeyChecked'
  BY <1>1 DEF Held, KeysHeld, KeyChecked, Idle, Doing, store
<1>5. OnePair'
  BY DEF Held, KeysHeld, OnePair, row, store
<1> QED
  BY <1>1, <1>2, <1>3, <1>4, <1>5

\* A thread past ensure_election_blind_signing_key that expected a key has the
\* anchored one, and loads it again.
LEMMA ReadyKey ==
  ASSUME Held, NEW t \in Threads, txn[t].pc \in {"ready", "signed"},
         txn[t].op \in {"token", "cast", "key"}
  PROVE  /\ recovery = FALSE /\ txn[t].key \in Keys
         /\ txn[t].key = txn[t].expected
         /\ Protected => txn[t].key = anchor
         /\ txn[t].pc = "ready" => Loaded(t) = txn[t].key
<1> USE NilIsNoKey
<1>1. txn[t].key \in Keys /\ txn[t].expected \in Keys
  BY Shapes DEF Held
<1>2. txn[t].key = txn[t].expected /\ (txn[t].pc = "ready" => cache[Home[t]] = txn[t].key)
  BY <1>1 DEF Held, KeysHeld, KeyChecked
<1>3. Protected => anchor = txn[t].expected
  BY <1>1 DEF Held, KeysHeld, AnchorRead
<1>4. txn[t] # Idle
  BY DEF Idle, Doing
<1>5. recovery = FALSE
  BY <1>4 DEF Held, KeysHeld, AnchorRead, TypeOK
<1> QED
  BY <1>1, <1>2, <1>3, <1>5 DEF Loaded

\* Issuing, redeeming and showing: all of it is the anchored key.
LEMMA HeldUse ==
  ASSUME Held, NEW t \in Threads,
         CommitToken(t) \/ ShowKey(t) \/ Abort(t) \/ \E s \in signatures : AnswerCast(t, s)
  PROVE  Held'
<1>1. End(t) /\ UNCHANGED <<row, store>>
  BY DEF CommitToken, ShowKey, Abort, AnswerCast
<1>2. txn' \in [Threads -> Txns] /\ LockHeld' /\ AnchorRead' /\ KeyChecked' /\ OnePair'
  BY <1>1, Ended
<1>3. /\ authorized' \in BOOLEAN /\ refused' \in BOOLEAN
      /\ signatures' \subseteq Keys \cup {Legacy} /\ shown' \subseteq Keys
      /\ OneAuthority' /\ GenuineAccepted'
  <2>1. CASE CommitToken(t)
    <3>1. txn[t].pc = "signed" /\ txn[t].op = "token"
      BY <2>1, Shapes DEF CommitToken, Held
    <3>2. recovery = FALSE /\ txn[t].key \in Keys /\ (Protected => txn[t].key = anchor)
      BY <3>1, ReadyKey
    <3>3. authorized' = TRUE /\ signatures' = signatures \cup {txn[t].key}
          /\ UNCHANGED <<shown, refused>>
      BY <2>1 DEF CommitToken
    <3> QED
      BY <1>1, <3>2, <3>3
         DEF Held, TypeOK, KeysHeld, OneAuthority, GenuineAccepted, Protected, row, store
  <2>2. CASE ShowKey(t)
    <3>1. recovery = FALSE /\ txn[t].key \in Keys /\ (Protected => txn[t].key = anchor)
      BY <2>2, ReadyKey DEF ShowKey
    <3>2. shown' = shown \cup {txn[t].key} /\ UNCHANGED <<authorized, signatures, refused>>
      BY <2>2 DEF ShowKey
    <3> QED
      BY <1>1, <3>1, <3>2
         DEF Held, TypeOK, KeysHeld, OneAuthority, GenuineAccepted, Protected, row, store
  <2>3. CASE Abort(t)
    BY <1>1, <2>3
       DEF Abort, Held, TypeOK, KeysHeld, OneAuthority, GenuineAccepted, Protected, row, store, seen
  <2>4. CASE \E s \in signatures : AnswerCast(t, s)
    <3>1. PICK s \in signatures : AnswerCast(t, s)
      BY <2>4
    <3>2. recovery = FALSE /\ (Protected => Loaded(t) = anchor)
      BY <3>1, ReadyKey DEF AnswerCast
    <3>3. Protected => s = Loaded(t)
      BY <3>2 DEF Held, KeysHeld, OneAuthority
    <3>4. refused' = (refused \/ s # Loaded(t)) /\ UNCHANGED <<authorized, signatures, shown>>
      BY <3>1 DEF AnswerCast
    <3>5. refused' \in BOOLEAN /\ (Protected /\ ~refused => ~refused')
      BY <3>3, <3>4 DEF Held, TypeOK
    <3> QED
      BY <1>1, <3>4, <3>5
         DEF Held, TypeOK, KeysHeld, OneAuthority, GenuineAccepted, Protected, row, store
  <2> QED
    BY <2>1, <2>2, <2>3, <2>4
<1>4. TypeOK'
  BY <1>1, <1>2, <1>3 DEF Held, TypeOK, row, store
<1> QED
  BY <1>2, <1>3, <1>4 DEF Held, KeysHeld

\* Going on keeps the locks and what the thread expects.
LEMMA Moved ==
  ASSUME Held, NEW t \in Threads, txn[t] # Idle,
         NEW pc, NEW key, Goto(t, pc, key), UNCHANGED <<row, losses>>
  PROVE  /\ txn'[t] = Doing(txn[t].op, pc, txn[t].expected, key)
         /\ \A u \in Threads \ {t} : txn'[u] = txn[u]
         /\ Doing(txn[t].op, pc, txn[t].expected, key) \in Txns => txn' \in [Threads -> Txns]
         /\ LockHeld' /\ AnchorRead'
<1>1. /\ txn'[t] = Doing(txn[t].op, pc, txn[t].expected, key)
      /\ \A u \in Threads \ {t} : txn'[u] = txn[u]
      /\ Doing(txn[t].op, pc, txn[t].expected, key) \in Txns => txn' \in [Threads -> Txns]
  BY DEF Goto, Held, TypeOK
<1>2. txn'[t].op = txn[t].op /\ txn'[t].expected = txn[t].expected
  BY <1>1 DEF Doing
<1>3. \A u \in Threads : txn'[u].op = txn[u].op /\ txn'[u].expected = txn[u].expected
  BY <1>1, <1>2
<1>4. LockHeld'
  BY <1>3 DEF Held, KeysHeld, LockHeld, Provisions, Uses, row
<1>5. recovery = FALSE
  BY DEF Held, KeysHeld, AnchorRead, TypeOK
<1>6. AnchorRead'
  BY <1>3, <1>5 DEF Held, KeysHeld, AnchorRead, Provisions, Protected, row
<1> QED
  BY <1>1, <1>4, <1>6

\* What voters have is a matter of the row and of the losses.
LEMMA SeenKept ==
  ASSUME Held, UNCHANGED <<row, losses, seen>>
  PROVE  OneAuthority' /\ GenuineAccepted'
  BY DEF Held, KeysHeld, OneAuthority, GenuineAccepted, Protected, row, seen

\* Generating a pair, and signing with the cached one.
LEMMA HeldGenerate ==
  ASSUME Held, NEW t \in Threads, Generate(t) \/ Sign(t)
  PROVE  Held'
<1> USE KeyAssumption, NilIsNoKey
<1>1. /\ UNCHANGED <<row, dir, cache, losses, seen>> /\ made' \in 0..MaxKeys
      /\ txn[t] # Idle
  BY DEF Generate, MustGenerate, Sign, store, Held, TypeOK, Idle, Doing
<1>2. PICK pc \in {"publishing", "signed"}, key \in Keys :
        /\ Goto(t, pc, key) /\ Doing(txn[t].op, pc, txn[t].expected, key) \in Txns
        /\ pc = "signed" => key = txn[t].expected
  <2>1. CASE Generate(t)
    <3>1. made + 1 \in Keys /\ Provisions(t) /\ txn[t].expected = Nil
      BY <2>1 DEF Generate, MustGenerate, Held, TypeOK, Keys
    <3> QED
      BY <2>1, <3>1 DEF Generate, Doing, Txns, Provisions
  <2>2. CASE Sign(t)
    <3>1. txn[t].op = "token" /\ Loaded(t) = txn[t].expected /\ Loaded(t) \in Keys
      BY <2>2, ReadyKey DEF Sign
    <3> QED
      BY <2>2, <3>1 DEF Sign, Doing, Txns
  <2> QED
    BY <2>1, <2>2
<1>3. /\ txn'[t] = Doing(txn[t].op, pc, txn[t].expected, key)
      /\ \A u \in Threads \ {t} : txn'[u] = txn[u]
      /\ txn' \in [Threads -> Txns] /\ LockHeld' /\ AnchorRead'
  BY <1>1, <1>2, Moved
<1>4. TypeOK'
  BY <1>1, <1>3 DEF Held, TypeOK, row, seen
<1>5. KeyChecked'
  BY <1>1, <1>2, <1>3 DEF Held, KeysHeld, KeyChecked, Doing
<1>6. OnePair' /\ OneAuthority' /\ GenuineAccepted'
  BY <1>1, SeenKept DEF Held, KeysHeld, OnePair, row
<1> QED
  BY <1>3, <1>4, <1>5, <1>6 DEF Held, KeysHeld

\* Publishing adds a pair only where there is none, so nothing that was loaded
\* or anchored is replaced.
LEMMA HeldPublish ==
  ASSUME Held, NEW t \in Threads, Publish(t)
  PROVE  Held'
<1> USE KeyAssumption, NilIsNoKey
<1>1. /\ UNCHANGED <<row, cache, made, losses, seen>> /\ txn[t] # Idle
      /\ Provisions(t) /\ txn[t].expected = Nil /\ txn[t].key \in Keys
      /\ dir' = (IF dir = Nil THEN txn[t].key ELSE dir) /\ Goto(t, "loading", Nil)
  BY Shapes DEF Publish, Held, Idle, Doing
<1>2. Doing(txn[t].op, "loading", txn[t].expected, Nil) \in Txns
  BY <1>1 DEF Doing, Txns, Provisions
<1>3. /\ txn'[t] = Doing(txn[t].op, "loading", txn[t].expected, Nil)
      /\ \A u \in Threads \ {t} : txn'[u] = txn[u]
      /\ txn' \in [Threads -> Txns] /\ LockHeld' /\ AnchorRead'
  BY <1>1, <1>2, Moved
<1>4. TypeOK'
  BY <1>1, <1>3 DEF Held, TypeOK, Anchors, row, seen
<1>5. KeyChecked'
  BY <1>1, <1>3 DEF Held, KeysHeld, KeyChecked, Doing
<1>6. OnePair'
  BY <1>1 DEF Held, KeysHeld, OnePair, TypeOK, row
<1>7. OneAuthority' /\ GenuineAccepted'
  BY <1>1, SeenKept
<1> QED
  BY <1>3, <1>4, <1>5, <1>6, <1>7 DEF Held, KeysHeld

\* Loading leaves a filled cache as it is.
LEMMA HeldLoad ==
  ASSUME Held, NEW t \in Threads, Load(t)
  PROVE  Held'
<1> USE KeyAssumption, NilIsNoKey
<1> DEFINE k == Loaded(t)
<1>1. /\ UNCHANGED <<row, dir, made, losses, seen>> /\ txn[t] # Idle
      /\ cache' = [cache EXCEPT ![Home[t]] = k] /\ Home[t] \in Processes
      /\ k \in Anchors
  BY Shapes DEF Load, Loaded, Held, TypeOK, Idle, Doing
<1>2. \A p \in Processes : cache[p] # Nil => cache'[p] = cache[p]
  BY <1>1 DEF Loaded, Held, TypeOK
<1>3. cache' \in [Processes -> Anchors] /\ cache'[Home[t]] = k
  BY <1>1 DEF Held, TypeOK
<1>4. OnePair'
  BY <1>1, <1>3 DEF Loaded, Held, KeysHeld, OnePair, TypeOK, row
<1>5. OneAuthority' /\ GenuineAccepted'
  BY <1>1, SeenKept
<1>6. \A u \in Threads : txn[u].pc = "ready" => cache'[Home[u]] = txn[u].key
  BY <1>2, Shapes DEF Held, KeysHeld, KeyChecked
<1>7. txn' \in [Threads -> Txns] /\ LockHeld' /\ AnchorRead' /\ KeyChecked'
  <2>1. CASE Matches(k, txn[t].expected)
    <3>1. Goto(t, "ready", k)
      BY <2>1 DEF Load
    <3>2. k \in Keys /\ (txn[t].expected # Nil => k = txn[t].expected)
      BY <1>1, <2>1 DEF Matches, Anchors
    <3>3. Doing(txn[t].op, "ready", txn[t].expected, k) \in Txns
      <4>1. txn[t] \in Txns /\ txn[t].pc \in {"begun", "loading"}
        BY DEF Load, Held, TypeOK
      <4>2. \/ Provisions(t) /\ txn[t].expected \in Anchors
            \/ txn[t].op \in {"token", "cast", "key"} /\ txn[t].expected \in Keys
        BY <4>1 DEF Txns, Provisions, Anchors, Idle, Doing
      <4> QED
        BY <3>2, <4>2 DEF Doing, Txns, Provisions
    <3>4. /\ txn'[t] = Doing(txn[t].op, "ready", txn[t].expected, k)
          /\ \A u \in Threads \ {t} : txn'[u] = txn[u]
          /\ txn' \in [Threads -> Txns] /\ LockHeld' /\ AnchorRead'
      BY <1>1, <3>1, <3>3, Moved
    <3>5. KeyChecked'
      BY <1>3, <1>6, <3>2, <3>4 DEF Held, KeysHeld, KeyChecked, Doing
    <3> QED
      BY <3>4, <3>5
  <2>2. CASE ~Matches(k, txn[t].expected)
    <3>1. End(t)
      BY <2>2 DEF Load
    <3>2. /\ txn'[t] = Idle /\ \A u \in Threads \ {t} : txn'[u] = txn[u]
          /\ txn' \in [Threads -> Txns]
      BY <3>1 DEF End, Held, TypeOK
    <3>3. LockHeld'
      BY <1>1, <3>2 DEF Held, KeysHeld, LockHeld, Provisions, Uses, Idle, Doing, row
    <3>4. AnchorRead'
      BY <1>1, <3>2 DEF Held, KeysHeld, AnchorRead, Provisions, Idle, Doing, Protected, row
    <3>5. KeyChecked'
      BY <1>6, <3>2 DEF Held, KeysHeld, KeyChecked, Idle, Doing
    <3> QED
      BY <3>2, <3>3, <3>4, <3>5
  <2> QED
    BY <2>1, <2>2
<1>8. TypeOK'
  BY <1>1, <1>3, <1>7 DEF Held, TypeOK, row, seen
<1> QED
  BY <1>4, <1>5, <1>7, <1>8 DEF Held, KeysHeld

\* The anchor is written by a thread that found none, and there is none until
\* it commits, or the key is the only one there is.
LEMMA AnchorWritten ==
  ASSUME Held, NEW t \in Threads, CommitAnchor(t)
  PROVE  /\ anchor' \in Anchors /\ (Protected /\ anchor # Nil => anchor' = anchor)
         /\ losses = 0 => anchor' = dir \/ anchor' = anchor
<1> USE NilIsNoKey
<1>1. txn[t].key \in Keys /\ cache[Home[t]] = txn[t].key /\ Home[t] \in Processes
  BY Shapes DEF CommitAnchor, Held, KeysHeld, KeyChecked
<1>2. losses = 0 => dir = txn[t].key
  BY <1>1 DEF Held, KeysHeld, OnePair
<1>3. locking /\ txn[t].expected = Nil => anchor = Nil
  BY DEF CommitAnchor, Held, KeysHeld, AnchorRead
<1>4. losses = 0 /\ anchor # Nil => anchor = dir
  BY DEF Held, KeysHeld, OnePair
<1> QED
  BY <1>1, <1>2, <1>3, <1>4 DEF CommitAnchor, Protected, Held, TypeOK, Anchors

LEMMA HeldAnchor ==
  ASSUME Held, NEW t \in Threads, CommitAnchor(t)
  PROVE  Held'
<1> USE KeyAssumption, NilIsNoKey
<1>1. /\ UNCHANGED <<locking, recovery, store, seen>> /\ open' = TRUE /\ Provisions(t)
      /\ txn'[t] = Idle /\ \A u \in Threads \ {t} : txn'[u] = txn[u]
      /\ txn' \in [Threads -> Txns]
  BY DEF CommitAnchor, End, Held, TypeOK
<1>2. /\ anchor' \in Anchors /\ (Protected /\ anchor # Nil => anchor' = anchor)
      /\ losses = 0 => anchor' = dir \/ anchor' = anchor
  BY AnchorWritten
<1>3. recovery = FALSE
  <2>1. txn[t] # Idle
    BY DEF CommitAnchor, Idle, Doing
  <2> QED
    BY <2>1 DEF Held, KeysHeld, AnchorRead, TypeOK
<1>4. TypeOK'
  BY <1>1, <1>2 DEF Held, TypeOK, store, seen
<1>5. LockHeld'
  BY <1>1 DEF Held, KeysHeld, LockHeld, Provisions, Uses, Idle, Doing
<1>6. AnchorRead'
  <2> SUFFICES ASSUME NEW u \in Threads
               PROVE  /\ Protected' /\ txn'[u].expected # Nil => anchor' = txn'[u].expected
                      /\ locking' /\ Provisions(u)' /\ txn'[u].expected = Nil => anchor' = Nil
                      /\ recovery' => txn'[u] = Idle
    BY DEF AnchorRead
  <2>1. CASE u = t
    BY <1>1, <1>3, <2>1 DEF Provisions, Idle, Doing
  <2>2. CASE u # t
    <3>1. txn'[u] = txn[u] /\ (Protected' <=> Protected)
      BY <1>1, <2>2 DEF Protected, store
    <3>2. locking => ~Provisions(u)
      BY <1>1, <2>2 DEF Held, KeysHeld, LockHeld
    <3>3. Protected /\ txn[u].expected # Nil => anchor = txn[u].expected
      BY DEF Held, KeysHeld, AnchorRead
    <3> QED
      BY <1>1, <1>2, <1>3, <3>1, <3>2, <3>3 DEF Provisions
  <2> QED
    BY <2>1, <2>2
<1>7. KeyChecked'
  BY <1>1 DEF Held, KeysHeld, KeyChecked, Idle, Doing, store
<1>8. OnePair'
  BY <1>1, <1>2 DEF Held, KeysHeld, OnePair, store
<1>9. OneAuthority'
  <2>1. Protected => shown \subseteq {anchor} /\ signatures \subseteq {anchor}
    BY <1>3 DEF Held, KeysHeld, OneAuthority
  <2>2. shown \subseteq Keys /\ signatures \subseteq Keys \cup {Legacy} /\ Legacy # Nil
    BY DEF Held, TypeOK, Legacy
  <2>3. Protected => shown \subseteq {anchor'} /\ signatures \subseteq {anchor'}
    BY <1>2, <2>1, <2>2
  <2> QED
    BY <1>1, <1>3, <2>3 DEF OneAuthority, Protected, store, seen
<1>10. GenuineAccepted'
  BY <1>1 DEF Held, KeysHeld, GenuineAccepted, Protected, store, seen
<1> QED
  BY <1>4, <1>5, <1>6, <1>7, <1>8, <1>9, <1>10 DEF Held, KeysHeld

\* A process that starts again has lost its cache and its requests.
LEMMA HeldRestart ==
  ASSUME Held, NEW p \in Processes, Restart(p)
  PROVE  Held'
<1> USE KeyAssumption, NilIsNoKey
<1>1. /\ UNCHANGED <<row, dir, made, losses, seen>> /\ cache' = [cache EXCEPT ![p] = Nil]
      /\ \A t \in Threads : txn'[t] = (IF Home[t] = p THEN Idle ELSE txn[t])
      /\ txn' \in [Threads -> Txns]
  BY DEF Restart, Held, TypeOK
<1>2. TypeOK'
  BY <1>1 DEF Held, TypeOK, Anchors, row, seen
<1>3. LockHeld'
  BY <1>1 DEF Held, KeysHeld, LockHeld, Provisions, Uses, Idle, Doing, row
<1>4. AnchorRead'
  BY <1>1 DEF Held, KeysHeld, AnchorRead, Provisions, Idle, Doing, Protected, row
<1>5. KeyChecked'
  BY <1>1 DEF Held, KeysHeld, KeyChecked, Idle, Doing, TypeOK
<1>6. OnePair'
  BY <1>1 DEF Held, KeysHeld, OnePair, TypeOK, row
<1>7. OneAuthority' /\ GenuineAccepted'
  BY <1>1, SeenKept
<1> QED
  BY <1>2, <1>3, <1>4, <1>5, <1>6, <1>7 DEF Held, KeysHeld

\* Whatever happens to the files, the row locks still protect the anchor.
LEMMA HeldDisturb ==
  ASSUME Held, NEW k \in 1 .. made \cup {Nil}, DisturbFiles(k)
  PROVE  Held'
<1> USE KeyAssumption, NilIsNoKey
<1>1. /\ UNCHANGED <<row, cache, made, seen, txn>>
      /\ losses' \in 1 .. MaxLosses /\ (Protected' => Protected) /\ dir' \in Anchors
  BY DEF DisturbFiles, Held, TypeOK, Protected, row, Anchors, Keys
<1>2. TypeOK'
  BY <1>1 DEF Held, TypeOK, row, seen
<1>3. LockHeld'
  BY <1>1 DEF Held, KeysHeld, LockHeld, Provisions, Uses, row
<1>4. AnchorRead'
  BY <1>1 DEF Held, KeysHeld, AnchorRead, Provisions, row
<1>5. KeyChecked' /\ OnePair'
  BY <1>1 DEF Held, KeysHeld, KeyChecked, OnePair
<1>6. OneAuthority' /\ GenuineAccepted'
  BY <1>1 DEF Held, KeysHeld, OneAuthority, GenuineAccepted, row, seen
<1> QED
  BY <1>2, <1>3, <1>4, <1>5, <1>6 DEF Held, KeysHeld

LEMMA HeldStep == Held /\ [Next]_vars => Held'
<1> SUFFICES ASSUME Held, [Next]_vars PROVE Held'
  OBVIOUS
<1>1. ASSUME NEW t \in Threads, Step(t) PROVE Held'
  BY <1>1, HeldBegin, HeldUse, HeldGenerate, HeldPublish, HeldLoad, HeldAnchor DEF Step
<1>2. CASE UNCHANGED vars
  <2>1. TypeOK'
    BY <1>2 DEF vars, row, store, seen, Held, TypeOK
  <2>2. LockHeld' /\ AnchorRead'
    BY <1>2 DEF vars, row, store, seen, Held, KeysHeld, LockHeld, AnchorRead,
                Provisions, Uses, Protected
  <2>3. KeyChecked' /\ OnePair'
    BY <1>2 DEF vars, row, store, seen, Held, KeysHeld, KeyChecked, OnePair
  <2>4. OneAuthority' /\ GenuineAccepted'
    BY <1>2, SeenKept DEF vars, store
  <2> QED
    BY <2>1, <2>2, <2>3, <2>4 DEF Held, KeysHeld
<1> QED
  BY <1>1, <1>2, HeldRestart, HeldDisturb DEF Next

(* Past ensure_election_blind_signing_key a handler holds a key, and every   *)
(* file, cache and request keeps its type.                                   *)
THEOREM KeysTyped == Spec => []TypeOK
<1>1. Held => TypeOK
  BY DEF Held
<1> QED
  BY <1>1, HeldInit, HeldStep, PTL DEF Spec

(* A key is published before it is anchored (generate_blind_signing_keypair, *)
(* open_election, reconcile_open_election_keys).                             *)
THEOREM PublishedBeforeAnchored == Spec => []AnchorPublished
<1>1. Held => AnchorPublished
  BY DEF Held, KeysHeld, OnePair, AnchorPublished
<1> QED
  BY <1>1, HeldInit, HeldStep, PTL DEF Spec

(* Voters see and hold material of the anchored key only: with row locks even*)
(* when key files are lost or replaced, without them while they are not.     *)
THEOREM OneSigningAuthority == Spec => []OneAuthority
<1>1. Held => OneAuthority
  BY DEF Held, KeysHeld
<1> QED
  BY <1>1, HeldInit, HeldStep, PTL DEF Spec

(* cast_anonymous_ballot never answers "Invalid signature" to a signature    *)
(* that request_blind_token issued.                                          *)
THEOREM SignaturesStayGood == Spec => []GenuineAccepted
<1>1. Held => GenuineAccepted
  BY DEF Held, KeysHeld
<1> QED
  BY <1>1, HeldInit, HeldStep, PTL DEF Spec

LEMMA AnchorStays ==
  ASSUME Held, Next, Protected', anchor # Nil
  PROVE  anchor' = anchor
<1>1. CASE \E t \in Threads : CommitAnchor(t)
  <2>1. PICK t \in Threads : CommitAnchor(t)
    BY <1>1
  <2>2. Protected
    BY <2>1 DEF CommitAnchor, Protected, store
  <2> QED
    BY <2>1, <2>2, AnchorWritten
<1>2. CASE ~\E t \in Threads : CommitAnchor(t)
  <2>1. ASSUME NEW t \in Threads, Step(t) PROVE anchor' = anchor
    BY <1>2, <2>1 DEF Step, StartOpen, StartReconcile, StartUse, ReadKey, Begin, Generate,
       Publish, Load, Sign, CommitToken, ShowKey, AnswerCast, Abort, row
  <2> QED
    BY <2>1 DEF Next, Restart, DisturbFiles, row
<1> QED
  BY <1>1, <1>2

(* An anchored fingerprint is never rotated (open_election,                  *)
(* reconcile_open_election_keys).                                            *)
THEOREM AnchorNeverRotates == Spec => AnchorKept
<1>1. Held /\ [Next]_vars => [Protected' /\ anchor # Nil => anchor' = anchor]_vars
  BY AnchorStays
<1> QED
  BY <1>1, HeldInit, HeldStep, PTL DEF Spec, AnchorKept

-----------------------------------------------------------------------------
(* The upgrade.  What a database says at every moment, committed or not, and *)
(* what is done of the plan when it is at a statement.                       *)

\* Who had voted before the upgrade, and whether voters may hold old signatures
Everyone == legacy.linked \cup legacy.voted \cup legacy.receipts
Marks    == legacy.tokens /\ legacy.election = "open"

\* What the new models say of the rows
Finished(d) ==
  /\ d.scoped /\ d.token = "set" /\ ~d.tokens /\ d.linked = {}
  /\ Everyone \subseteq d.receipts /\ (d.recovery <=> Marks)

Sound(d) ==
  /\ d \in Databases
  /\ Everyone \subseteq d.linked \cup d.voted \cup d.receipts
  /\ d.election = "open" <=> legacy.election = "open"
  /\ d.shape["vote"] \in {"absent", "current"} => Finished(d)
  /\ d.shape["vote"] \in {"scoped", "current"} => d.shape["election"] \notin {"absent", "legacy"}
  /\ d.shape["vote"] = "absent" => d.shape["election"] # "legacy"
  /\ ~Marked(d) => (d.tokens <=> legacy.tokens)

\* What the statements before number k have done
Progress(d, k) ==
  /\ k >= 2 => d.token # "absent"
  /\ k >= 4 => d.shape["election"] \notin {"absent", "legacy"}
  /\ k <= 12 => d.shape["vote"] \in {"legacy", "scoped"}
  /\ k >= 6 => d.scoped
  /\ k >= 7 => Everyone \subseteq d.receipts
  /\ k <= 8 => (d.tokens <=> legacy.tokens)
  /\ k >= 8 => (d.recovery <=> Marks)
  /\ k >= 9 => ~d.tokens
  /\ k >= 12 => d.linked = {}
  /\ \A i \in 9 .. 18 : k > i /\ Plan[i] \in Tables => d.shape[Plan[i]] = "current"

\* Until the stamp the key store is as it was.
Fresh ==
  ~stamped =>
    /\ open = (legacy.election = "open") /\ recovery = FALSE /\ signatures = {}
    /\ anchor = Nil /\ dir = Nil /\ cache = [p \in Processes |-> Nil]
    /\ made = 0 /\ losses = 0
    /\ authorized = FALSE /\ shown = {} /\ refused = FALSE
    /\ txn = [t \in Threads |-> Idle]

Upgrading ==
  /\ Sound(legacy) /\ Sound(disk) /\ Sound(work)
  /\ at \in {Nil} \cup 0 .. 19 /\ stamped \in BOOLEAN
  /\ at = Nil => work = disk
  /\ at \in 1 .. 19 => Progress(work, at)
  /\ stamped => at = Nil
  /\ Fresh

LEMMA PlanSteps ==
  /\ Len(Plan) = 19
  /\ Plan[1] = "add_voter_token" /\ Plan[2] = "fill_voter_token"
  /\ Plan[3] = "add_columns" /\ Plan[4] = "import_election"
  /\ Plan[5] = "scope_rows" /\ Plan[6] = "issue_receipts"
  /\ Plan[7] = "quarantine" /\ Plan[8] = "delete_tokens"
  /\ Plan[9] = "election" /\ Plan[10] = "candidate"
  /\ Plan[11] = "drop_user_id" /\ Plan[12] = "vote"
  /\ Plan[13] = "vote_receipt" /\ Plan[14] = "drop_has_voted"
  /\ Plan[15] = "blind_signature_token" /\ Plan[16] = "spent_ballot_nullifier"
  /\ Plan[17] = "result_signing_public_key" /\ Plan[18] = "signed_election_result"
  BY DEF Plan

LEMMA Reshaped ==
  ASSUME NEW d \in Databases, NEW ts \in SUBSET Tables, NEW s \in {"scoped", "current"},
         NEW e, e = Reshape(d, ts, s)
  PROVE  /\ e \in Databases
         /\ \A t \in Tables : e.shape[t] = IF t \in ts THEN s ELSE d.shape[t]
         /\ e.election = d.election /\ (e.recovery <=> d.recovery) /\ e.token = d.token
         /\ e.linked = d.linked /\ e.voted = d.voted /\ e.receipts = d.receipts
         /\ (e.scoped <=> d.scoped) /\ (e.tokens <=> d.tokens)
<1> DEFINE f == [t \in Tables |-> IF t \in ts THEN s ELSE d.shape[t]]
<1>1. f \in [Tables -> {"absent", "legacy", "scoped", "current"}]
  BY DEF Databases
<1>2. e = [d EXCEPT !.shape = f]
  BY DEF Reshape
<1>3. \A t \in Tables : f[t] = IF t \in ts THEN s ELSE d.shape[t]
  OBVIOUS
<1> HIDE DEF f
<1>4. e.shape = f /\ e \in Databases
  BY <1>1, <1>2 DEF Databases
<1> QED
  BY <1>2, <1>3, <1>4 DEF Databases
\* Whoever had voted is on record, whichever statement comes next.
LEMMA RowsStep ==
  ASSUME NEW k \in 1 .. 18, NEW d, NEW e, Sound(d), Progress(d, k), e = Effect(Plan[k], d),
         k \in {1, 2, 4, 5, 6, 7, 8, 11, 14}
  PROVE  Sound(e) /\ Progress(e, k + 1)
<1>0. d \in Databases
  BY DEF Sound
<1>1. /\ e \in Databases /\ e.shape = d.shape
      /\ e.election = "open" <=> d.election = "open"
      /\ e.recovery <=> IF k = 7 THEN d.tokens /\ d.election = "open" ELSE d.recovery
      /\ e.tokens <=> d.tokens /\ k # 8
      /\ e.scoped <=> d.scoped \/ k = 5
      /\ e.linked = (IF k = 11 THEN {} ELSE d.linked)
      /\ e.voted = (IF k = 14 THEN {} ELSE d.voted)
      /\ e.receipts = (IF k = 6 THEN d.receipts \cup d.linked \cup d.voted ELSE d.receipts)
      /\ e.token = (IF k = 1 THEN "null" ELSE IF k = 2 THEN "set" ELSE d.token)
  <2>1. CASE k = 1
    <3>1. e = [d EXCEPT !.token = "null"]
      BY <2>1, PlanSteps DEF Effect, ImportElection, IssueReceipts, Quarantine
    <3> QED
      BY <1>0, <2>1, <3>1 DEF Databases
  <2>2. CASE k = 2
    <3>1. e = [d EXCEPT !.token = "set"]
      BY <2>2, PlanSteps DEF Effect, ImportElection, IssueReceipts, Quarantine
    <3> QED
      BY <1>0, <2>2, <3>1 DEF Databases
  <2>3. CASE k = 4
    <3>1. e = [d EXCEPT !.election = IF d.election = "none" THEN "draft" ELSE d.election]
      BY <2>3, PlanSteps DEF Effect, ImportElection, IssueReceipts, Quarantine
    <3> QED
      BY <1>0, <2>3, <3>1 DEF Databases
  <2>4. CASE k = 5
    <3>1. PICK b \in BOOLEAN : b = TRUE /\ e = [d EXCEPT !.scoped = b]
      BY <2>4, PlanSteps DEF Effect, Quarantine
    <3>2. e \in Databases /\ e.scoped = b
      BY <1>0, <3>1 DEF Databases
    <3>3. e.scoped <=> TRUE
      BY <3>1, <3>2
    <3>4. /\ e.shape = d.shape /\ e.election = d.election /\ e.token = d.token
          /\ e.linked = d.linked /\ e.voted = d.voted /\ e.receipts = d.receipts
          /\ (e.recovery <=> d.recovery) /\ (e.tokens <=> d.tokens)
      BY <1>0, <3>1 DEF Databases
    <3> QED
      BY <2>4, <3>2, <3>3, <3>4
  <2>5. CASE k = 6
    <3>1. e = [d EXCEPT !.receipts = (d.receipts \cup d.linked) \cup d.voted]
      BY <2>5, PlanSteps DEF Effect, ImportElection, IssueReceipts, Quarantine
    <3> QED
      BY <1>0, <2>5, <3>1 DEF Databases
  <2>6. CASE k = 7
    <3>1. PICK b \in BOOLEAN : b = (d.tokens /\ d.election = "open") /\ e = [d EXCEPT !.recovery = b]
      BY <2>6, PlanSteps DEF Effect, Quarantine
    <3>2. e \in Databases /\ e.recovery = b
      BY <1>0, <3>1 DEF Databases
    <3>3. e.recovery <=> (d.tokens /\ d.election = "open")
      BY <3>1, <3>2
    <3>4. /\ e.shape = d.shape /\ e.election = d.election /\ e.token = d.token
          /\ e.linked = d.linked /\ e.voted = d.voted /\ e.receipts = d.receipts
          /\ (e.scoped <=> d.scoped) /\ (e.tokens <=> d.tokens)
      BY <1>0, <3>1 DEF Databases
    <3> QED
      BY <2>6, <3>2, <3>3, <3>4
  <2>7. CASE k = 8
    <3>1. PICK b \in BOOLEAN : b = FALSE /\ e = [d EXCEPT !.tokens = b]
      BY <2>7, PlanSteps DEF Effect, Quarantine
    <3>2. e \in Databases /\ e.tokens = b
      BY <1>0, <3>1 DEF Databases
    <3>3. e.tokens <=> FALSE
      BY <3>1, <3>2
    <3>4. /\ e.shape = d.shape /\ e.election = d.election /\ e.token = d.token
          /\ e.linked = d.linked /\ e.voted = d.voted /\ e.receipts = d.receipts
          /\ (e.scoped <=> d.scoped) /\ (e.recovery <=> d.recovery)
      BY <1>0, <3>1 DEF Databases
    <3> QED
      BY <2>7, <3>2, <3>3, <3>4
  <2>8. CASE k = 11
    <3>1. e = [d EXCEPT !.linked = {}]
      BY <2>8, PlanSteps DEF Effect, ImportElection, IssueReceipts, Quarantine
    <3> QED
      BY <1>0, <2>8, <3>1 DEF Databases
  <2>9. CASE k = 14
    <3>1. e = [d EXCEPT !.voted = {}]
      BY <2>9, PlanSteps DEF Effect, ImportElection, IssueReceipts, Quarantine
    <3> QED
      BY <1>0, <2>9, <3>1 DEF Databases
  <2> QED
    BY <2>1, <2>2, <2>3, <2>4, <2>5, <2>6, <2>7, <2>8, <2>9
<1>2. Everyone \subseteq e.linked \cup e.voted \cup e.receipts
  BY <1>1 DEF Sound, Progress
<1>3. ~Marked(e) => (e.tokens <=> legacy.tokens)
  BY <1>1 DEF Sound, Progress, Marked
<1>4. e.shape["vote"] \in {"absent", "current"} => Finished(e)
  <2>1. CASE k \in 1 .. 12
    BY <1>1, <2>1 DEF Progress
  <2>2. CASE k = 14
    BY <1>1, <2>2, PlanSteps DEF Sound, Finished
  <2> QED
    BY <2>1, <2>2
<1>5. Sound(e)
  BY <1>1, <1>2, <1>3, <1>4 DEF Sound
<1>6. k >= 6 => Everyone \subseteq e.receipts
  BY <1>1 DEF Sound, Progress
<1>7. k >= 7 => (e.recovery <=> Marks)
  BY <1>1 DEF Sound, Progress, Marks
<1>8. \A i \in 9 .. 18 : k + 1 > i /\ Plan[i] \in Tables => e.shape[Plan[i]] = "current"
  <2>1. Plan[11] \notin Tables /\ Plan[14] \notin Tables
    BY PlanSteps DEF Tables, OldTables, NewTables
  <2> QED
    BY <1>1, <2>1 DEF Progress
<1>9. Progress(e, k + 1)
  BY <1>1, <1>6, <1>7, <1>8 DEF Progress
<1> QED
  BY <1>5, <1>9

LEMMA ShapeStep ==
  ASSUME NEW k \in 1 .. 18, NEW d, NEW e, Sound(d), Progress(d, k), e = Effect(Plan[k], d),
         k \in {3, 9, 10, 12, 13, 15, 16, 17, 18}, k = 12 => d.token # "null"
  PROVE  Sound(e) /\ Progress(e, k + 1)
<1>0. d \in Databases /\ {"vote", "election"} \subseteq OldTables /\ OldTables \subseteq Tables
  BY DEF Sound, Tables, OldTables
<1>1. PICK ts \in SUBSET Tables, s \in {"scoped", "current"} :
        /\ e = Reshape(d, ts, s)
        /\ k = 3 => ts = OldTables /\ s = "scoped"
        /\ k # 3 => ts = {Plan[k]} /\ s = "current" /\ Plan[k] \in Tables
  <2>1. CASE k = 3
    BY <2>1, <1>0, PlanSteps DEF Effect
  <2>2. CASE k # 3
    <3>1. Plan[k] \in Tables /\ e = Reshape(d, {Plan[k]}, "current")
      BY <2>2, PlanSteps DEF Effect, Tables, OldTables, NewTables
    <3> QED
      BY <2>2, <3>1
  <2> QED
    BY <2>1, <2>2
<1>2. /\ e \in Databases
      /\ \A t \in Tables : e.shape[t] = IF t \in ts THEN s ELSE d.shape[t]
      /\ e.election = d.election /\ (e.recovery <=> d.recovery) /\ e.token = d.token
      /\ e.linked = d.linked /\ e.voted = d.voted /\ e.receipts = d.receipts
      /\ (e.scoped <=> d.scoped) /\ (e.tokens <=> d.tokens)
  BY <1>0, <1>1, Reshaped
<1>3. e.shape["vote"] = IF k = 12 THEN "current" ELSE IF k = 3 THEN "scoped" ELSE d.shape["vote"]
  BY <1>0, <1>1, <1>2, PlanSteps
<1>4. e.shape["election"]
        = IF k = 9 THEN "current" ELSE IF k = 3 THEN "scoped" ELSE d.shape["election"]
  BY <1>0, <1>1, <1>2, PlanSteps
<1>5. Finished(d) => Finished(e)
  BY <1>2 DEF Finished
<1>6. e.shape["vote"] \in {"absent", "current"} => Finished(e)
  <2>1. CASE k = 12
    <3>1. d.token = "set"
      BY <1>0, <2>1 DEF Progress, Databases
    <3> QED
      BY <1>5, <2>1, <3>1 DEF Progress, Finished
  <2>2. CASE k # 12
    BY <1>3, <1>5, <2>2 DEF Sound
  <2> QED
    BY <2>1, <2>2
<1>7. ~Marked(e) => (e.tokens <=> legacy.tokens)
  BY <1>2, <1>4 DEF Sound, Progress, Marked
<1>8. Sound(e)
  BY <1>2, <1>3, <1>4, <1>6, <1>7 DEF Sound, Progress
<1>9. \A i \in 9 .. 18 : k + 1 > i /\ Plan[i] \in Tables => e.shape[Plan[i]] = "current"
  <2>1. CASE k = 3
    BY <2>1
  <2>2. CASE k # 3
    BY <1>1, <1>2, <2>2 DEF Progress
  <2> QED
    BY <2>1, <2>2
<1>10. Progress(e, k + 1)
  BY <1>2, <1>3, <1>4, <1>9 DEF Progress
<1> QED
  BY <1>8, <1>10

LEMMA StatementStep ==
  ASSUME NEW k \in 1 .. 18, NEW d, NEW e, Sound(d), Progress(d, k), e = Effect(Plan[k], d),
         k = 12 => d.token # "null"
  PROVE  Sound(e) /\ Progress(e, k + 1)
<1>1. \/ k \in {1, 2, 4, 5, 6, 7, 8, 11, 14}
      \/ k \in {3, 9, 10, 12, 13, 15, 16, 17, 18}
  OBVIOUS
<1> QED
  BY <1>1, RowsStep, ShapeStep

\* A new table; the others are as they were.
LEMMA CreateStep ==
  ASSUME NEW d, NEW e, Sound(d), NEW t \in Tables, d.shape[t] = "absent",
         \A u \in Refers[t] : d.shape[u] # "absent", e = Reshape(d, {t}, "current")
  PROVE  Sound(e)
<1>0. d \in Databases /\ {"vote", "election"} \subseteq Tables
  BY DEF Sound, Tables, OldTables
<1>1. /\ e \in Databases
      /\ \A u \in Tables : e.shape[u] = IF u \in {t} THEN "current" ELSE d.shape[u]
      /\ e.election = d.election /\ (e.recovery <=> d.recovery) /\ e.token = d.token
      /\ e.linked = d.linked /\ e.voted = d.voted /\ e.receipts = d.receipts
      /\ (e.scoped <=> d.scoped) /\ (e.tokens <=> d.tokens)
  BY <1>0, Reshaped
<1>2. Finished(d) => Finished(e)
  BY <1>1 DEF Finished
<1>3. t = "vote" => d.shape["election"] # "absent"
  BY <1>0 DEF Refers
<1>4. e.shape["vote"] \in {"absent", "current"} => Finished(e)
  BY <1>0, <1>1, <1>2 DEF Sound
<1>5. /\ e.shape["vote"] \in {"scoped", "current"} => e.shape["election"] \notin {"absent", "legacy"}
      /\ e.shape["vote"] = "absent" => e.shape["election"] # "legacy"
  BY <1>0, <1>1, <1>3 DEF Sound
<1>6. ~Marked(e) => (e.tokens <=> legacy.tokens)
  <2>1. NewTables \subseteq Tables
    BY DEF Tables
  <2>2. ~Marked(e) => ~Marked(d)
    BY <1>0, <1>1, <2>1 DEF Marked
  <2> QED
    BY <1>1, <2>2 DEF Sound
<1> QED
  BY <1>1, <1>4, <1>5, <1>6 DEF Sound

\* A complete schema is one in which all of the plan is done.
LEMMA CompleteStep ==
  ASSUME NEW d, Sound(d), Complete(d)
  PROVE  Progress(d, 19)
<1>1. {"vote", "election"} \subseteq Tables
  BY DEF Tables, OldTables
<1>2. Finished(d) /\ d.shape["election"] = "current"
  BY <1>1 DEF Sound, Complete
<1> QED
  BY <1>2 DEF Complete, Progress, Finished

LEMMA PlanComplete ==
  ASSUME NEW d, Progress(d, 19)
  PROVE  Complete(d)
<1>1. /\ d.shape[Plan[9]] = "current" /\ d.shape[Plan[10]] = "current"
      /\ d.shape[Plan[12]] = "current" /\ d.shape[Plan[13]] = "current"
      /\ d.shape[Plan[15]] = "current" /\ d.shape[Plan[16]] = "current"
      /\ d.shape[Plan[17]] = "current" /\ d.shape[Plan[18]] = "current"
  BY PlanSteps DEF Progress, Tables, OldTables, NewTables
<1> QED
  BY <1>1, PlanSteps DEF Complete, Tables, OldTables, NewTables

\* What is said of a database is said against the backup, which does not change.
LEMMA BackupKept ==
  ASSUME legacy' = legacy, NEW d, Sound(d)
  PROVE  /\ legacy = d => Sound(legacy)'
         /\ disk' = d => Sound(disk)'
         /\ work' = d => Sound(work)'
BY DEF Sound, Finished, Everyone, Marks, Marked

LEMMA ProgressKept ==
  ASSUME legacy' = legacy, NEW d, NEW k, Progress(d, k)
  PROVE  work' = d /\ at' = k => Progress(work, at)'
BY DEF Progress, Everyone, Marks

LEMMA EmptySound == legacy = Empty => Sound(legacy)
<1> SUFFICES ASSUME legacy = Empty PROVE Sound(legacy)
  OBVIOUS
<1>1. PICK d : d = Empty
  OBVIOUS
<1>2. {"vote", "election"} \subseteq Tables /\ NewTables \subseteq Tables
  BY DEF Tables, OldTables
<1>3. /\ d \in Databases /\ d.election = "none" /\ ~d.recovery /\ d.token = "set"
      /\ d.linked = {} /\ d.voted = {} /\ d.receipts = {} /\ d.scoped /\ ~d.tokens
      /\ \A t \in Tables : d.shape[t] = "absent"
  BY <1>1 DEF Empty, Databases
<1> QED
  BY <1>1, <1>2, <1>3 DEF Sound, Finished, Everyone, Marks

LEMMA OldSound == legacy \in OldDatabases => Sound(legacy)
<1> SUFFICES ASSUME legacy \in OldDatabases PROVE Sound(legacy)
  OBVIOUS
<1>1. PICK d : d = legacy
  OBVIOUS
<1>2. {"vote", "election"} \subseteq OldTables
  BY DEF OldTables
<1>3. d \in Databases /\ \A t \in OldTables : d.shape[t] = "legacy"
  BY <1>1 DEF OldDatabases, Databases, Tables
<1> QED
  BY <1>1, <1>2, <1>3 DEF Sound, Everyone

LEMMA UpgradingInit == UpgradeInit => Upgrading
<1> SUFFICES ASSUME UpgradeInit PROVE Upgrading
  OBVIOUS
<1>1. Sound(legacy) /\ disk = legacy /\ work = legacy
  BY EmptySound, OldSound DEF UpgradeInit
<1>2. at = Nil /\ at \notin 1 .. 19 /\ stamped = FALSE
  BY KeyAssumption DEF UpgradeInit
<1>3. Fresh
  BY DEF UpgradeInit, Fresh
<1> QED
  BY <1>1, <1>2, <1>3 DEF Upgrading

\* Steps of the upgrade leave the key store alone.
LEMMA FreshKept ==
  ASSUME Upgrading, UNCHANGED <<vars, legacy, stamped>>
  PROVE  Fresh'
BY DEF Upgrading, Fresh, vars, row, store, seen

LEMMA UpgradingStart ==
  ASSUME Upgrading, StartUpgrade
  PROVE  Upgrading'
<1>0. ~stamped /\ at = Nil /\ UNCHANGED <<vars, legacy, disk, work, stamped>>
  BY DEF StartUpgrade, db
<1>1. PICK d : d = disk
  OBVIOUS
<1>2. Sound(d) /\ work = d
  BY <1>0, <1>1 DEF Upgrading
<1>3. Sound(legacy)' /\ Sound(disk)' /\ Sound(work)'
  <2>1. PICK c : c = legacy
    OBVIOUS
  <2> QED
    BY <1>0, <1>1, <1>2, <2>1, BackupKept DEF Upgrading
<1>4. at' \in {0, 1, 3, 19} /\ (at' = 0 \/ Progress(d, at'))
  <2>1. CASE d.shape["vote"] = "absent"
    BY <1>1, <2>1 DEF StartUpgrade
  <2>2. CASE d.shape["vote"] # "absent" /\ Marked(d)
    <3>1. Complete(d) /\ at' = 19
      BY <1>1, <2>2, PlanSteps DEF StartUpgrade
    <3> QED
      BY <1>2, <3>1, CompleteStep
  <2>3. CASE d.shape["vote"] # "absent" /\ ~Marked(d)
    <3>1. at' = IF d.token # "absent" THEN 3 ELSE 1
      BY <1>1, <2>3 DEF StartUpgrade
    <3>2. d.shape["vote"] = "legacy" /\ (d.tokens <=> legacy.tokens)
      BY <1>2, <2>3 DEF Sound, Marked, Databases, Tables, OldTables
    <3>3. \A i \in 9 .. 18 : i > 3
      OBVIOUS
    <3> QED
      BY <3>1, <3>2, <3>3 DEF Progress
  <2> QED
    BY <2>1, <2>2, <2>3
<1>5. at' # Nil /\ at' \in 0 .. 19
  BY <1>4, KeyAssumption
<1>6. at' \in 1 .. 19 => Progress(work, at)'
  <2>1. PICK k : k = at'
    OBVIOUS
  <2> QED
    BY <1>0, <1>2, <1>4, <2>1, ProgressKept
<1> QED
  BY <1>0, <1>3, <1>5, <1>6, FreshKept DEF Upgrading

\* The upgrade executes a statement.
LEMMA UpgradingExecute ==
  ASSUME Upgrading, ~stamped, NEW e, Sound(e), NEW dml, Execute(e, dml),
         NEW k \in 0 .. 19, at' = k, k # 0 => Progress(e, k)
  PROVE  Upgrading'
<1>0. /\ UNCHANGED <<vars, legacy, stamped>> /\ work' = e /\ (disk' = disk \/ disk' = e)
  BY DEF Execute
<1>1. Sound(legacy)' /\ Sound(disk)' /\ Sound(work)'
  <2>1. PICK c : c = legacy
    OBVIOUS
  <2>2. PICK d : d = disk
    OBVIOUS
  <2> QED
    BY <1>0, <2>1, <2>2, BackupKept DEF Upgrading
<1>2. at' # Nil
  BY KeyAssumption
<1>3. at' \in 1 .. 19 => Progress(work, at)'
  BY <1>0, ProgressKept
<1> QED
  BY <1>0, <1>1, <1>2, <1>3, FreshKept DEF Upgrading

LEMMA UpgradingStatement ==
  ASSUME Upgrading, Statement
  PROVE  Upgrading'
<1>1. PICK k \in 1 .. 18 : k = at
  BY PlanSteps DEF Statement
<1>2. PICK d : d = work
  OBVIOUS
<1>3. PICK e : e = Effect(Plan[k], d)
  OBVIOUS
<1>4. ~stamped /\ Sound(d) /\ Progress(d, k)
  BY <1>1, <1>2, KeyAssumption DEF Upgrading
<1>5. k = 12 => d.token # "null"
  BY <1>1, <1>2, PlanSteps DEF Statement
<1>6. Sound(e) /\ Progress(e, k + 1)
  BY <1>3, <1>4, <1>5, StatementStep
<1>7. Execute(e, Plan[k] \in DML) /\ at' = k + 1 /\ k + 1 \in 0 .. 19
  BY <1>1, <1>2, <1>3 DEF Statement
<1> QED
  BY <1>4, <1>6, <1>7, UpgradingExecute

LEMMA UpgradingCreate ==
  ASSUME Upgrading, NEW t \in Tables, CreateTable(t)
  PROVE  Upgrading'
<1>1. PICK d : d = work
  OBVIOUS
<1>2. PICK e : e = Reshape(d, {t}, "current")
  OBVIOUS
<1>3. ~stamped /\ Sound(d)
  BY <1>1, KeyAssumption DEF Upgrading, CreateTable
<1>4. Sound(e)
  BY <1>1, <1>2, <1>3, CreateStep DEF CreateTable
<1>5. Execute(e, FALSE) /\ work' = e
  BY <1>1, <1>2 DEF CreateTable, Execute
<1>6. PICK k : k = at'
  OBVIOUS
<1>7. k = 0 \/ (k = 19 /\ Complete(e))
  BY <1>5, <1>6, PlanSteps DEF CreateTable, Complete
<1>8. k \in 0 .. 19 /\ (k # 0 => Progress(e, k))
  BY <1>4, <1>7, CompleteStep
<1> QED
  BY <1>3, <1>4, <1>5, <1>6, <1>8, UpgradingExecute

LEMMA UpgradingStamp ==
  ASSUME Upgrading, Stamp
  PROVE  Upgrading'
<1>1. /\ legacy' = Empty /\ disk' = Empty /\ work' = Empty /\ at' = Nil /\ stamped' = TRUE
  BY DEF Stamp
<1>2. (legacy = Empty => Sound(legacy))'
  BY EmptySound, PTL
<1>3. Sound(legacy)' /\ Sound(disk)' /\ Sound(work)'
  BY <1>1, <1>2
<1>4. at' \notin 1 .. 19
  BY <1>1, KeyAssumption
<1> QED
  BY <1>1, <1>3, <1>4 DEF Upgrading, Fresh

LEMMA UpgradingStopped ==
  ASSUME Upgrading, Interrupt \/ RestoreBackup
  PROVE  Upgrading'
<1>1. /\ UNCHANGED <<vars, legacy, stamped>> /\ at' = Nil /\ work' = disk'
      /\ disk' = disk \/ disk' = legacy
  BY DEF Interrupt, RestoreBackup
<1>2. Sound(legacy)' /\ Sound(disk)' /\ Sound(work)'
  <2>1. PICK c : c = legacy
    OBVIOUS
  <2>2. PICK d : d = disk
    OBVIOUS
  <2> QED
    BY <1>1, <2>1, <2>2, BackupKept DEF Upgrading
<1>3. at' \notin 1 .. 19
  BY <1>1, KeyAssumption
<1> QED
  BY <1>1, <1>2, <1>3, FreshKept DEF Upgrading

LEMMA UpgradingStep == Upgrading /\ [UpgradeNext]_allvars => Upgrading'
<1> SUFFICES ASSUME Upgrading, [UpgradeNext]_allvars PROVE Upgrading'
  OBVIOUS
<1>1. ASSUME UNCHANGED upgrade, ServiceUp \/ UNCHANGED vars PROVE Upgrading'
  <2>1. UNCHANGED <<legacy, disk, work, at, stamped>>
    BY <1>1 DEF upgrade, db
  <2>2. Sound(legacy)' /\ Sound(disk)' /\ Sound(work)' /\ (at' \in 1 .. 19 => Progress(work, at)')
    BY <2>1 DEF Upgrading, Sound, Finished, Everyone, Marks, Marked, Progress
  <2>3. Fresh'
    BY <1>1, <2>1, FreshKept DEF Fresh, ServiceUp
  <2> QED
    BY <2>1, <2>2, <2>3 DEF Upgrading
<1> QED
  BY <1>1, UpgradingStart, UpgradingStatement, UpgradingCreate, UpgradingStamp, UpgradingStopped
     DEF UpgradeNext, allvars

LEMMA UpgradeHolds == UpgradeSpec => []Upgrading
  BY UpgradingInit, UpgradingStep, PTL DEF UpgradeSpec

\* Just before the stamp every table is current and every row is converted.
LEMMA StampedDatabase ==
  ASSUME Upgrading, Stamp
  PROVE  Complete(work) /\ Finished(work) /\ ~stamped
<1>1. at = 19 /\ ~stamped /\ Sound(work) /\ Progress(work, at)
  BY PlanSteps, KeyAssumption DEF Stamp, Upgrading
<1>2. PICK d : d = work
  OBVIOUS
<1>3. Sound(d) /\ Progress(d, 19)
  BY <1>1, <1>2
<1>4. Complete(d)
  BY <1>3, PlanComplete
<1>5. Finished(d)
  BY <1>3, <1>4 DEF Complete, Sound, Tables, OldTables
<1> QED
  BY <1>1, <1>2, <1>4, <1>5

(* Wherever the upgrade is cut off, a committed row says of everyone who had  *)
(* voted that they have (revision election_scope, which drops vote.user_id    *)
(* and user.has_voted after it has issued the receipts).                      *)
THEOREM NobodyForgotten == UpgradeSpec => []VotersOnRecord
<1>1. Upgrading => VotersOnRecord
  BY DEF Upgrading, Sound, Everyone, VotersOnRecord
<1> QED
  BY <1>1, UpgradeHolds, PTL

(* No partial schema is stamped, however often the upgrade was cut off and    *)
(* repeated (_current_schema_errors and the order of the plan).               *)
THEOREM WholeWhenStamped == UpgradeSpec => StampedWhole
<1> DEFINE Whole == stamped' /\ ~stamped =>
             /\ \A t \in Tables : work.shape[t] = "current"
             /\ work.scoped /\ work.token = "set" /\ ~work.tokens
             /\ work.linked = {}
             /\ legacy.linked \cup legacy.voted \cup legacy.receipts \subseteq work.receipts
<1>1. Upgrading /\ [UpgradeNext]_allvars => [Whole]_allvars
  <2> SUFFICES ASSUME Upgrading, UpgradeNext, stamped', ~stamped PROVE Whole
    OBVIOUS
  <2>1. Stamp
    BY DEF UpgradeNext, StartUpgrade, Statement, Execute, CreateTable, Interrupt, RestoreBackup,
           ServiceUp
  <2> QED
    BY <2>1, StampedDatabase DEF Complete, Finished, Everyone
<1> QED
  BY <1>1, UpgradeHolds, PTL DEF UpgradeSpec, StampedWhole

(* To the key store an upgrade that ends is an initial state of its own: the  *)
(* quarantine mark is there exactly when voters hold signatures of the old    *)
(* authority.                                                                 *)
THEOREM UpgradeImplements == UpgradeSpec => ImplementsKeyStore
<1>1. UpgradeInit => KS!Init
  BY DEF UpgradeInit, KS!Init, KS!Idle, KS!Doing, KS!Legacy, Idle, Doing, Legacy,
         OldDatabases, Empty
<1>2. Upgrading /\ [UpgradeNext]_allvars => [stamped \/ KS!Next \/ UNCHANGED KS!vars]_allvars
  <2> SUFFICES ASSUME Upgrading, UpgradeNext, ~stamped PROVE UNCHANGED KS!vars
    OBVIOUS
  <2>1. CASE Stamp
    <3>1. work.recovery <=> open /\ legacy.tokens
      BY <2>1, StampedDatabase DEF Finished, Marks, Upgrading, Fresh
    <3> QED
      BY <2>1, <3>1 DEF Stamp, store, KS!vars, KS!row, KS!store, KS!seen, Upgrading, Sound, Databases
  <2>2. CASE ~Stamp
    <3>1. UNCHANGED <<vars, legacy, stamped>>
      BY <2>2 DEF UpgradeNext, StartUpgrade, Statement, Execute, CreateTable, Interrupt,
                  RestoreBackup, ServiceUp, db
    <3> QED
      BY <3>1 DEF vars, row, store, seen, KS!vars, KS!row, KS!store, KS!seen
  <2> QED
    BY <2>1, <2>2
<1> QED
  BY <1>1, <1>2, UpgradeHolds, PTL DEF UpgradeSpec, ImplementsKeyStore

\* The first state of the key store after an upgrade is one of its initial states.
LEMMA StampInit ==
  ASSUME Upgrading, Held, Stamp
  PROVE  Init'
<1>1. ~stamped /\ (work.recovery <=> open /\ legacy.tokens) /\ work.recovery \in BOOLEAN
  BY StampedDatabase DEF Finished, Marks, Upgrading, Fresh, Sound, Databases
<1>2. /\ recovery' = work.recovery
      /\ signatures' = (IF open /\ legacy.tokens THEN {Legacy} ELSE {})
      /\ UNCHANGED <<locking, open, anchor, store, authorized, shown, refused, txn>>
  BY DEF Stamp
<1>3. locking \in BOOLEAN /\ open \in BOOLEAN
  BY DEF Held, TypeOK
<1> QED
  BY <1>1, <1>2, <1>3 DEF Upgrading, Fresh, Init, store

LEMMA HeldThroughout == UpgradeSpec => []Held
<1>1. UpgradeInit => Held
  BY HeldInit DEF UpgradeInit, Init
<1>2. Upgrading /\ Held /\ [UpgradeNext]_allvars => Held'
  <2> SUFFICES ASSUME Upgrading, Held, [UpgradeNext]_allvars PROVE Held'
    OBVIOUS
  <2>1. CASE Stamp
    <3>1. (Init => Held)'
      BY HeldInit, PTL
    <3> QED
      BY <2>1, <3>1, StampInit
  <2>2. CASE ~Stamp
    <3>1. [Next]_vars
      BY <2>2 DEF UpgradeNext, StartUpgrade, Statement, Execute, CreateTable, Interrupt,
                  RestoreBackup, allvars
    <3> QED
      BY <3>1, HeldStep
  <2> QED
    BY <2>1, <2>2
<1> QED
  BY <1>1, <1>2, UpgradeHolds, PTL DEF UpgradeSpec
(* In a database that older code has used, too, voters see and hold material  *)
(* of the anchored key only, or of the old authority while the mark is there. *)
THEOREM OneAuthorityAfterUpgrade == UpgradeSpec => []OneAuthority
<1>1. Held => OneAuthority
  BY DEF Held, KeysHeld
<1> QED
  BY <1>1, HeldThroughout, PTL

(* cast_anonymous_ballot never answers "Invalid signature" to a voter who came*)
(* through the upgrade with a signature.                                      *)
THEOREM SignaturesSurviveUpgrade == UpgradeSpec => []GenuineAccepted
<1>1. Held => GenuineAccepted
  BY DEF Held, KeysHeld
<1> QED
  BY <1>1, HeldThroughout, PTL

(* Nor does the upgrade, or anything after it, rotate one.                    *)
THEOREM AnchorSurvivesUpgrade == UpgradeSpec => AnchorKept
<1>1. Held /\ [UpgradeNext]_allvars => [Protected' /\ anchor # Nil => anchor' = anchor]_vars
  <2> SUFFICES ASSUME Held, UpgradeNext, Protected', anchor # Nil PROVE anchor' = anchor
    BY DEF allvars
  <2>1. Next \/ UNCHANGED anchor
    BY DEF UpgradeNext, StartUpgrade, Statement, Execute, CreateTable, Stamp, Interrupt,
           RestoreBackup, vars, row
  <2> QED
    BY <2>1, AnchorStays
<1> QED
  BY <1>1, HeldThroughout, PTL DEF UpgradeSpec, AnchorKept
=============================================================================
