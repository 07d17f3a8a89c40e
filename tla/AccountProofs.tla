---------------------------- MODULE AccountProofs ----------------------------
(***************************************************************************)
(* Theorems about Accounts, for every number of requests, names, addresses   *)
(* and licences: the unique indexes keep apart what registrations, the first *)
(* manager and a conversion write at the same time.  An index also holds the *)
(* entries of transactions that have not committed, so the invariant is about*)
(* all rows that are written, as they are and as the conversion leaves them. *)
(***************************************************************************)
EXTENDS Accounts, TLAPS

-----------------------------------------------------------------------------
(* The inductive invariant.                                                  *)

Checking   == [pc : {"checked"}, form : Forms, id : {Nil}]
Numbered   == [pc : {"flushed", "mail"}, form : Forms, id : 1 .. MaxIds]
Converting == [pc : {"users", "rolls", "done"}, source : Sources, apply : BOOLEAN]

Types ==
  /\ users \subseteq Users /\ rolls \subseteq Rolls
  /\ lastId \in 1 .. MaxIds
  /\ conv \in {NoConv} \cup Converting
  /\ txn \in [Requests -> {Idle} \cup Checking \cup Numbered]

Flushed(q) == txn[q].pc = "flushed"

\* The rows of table user, committed or not
Written == users \cup {NewUser(q) : q \in {p \in Requests : Flushed(p)}}

\* Every primary key is handed out once.
OneKeyEach ==
  /\ \A x \in Written : x.id <= lastId
  /\ \A x, y \in Written : x.id = y.id => x = y
  /\ \A p, q \in Requests : Flushed(p) /\ Flushed(q) /\ txn[p].id = txn[q].id => p = q
  /\ \A u \in users, q \in Requests : Flushed(q) => u.id # txn[q].id

\* What the unique indexes hold, with the entries that a conversion has written
Distinct ==
  /\ \A x, y \in Written : ~Clash(x, y)
  /\ \A a, b \in rolls : ~RollClash(a, b)
DistinctConverted ==
  /\ conv.apply /\ conv.pc \in {"rolls", "done"} =>
       \A x, y \in Written : ~Clash(Converted(x), Converted(y))
  /\ conv.apply /\ conv.pc = "done" =>
       \A a, b \in rolls : ~RollClash(Converted(a), Converted(b))

\* Every row that a conversion has passed is one it converts or one of its result.
Passed ==
  /\ conv.pc \in {"rolls", "done"} => \A u \in users : Acceptable(u)
  /\ conv.pc = "done" => \A a \in rolls : Acceptable(a)

\* A current row has the hash of the pepper in use.
HashCurrent == \A row \in users \cup rolls : row.format = "v1" => row.indexed

Owned == \A a \in rolls : a.owner # Nil => \E u \in users : u.id = a.owner

\* A link is only mailed by a request whose account is committed.
Mailing ==
  /\ \A q \in Requests : txn[q].pc = "mail" => \E u \in users : u.email = txn[q].form.email
  /\ LinksFindAccount

Registered ==
  /\ Types /\ OneKeyEach /\ Distinct /\ DistinctConverted /\ Passed /\ HashCurrent
  /\ Owned /\ WholeRegistration /\ Mailing

-----------------------------------------------------------------------------
(* The rows that the operations write.                                       *)

LEMMA RowFields ==
  ASSUME NEW form \in Forms, NEW id \in 1 .. MaxIds,
         NEW role \in {"voter", "manager"}, NEW verified \in BOOLEAN
  PROVE  /\ Row(form, id, role, verified) \in Users
         /\ Row(form, id, role, verified).id = id
         /\ Row(form, id, role, verified).name = form.name
         /\ Row(form, id, role, verified).email = form.email
         /\ Row(form, id, role, verified).lic = form.lic
         /\ Row(form, id, role, verified).indexed
         /\ Row(form, id, role, verified).format = "v1"
         /\ Row(form, id, role, verified).role = role
BY DEF Row, Users, Forms, Formats

LEMMA NewFields ==
  ASSUME NEW q \in Requests, txn[q] \in Numbered
  PROVE  /\ NewUser(q) \in Users
         /\ NewUser(q).id = txn[q].id /\ NewUser(q).role = "voter"
         /\ NewUser(q).email = txn[q].form.email
         /\ NewUser(q).lic = txn[q].form.lic
         /\ NewUser(q).indexed /\ NewUser(q).format = "v1"
         /\ NewRoll(q) \in Rolls
         /\ NewRoll(q).owner = txn[q].id /\ NewRoll(q).lic = txn[q].form.lic
         /\ NewRoll(q).indexed /\ NewRoll(q).format = "v1"
<1>1. txn[q].form \in Forms /\ txn[q].id \in 1 .. MaxIds
  BY DEF Numbered
<1>2. NewUser(q) = Row(txn[q].form, txn[q].id, "voter", FALSE)
  BY DEF NewUser
<1>3. PICK u : u = Row(txn[q].form, txn[q].id, "voter", FALSE)
  OBVIOUS
<1>4. /\ u \in Users /\ u.id = txn[q].id /\ u.role = "voter"
      /\ u.email = txn[q].form.email /\ u.lic = txn[q].form.lic
      /\ u.indexed /\ u.format = "v1"
  BY <1>1, <1>3 DEF Row, Users, Forms, Formats
<1>5. PICK a : a = NewRoll(q)
  OBVIOUS
<1>6. /\ a \in Rolls /\ a.owner = txn[q].id /\ a.lic = txn[q].form.lic
      /\ a.indexed /\ a.format = "v1"
  BY <1>1, <1>5 DEF NewRoll, Rolls, Forms, Formats
<1> QED
  BY <1>2, <1>3, <1>4, <1>5, <1>6

LEMMA ConvertedUser ==
  ASSUME NEW u \in Users
  PROVE  /\ Converted(u) \in Users
         /\ Converted(u).id = u.id /\ Converted(u).name = u.name
         /\ Converted(u).email = u.email /\ Converted(u).lic = u.lic
         /\ Converted(u).role = u.role
         /\ Converted(u).format = IF u.format = conv.source THEN "v1" ELSE u.format
         /\ Converted(u).indexed = IF u.format = conv.source THEN TRUE ELSE u.indexed
BY DEF Converted, Users, Formats

LEMMA ConvertedRoll ==
  ASSUME NEW a \in Rolls
  PROVE  /\ Converted(a) \in Rolls
         /\ Converted(a).owner = a.owner /\ Converted(a).lic = a.lic
         /\ Converted(a).format = IF a.format = conv.source THEN "v1" ELSE a.format
         /\ Converted(a).indexed = IF a.format = conv.source THEN TRUE ELSE a.indexed
BY DEF Converted, Rolls, Formats

\* A row that is current is left as it is.
LEMMA CurrentKept ==
  ASSUME conv \in Converting, NEW x, x.format = "v1"
  PROVE  Converted(x) = x
BY AccountAssumption DEF Converting, Converted

LEMMA ClashSymmetric ==
  ASSUME NEW x, NEW y
  PROVE  Clash(x, y) <=> Clash(y, x)
BY DEF Clash, SameLicence

LEMMA WrittenTypes ==
  ASSUME Types
  PROVE  /\ Written \subseteq Users
         /\ \A q \in Requests : Flushed(q) => txn[q] \in Numbered /\ NewUser(q) \in Written
<1>1. \A q \in Requests : Flushed(q) => txn[q] \in Numbered
  BY DEF Types, Flushed, Idle, Checking
<1> QED
  BY <1>1, NewFields DEF Types, Written

-----------------------------------------------------------------------------
(* Steps that write no row.                                                  *)

LEMMA QuietStep ==
  ASSUME Registered, UNCHANGED <<users, rolls, lastId, conv>>, Types', Mailing',
         \A q \in Requests : Flushed(q)' => Flushed(q) /\ txn'[q] = txn[q]
  PROVE  Registered'
<1>1. Written' \subseteq Written
  BY DEF Written, NewUser
<1>2. OneKeyEach'
  BY <1>1 DEF Registered, OneKeyEach
<1>3. \A x : Converted(x)' = Converted(x)
  BY DEF Converted
<1>4. Distinct'
  BY <1>1 DEF Registered, Distinct
<1>5. DistinctConverted'
  BY <1>1 DEF Registered, DistinctConverted, Converted
<1>6. Passed' /\ HashCurrent' /\ Owned' /\ WholeRegistration'
  BY DEF Registered, Passed, Acceptable, HashCurrent, Owned, WholeRegistration
<1> QED
  BY <1>2, <1>4, <1>5, <1>6 DEF Registered

LEMMA EndStep ==
  ASSUME Registered, NEW r \in Requests, End(r), UNCHANGED <<users, rolls, lastId, conv>>,
         links' = links \/ (txn[r].pc = "mail" /\ links' = links \cup {txn[r].form.email})
  PROVE  Registered'
<1>1. /\ \A q \in Requests \ {r} : txn'[q] = txn[q]
      /\ txn'[r] = Idle
  BY DEF Registered, Types, End
<1>2. Types'
  BY DEF Registered, Types, End
<1>3. Mailing'
  BY <1>1 DEF Registered, Mailing, LinksFindAccount, Idle
<1> QED
  BY <1>1, <1>2, <1>3, QuietStep DEF Flushed, Idle

-----------------------------------------------------------------------------
(* Registrations.                                                            *)

\* A row that clashes with nothing committed or written.
LEMMA FitsIn ==
  ASSUME Registered, NEW r, r \notin {q \in Requests : Flushed(q)},
         NEW u \in Users, u.format = "v1",
         \A v \in PendingUsers(r) : ~Clash(u, v), \A v \in users : ~Clash(u, v)
  PROVE  /\ \A v \in Written : ~Clash(u, v)
         /\ conv.apply /\ conv.pc \in {"rolls", "done"} =>
              \A v \in Written : ~Clash(Converted(u), Converted(v))
<1>1. \A v \in Written : ~Clash(u, v)
  BY DEF Written, PendingUsers, Flushed
<1>2. ASSUME conv.apply, conv.pc \in {"rolls", "done"}, NEW v \in Written
      PROVE  ~Clash(Converted(u), Converted(v))
  <2>1. conv \in Converting
    BY <1>2 DEF Registered, Types, NoConv
  <2>2. Converted(u) = u
    BY <2>1, CurrentKept
  <2>3. CASE v \in users
    BY <1>2, <2>2, <2>3 DEF PendingUsers
  <2>4. ASSUME NEW q \in Requests, Flushed(q), v = NewUser(q)
        PROVE  Converted(v) = v
    <3>1. v.format = "v1"
      BY <2>4, WrittenTypes, NewFields DEF Registered
    <3> QED
      BY <2>1, <3>1, CurrentKept
  <2> QED
    BY <1>1, <2>2, <2>3, <2>4 DEF Written
<1> QED
  BY <1>1, <1>2

LEMMA AddedRow ==
  ASSUME Registered, NEW u \in Users, Written' = Written \cup {u},
         UNCHANGED <<rolls, conv>>,
         \A v \in Written : ~Clash(u, v),
         conv.apply /\ conv.pc \in {"rolls", "done"} =>
           \A v \in Written : ~Clash(Converted(u), Converted(v))
  PROVE  Distinct' /\ DistinctConverted'
<1>1. Distinct'
  BY ClashSymmetric DEF Registered, Distinct, Clash
<1>2. \A x : Converted(x)' = Converted(x)
  BY DEF Converted
<1>3. ASSUME conv.apply, conv.pc \in {"rolls", "done"}, NEW x \in Written', NEW y \in Written'
      PROVE  ~Clash(Converted(x), Converted(y))
  <2>1. ~Clash(Converted(u), Converted(u))
    BY DEF Clash
  <2> QED
    BY <1>3, <2>1, ClashSymmetric DEF Registered, DistinctConverted
<1>4. conv.apply /\ conv.pc = "done" =>
        \A a, b \in rolls' : ~RollClash(Converted(a), Converted(b))
  BY DEF Registered, DistinctConverted
<1>5. DistinctConverted'
  BY <1>3, <1>4 DEF DistinctConverted, Converted
<1> QED
  BY <1>1, <1>5

LEMMA StartStep ==
  ASSUME Registered, NEW r \in Requests, NEW form \in Forms, StartRegister(r, form)
  PROVE  Registered'
<1> DEFINE t == [Idle EXCEPT !.pc = "checked", !.form = form]
<1>1. t \in Checking /\ t.pc = "checked"
  BY DEF Idle, Checking
<1>2. txn' = [txn EXCEPT ![r] = t]
  BY DEF StartRegister
<1> HIDE DEF t
<1>3. UNCHANGED <<users, rolls, lastId, conv, links>>
  BY DEF StartRegister, tables
<1>4. txn'[r] = t /\ \A q \in Requests \ {r} : txn'[q] = txn[q]
  BY <1>2 DEF Registered, Types
<1>5. Types'
  BY <1>1, <1>2, <1>3 DEF Registered, Types
<1>6. Mailing'
  BY <1>1, <1>3, <1>4 DEF Registered, Mailing, LinksFindAccount
<1> QED
  BY <1>1, <1>3, <1>4, <1>5, <1>6, QuietStep DEF Flushed

LEMMA FlushStep ==
  ASSUME Registered, NEW r \in Requests, Flush(r)
  PROVE  Registered'
<1>0. /\ txn[r].pc = "checked" /\ lastId < MaxIds
      /\ UNCHANGED <<users, rolls, links, conv>>
  BY DEF Flush, tables
<1>1. txn[r] \in Checking /\ lastId \in 1 .. MaxIds /\ lastId + 1 \in 1 .. MaxIds
  BY <1>0, AccountAssumption DEF Registered, Types, Idle, Numbered
<1>2. PICK f \in Forms : f = txn[r].form
  BY <1>1 DEF Checking
<1>3. PICK u : u = Row(f, lastId + 1, "voter", FALSE)
  OBVIOUS
<1>4. u \in Users /\ u.id = lastId + 1 /\ u.format = "v1"
  BY <1>1, <1>3 DEF Row, Users, Forms, Formats
<1>5. \A v \in PendingUsers(r) : ~Clash(u, v)
  BY <1>2, <1>3 DEF Flush
<1>6. CASE \E v \in users : Clash(u, v)
  <2>1. End(r) /\ lastId' = lastId
    BY <1>2, <1>3, <1>6 DEF Flush
  <2> QED
    BY <1>0, <2>1, EndStep
<1>7. CASE ~\E v \in users : Clash(u, v)
  <2> DEFINE t == [pc |-> "flushed", form |-> f, id |-> lastId + 1]
  <2>1. /\ txn' = [txn EXCEPT ![r].pc = "flushed", ![r].id = lastId + 1]
        /\ lastId' = lastId + 1
    BY <1>2, <1>3, <1>7 DEF Flush
  <2>2. txn'[r] = [txn[r] EXCEPT !.pc = "flushed", !.id = lastId + 1]
        /\ \A q \in Requests \ {r} : txn'[q] = txn[q]
    BY <2>1 DEF Registered, Types
  <2>3. txn'[r] = t
    BY <1>1, <1>2, <2>2 DEF Checking
  <2>4. t \in Numbered /\ t.pc = "flushed" /\ t.form = f /\ t.id = lastId + 1
    BY <1>1 DEF Numbered
  <2> HIDE DEF t
  <2>5. Types'
    <3>1. \A q \in Requests : txn'[q] \in {Idle} \cup Checking \cup Numbered
      BY <2>2, <2>3, <2>4 DEF Registered, Types
    <3>2. txn' \in [Requests -> {Idle} \cup Checking \cup Numbered]
      BY <2>1, <3>1 DEF Registered, Types
    <3> QED
      BY <1>0, <1>1, <2>1, <3>2 DEF Registered, Types
  <2>6. \A q \in Requests : Flushed(q)' <=> q = r \/ Flushed(q)
    BY <2>2, <2>3, <2>4 DEF Flushed
  <2>7. NewUser(r)' = u /\ \A q \in Requests \ {r} : NewUser(q)' = NewUser(q)
    BY <1>3, <2>2, <2>3, <2>4 DEF NewUser
  <2>8. ~Flushed(r)
    BY <1>0 DEF Flushed
  <2>9. Written' = Written \cup {u}
    <3>1. users' = users
      BY <1>0
    <3>2. {NewUser(q) : q \in {p \in Requests : Flushed(p)}}'
            = {NewUser(q) : q \in {p \in Requests : Flushed(p)}} \cup {u}
      BY <2>6, <2>7, <2>8
    <3> QED
      BY <3>1, <3>2 DEF Written
  <2>10. Distinct' /\ DistinctConverted'
    BY <1>0, <1>4, <1>5, <1>7, <2>8, <2>9, FitsIn, AddedRow
  <2>11. \A x \in Written : x.id \in Nat /\ x.id <= lastId
    BY WrittenTypes, AccountAssumption DEF Registered, OneKeyEach, Users
  <2>12. \A q \in Requests : Flushed(q) => txn[q].id # lastId + 1
    <3>1. ASSUME NEW q \in Requests, Flushed(q) PROVE txn[q].id = NewUser(q).id
      BY <3>1, WrittenTypes, NewFields DEF Registered
    <3> QED
      BY <1>1, <2>11, <3>1, WrittenTypes DEF Registered
  <2>13. OneKeyEach'
    <3>1. \A x \in Written' : x.id <= lastId'
      BY <1>1, <1>4, <2>1, <2>9, <2>11
    <3>2. \A x, y \in Written' : x.id = y.id => x = y
      BY <1>1, <1>4, <2>9, <2>11 DEF Registered, OneKeyEach
    <3>3. \A p, q \in Requests : Flushed(p)' /\ Flushed(q)' /\ txn'[p].id = txn'[q].id => p = q
      BY <2>2, <2>3, <2>4, <2>6, <2>12 DEF Registered, OneKeyEach
    <3>4. \A v \in users', q \in Requests : Flushed(q)' => v.id # txn'[q].id
      BY <1>0, <1>1, <2>2, <2>3, <2>4, <2>6, <2>11 DEF Registered, OneKeyEach, Written
    <3> QED
      BY <3>1, <3>2, <3>3, <3>4 DEF OneKeyEach
  <2>14. Passed' /\ HashCurrent' /\ Owned' /\ WholeRegistration'
    BY <1>0 DEF Registered, Passed, Acceptable, HashCurrent, Owned, WholeRegistration
  <2>15. Mailing'
    BY <1>0, <2>2, <2>3, <2>4 DEF Registered, Mailing, LinksFindAccount
  <2> QED
    BY <2>5, <2>10, <2>13, <2>14, <2>15 DEF Registered
<1> QED
  BY <1>6, <1>7

LEMMA CommitStep ==
  ASSUME Registered, NEW r \in Requests, CommitRegistration(r)
  PROVE  Registered'
<1>0. /\ txn[r].pc = "flushed" /\ Flushed(r)
      /\ UNCHANGED <<lastId, links, conv>>
  BY DEF CommitRegistration, Flushed
<1>1. txn[r] \in Numbered /\ txn \in [Requests -> {Idle} \cup Checking \cup Numbered]
  BY <1>0, WrittenTypes DEF Registered, Types
<1>2. CASE ~\A b \in rolls : ~RollClash(NewRoll(r), b)
  <2>1. End(r) /\ UNCHANGED <<users, rolls>>
    BY <1>2 DEF CommitRegistration, tables
  <2> QED
    BY <1>0, <2>1, EndStep
<1>3. CASE \A b \in rolls : ~RollClash(NewRoll(r), b)
  <2>1. PICK n : n = NewUser(r)
    OBVIOUS
  <2>2. PICK a : a = NewRoll(r)
    OBVIOUS
  <2>3. /\ n \in Users /\ n.id = txn[r].id /\ n.role = "voter" /\ n.email = txn[r].form.email
        /\ n.lic = txn[r].form.lic /\ n.indexed /\ n.format = "v1"
        /\ a \in Rolls /\ a.owner = txn[r].id /\ a.lic = txn[r].form.lic
        /\ a.indexed /\ a.format = "v1"
    BY <1>1, <2>1, <2>2, NewFields
  <2>4. /\ users' = users \cup {n} /\ rolls' = rolls \cup {a}
        /\ txn' = [txn EXCEPT ![r].pc = "mail"]
    BY <1>3, <2>1, <2>2 DEF CommitRegistration, Goto
  <2>5. /\ txn'[r] = [txn[r] EXCEPT !.pc = "mail"]
        /\ \A q \in Requests \ {r} : txn'[q] = txn[q]
        /\ txn' \in [Requests -> {Idle} \cup Checking \cup Numbered]
    <3>1. [txn[r] EXCEPT !.pc = "mail"] \in Numbered
      BY <1>1 DEF Numbered
    <3> QED
      BY <1>1, <2>4, <3>1
  <2>6. txn'[r].pc = "mail" /\ txn'[r].form = txn[r].form /\ txn'[r].id = txn[r].id
    BY <1>1, <2>5 DEF Numbered
  <2>7. \A q \in Requests : Flushed(q)' <=> q # r /\ Flushed(q)
    BY <2>5, <2>6 DEF Flushed
  <2>8. \A q \in Requests : NewUser(q)' = NewUser(q)
    BY <2>5, <2>6 DEF NewUser
  <2>9. Written' = Written
    <3>1. {NewUser(q) : q \in {p \in Requests : Flushed(p)}}
            = {NewUser(q) : q \in {p \in Requests : Flushed(p)}}' \cup {n}
      BY <1>0, <2>1, <2>7, <2>8
    <3> QED
      BY <2>4, <3>1 DEF Written
  <2>10. \A u \in users : u.id # n.id
    BY <1>0, <2>3 DEF Registered, OneKeyEach
  <2>11. Types'
    BY <1>0, <2>3, <2>4, <2>5 DEF Registered, Types
  <2>12. OneKeyEach'
    <3>1. \A p, q \in Requests : Flushed(p)' /\ Flushed(q)' /\ txn'[p].id = txn'[q].id => p = q
      BY <2>5, <2>7 DEF Registered, OneKeyEach
    <3>2. \A v \in users', q \in Requests : Flushed(q)' => v.id # txn'[q].id
      BY <1>0, <2>3, <2>4, <2>5, <2>7 DEF Registered, OneKeyEach
    <3> QED
      BY <1>0, <2>9, <3>1, <3>2 DEF Registered, OneKeyEach
  <2>13. Distinct'
    <3>1. \A b \in rolls : ~RollClash(a, b) /\ ~RollClash(b, a)
      BY <1>3, <2>2 DEF RollClash, SameLicence
    <3>2. ~RollClash(a, a)
      BY DEF RollClash
    <3> QED
      BY <2>4, <2>9, <3>1, <3>2 DEF Registered, Distinct
  <2>14. DistinctConverted'
    <3>1. \A x : Converted(x)' = Converted(x)
      BY <1>0 DEF Converted
    <3>2. ASSUME conv.apply, conv.pc = "done", NEW b \in rolls
          PROVE  /\ ~RollClash(Converted(a), Converted(b))
                 /\ ~RollClash(Converted(b), Converted(a))
      <4>1. conv \in Converting
        BY <3>2 DEF Registered, Types, NoConv
      <4>2. Converted(a) = a
        BY <2>3, <4>1, CurrentKept
      <4>3. ~RollClash(a, Converted(b))
        BY <2>2, <3>2 DEF CommitRegistration, PendingRolls
      <4> QED
        BY <4>2, <4>3 DEF RollClash, SameLicence
    <3>3. ~RollClash(Converted(a), Converted(a))
      BY DEF RollClash
    <3>4. conv.apply /\ conv.pc = "done" =>
            \A b, c \in rolls' : ~RollClash(Converted(b), Converted(c))
      BY <2>4, <3>2, <3>3 DEF Registered, DistinctConverted
    <3>5. conv.apply /\ conv.pc \in {"rolls", "done"} =>
            \A x, y \in Written' : ~Clash(Converted(x), Converted(y))
      BY <2>9 DEF Registered, DistinctConverted
    <3> QED
      BY <1>0, <3>4, <3>5 DEF DistinctConverted, Converted
  <2>15. Passed' /\ HashCurrent'
    BY <1>0, <2>3, <2>4 DEF Registered, Passed, Acceptable, HashCurrent
  <2>16. Owned'
    BY <2>3, <2>4 DEF Registered, Owned
  <2>17. \A b \in rolls : b.owner # n.id
    <3>1. n.id # Nil
      BY <2>3, AccountAssumption DEF Users
    <3> QED
      BY <2>10, <3>1 DEF Registered, Owned
  <2>18. WholeRegistration'
    <3>1. {b \in rolls' : b.owner = n.id} = {a} /\ a \in rolls' /\ a.lic = n.lic
      BY <2>3, <2>4, <2>17
    <3>2. ASSUME NEW u \in users, u.role = "voter"
          PROVE  \E c \in rolls' : c.lic = u.lic /\ {b \in rolls' : b.owner = u.id} = {c}
      <4>1. PICK c \in rolls : c.lic = u.lic /\ {b \in rolls : b.owner = u.id} = {c}
        BY <3>2 DEF Registered, WholeRegistration
      <4>2. {b \in rolls' : b.owner = u.id} = {c}
        BY <2>3, <2>4, <2>10, <4>1
      <4> QED
        BY <2>4, <4>1, <4>2
    <3> QED
      BY <2>4, <3>1, <3>2 DEF WholeRegistration
  <2>19. Mailing'
    BY <1>0, <2>3, <2>4, <2>5, <2>6 DEF Registered, Mailing, LinksFindAccount
  <2> QED
    BY <2>11, <2>12, <2>13, <2>14, <2>15, <2>16, <2>18, <2>19 DEF Registered
<1> QED
  BY <1>2, <1>3

LEMMA MailStep ==
  ASSUME Registered, NEW r \in Requests, SendVerificationEmail(r) \/ Interrupt(r)
  PROVE  Registered'
BY EndStep DEF SendVerificationEmail, Interrupt, tables

-----------------------------------------------------------------------------
(* The other handlers of an account, and set-up.                             *)

\* A row replaced by one with the same keys and the same personal data
LEMMA VerifyStep ==
  ASSUME Registered, NEW u \in users, VerifyEmail(u)
  PROVE  Registered'
<1>0. UNCHANGED <<rolls, lastId, links, conv, txn>>
  BY DEF VerifyEmail
<1>1. u \in Users /\ u \in Written
  BY DEF Registered, Types, Written
<1>2. PICK w : w = [u EXCEPT !.verified = TRUE]
  OBVIOUS
<1>3. /\ w \in Users /\ w.id = u.id /\ w.name = u.name /\ w.email = u.email
      /\ w.lic = u.lic /\ w.indexed = u.indexed /\ w.format = u.format /\ w.role = u.role
  BY <1>1, <1>2 DEF Users
<1>4. users' = (users \ {u}) \cup {w}
  BY <1>2 DEF VerifyEmail
<1>5. Written' \subseteq (Written \ {u}) \cup {w}
  <2>1. \A q \in Requests : Flushed(q) => NewUser(q) # u
    BY WrittenTypes, NewFields DEF Registered, OneKeyEach
  <2> QED
    BY <1>0, <1>4, <2>1 DEF Written, NewUser, Flushed
<1>6. Types'
  BY <1>0, <1>3, <1>4 DEF Registered, Types
<1>7. OneKeyEach'
  <2>1. \A x \in Written' : x.id <= lastId'
    BY <1>0, <1>1, <1>3, <1>5 DEF Registered, OneKeyEach
  <2>2. \A x, y \in Written' : x.id = y.id => x = y
    BY <1>1, <1>3, <1>5 DEF Registered, OneKeyEach
  <2>3. \A p, q \in Requests : Flushed(p)' /\ Flushed(q)' /\ txn'[p].id = txn'[q].id => p = q
    BY <1>0 DEF Registered, OneKeyEach, Flushed
  <2>4. \A v \in users', q \in Requests : Flushed(q)' => v.id # txn'[q].id
    BY <1>0, <1>3, <1>4 DEF Registered, OneKeyEach, Flushed
  <2> QED
    BY <2>1, <2>2, <2>3, <2>4 DEF OneKeyEach
<1>8. \A x : Clash(w, x) = Clash(u, x) /\ Clash(x, w) = Clash(x, u)
  BY <1>3 DEF Clash, SameLicence
<1>9. Distinct'
  <2>1. ~Clash(w, w)
    BY DEF Clash
  <2> QED
    BY <1>0, <1>1, <1>5, <1>8, <2>1 DEF Registered, Distinct
<1>10. DistinctConverted'
  <2>1. \A x : /\ Clash(Converted(w), x) = Clash(Converted(u), x)
               /\ Clash(x, Converted(w)) = Clash(x, Converted(u))
    <3>1. PICK cw : cw = Converted(w)
      OBVIOUS
    <3>2. PICK cu : cu = Converted(u)
      OBVIOUS
    <3>3. /\ cw.id = cu.id /\ cw.name = cu.name /\ cw.email = cu.email
          /\ cw.lic = cu.lic /\ cw.indexed = cu.indexed
      BY <1>1, <1>3, <3>1, <3>2 DEF Converted, Users
    <3>4. \A x : Clash(cw, x) = Clash(cu, x) /\ Clash(x, cw) = Clash(x, cu)
      BY <3>3 DEF Clash, SameLicence
    <3> QED
      BY <3>1, <3>2, <3>4
  <2>2. ~Clash(Converted(w), Converted(w))
    BY DEF Clash
  <2>3. conv.apply /\ conv.pc \in {"rolls", "done"} =>
          \A x, y \in Written' : ~Clash(Converted(x), Converted(y))
    BY <1>1, <1>5, <2>1, <2>2 DEF Registered, DistinctConverted
  <2>4. conv.apply /\ conv.pc = "done" =>
          \A a, b \in rolls' : ~RollClash(Converted(a), Converted(b))
    BY <1>0 DEF Registered, DistinctConverted
  <2> QED
    BY <1>0, <2>3, <2>4 DEF DistinctConverted, Converted
<1>11. Passed' /\ HashCurrent'
  BY <1>0, <1>3, <1>4 DEF Registered, Passed, Acceptable, HashCurrent
<1>12. Owned' /\ WholeRegistration'
  BY <1>0, <1>3, <1>4 DEF Registered, Owned, WholeRegistration
<1>13. Mailing'
  BY <1>0, <1>3, <1>4 DEF Registered, Mailing, LinksFindAccount
<1> QED
  BY <1>6, <1>7, <1>9, <1>10, <1>11, <1>12, <1>13 DEF Registered

LEMMA SetupStep ==
  ASSUME Registered,
         (\E u \in users : Resend(u)) \/ UpgradePii \/ BootstrapReferenceData
  PROVE  Registered'
<1>1. /\ UNCHANGED <<users, rolls, lastId, conv, txn>>
      /\ links' = links \/ \E u \in users : links' = links \cup {u.email}
  BY DEF Resend, UpgradePii, BootstrapReferenceData, tables
<1>2. Types' /\ Mailing'
  BY <1>1 DEF Registered, Types, Mailing, LinksFindAccount
<1> QED
  BY <1>1, <1>2, QuietStep DEF Flushed

LEMMA ManagerStep ==
  ASSUME Registered, NEW form \in Forms, BootstrapManager(form)
  PROVE  Registered'
<1>0. UNCHANGED <<rolls, links, conv, txn>> /\ lastId' = lastId + 1 /\ lastId < MaxIds
  BY DEF BootstrapManager
<1>1. lastId \in 1 .. MaxIds /\ lastId + 1 \in 1 .. MaxIds
  BY <1>0, AccountAssumption DEF Registered, Types
<1>2. PICK u : u = Row(form, lastId + 1, "manager", TRUE)
  OBVIOUS
<1>3. u \in Users /\ u.id = lastId + 1 /\ u.format = "v1" /\ u.indexed /\ u.role = "manager"
  BY <1>1, <1>2 DEF Row, Users, Forms, Formats
<1>4. users' = users \cup {u} /\ \A v \in users \cup PendingUsers(Nil) : ~Clash(u, v)
  BY <1>2 DEF BootstrapManager
<1>5. Written' = Written \cup {u}
  BY <1>0, <1>4 DEF Written, NewUser, Flushed
<1>6. Nil \notin {q \in Requests : Flushed(q)}
  BY AccountAssumption
<1>7. Distinct' /\ DistinctConverted'
  BY <1>0, <1>3, <1>4, <1>5, <1>6, FitsIn, AddedRow
<1>8. Types'
  BY <1>0, <1>1, <1>3, <1>4 DEF Registered, Types
<1>9. \A x \in Written : x.id \in Nat /\ x.id <= lastId
  BY WrittenTypes, AccountAssumption DEF Registered, OneKeyEach, Users
<1>10. \A q \in Requests : Flushed(q) => txn[q].id # lastId + 1
  <2>1. ASSUME NEW q \in Requests, Flushed(q) PROVE txn[q].id = NewUser(q).id
    BY <2>1, WrittenTypes, NewFields DEF Registered
  <2> QED
    BY <1>1, <1>9, <2>1, WrittenTypes DEF Registered
<1>11. OneKeyEach'
  <2>1. \A x \in Written' : x.id <= lastId'
    BY <1>0, <1>1, <1>3, <1>5, <1>9
  <2>2. \A x, y \in Written' : x.id = y.id => x = y
    BY <1>1, <1>3, <1>5, <1>9 DEF Registered, OneKeyEach
  <2>3. \A p, q \in Requests : Flushed(p)' /\ Flushed(q)' /\ txn'[p].id = txn'[q].id => p = q
    BY <1>0 DEF Registered, OneKeyEach, Flushed
  <2>4. \A v \in users', q \in Requests : Flushed(q)' => v.id # txn'[q].id
    BY <1>0, <1>3, <1>4, <1>10 DEF Registered, OneKeyEach, Flushed
  <2> QED
    BY <2>1, <2>2, <2>3, <2>4 DEF OneKeyEach
<1>12. Passed' /\ HashCurrent' /\ Owned'
  BY <1>0, <1>3, <1>4 DEF Registered, Passed, Acceptable, HashCurrent, Owned
<1>13. WholeRegistration'
  BY <1>0, <1>3, <1>4 DEF Registered, WholeRegistration
<1>14. Mailing'
  BY <1>0, <1>4 DEF Registered, Mailing, LinksFindAccount
<1> QED
  BY <1>7, <1>8, <1>11, <1>12, <1>13, <1>14 DEF Registered

-----------------------------------------------------------------------------
(* The conversion.                                                           *)

\* A step of the conversion that writes nothing
LEMMA ConvKept ==
  ASSUME Registered, UNCHANGED <<users, rolls, lastId, links, txn>>,
         conv' \in {NoConv} \cup Converting
  PROVE  /\ Types' /\ OneKeyEach' /\ Distinct' /\ HashCurrent' /\ Owned'
         /\ WholeRegistration' /\ Mailing' /\ Written' = Written
<1>1. Types' /\ Written' = Written
  BY DEF Registered, Types, Written, NewUser, Flushed
<1>2. OneKeyEach' /\ Distinct'
  BY <1>1 DEF Registered, OneKeyEach, Distinct, Flushed
<1>3. HashCurrent' /\ Owned' /\ WholeRegistration' /\ Mailing'
  BY DEF Registered, HashCurrent, Owned, WholeRegistration, Mailing, LinksFindAccount
<1> QED
  BY <1>1, <1>2, <1>3

LEMMA ConvResting ==
  ASSUME Registered, UNCHANGED <<users, rolls, lastId, links, txn>>,
         conv' \in {NoConv} \cup Converting, conv'.pc \in {"idle", "users"}
  PROVE  Registered'
<1>1. DistinctConverted' /\ Passed'
  BY DEF DistinctConverted, Passed
<1> QED
  BY <1>1, ConvKept DEF Registered

LEMMA StartStopStep ==
  ASSUME Registered,
         \/ \E source \in Sources, apply \in BOOLEAN : StartConversion(source, apply)
         \/ StopConversion
  PROVE  Registered'
<1>1. UNCHANGED <<users, rolls, lastId, links, txn>>
  BY DEF StartConversion, StopConversion, tables
<1>2. conv' \in {NoConv} \cup Converting /\ conv'.pc \in {"idle", "users"}
  BY DEF StartConversion, StopConversion, Converting, NoConv
<1> QED
  BY <1>1, <1>2, ConvResting

LEMMA ConvertUsersStep ==
  ASSUME Registered, ConvertUsers
  PROVE  Registered'
<1>1. UNCHANGED <<users, rolls, lastId, links, txn>> /\ conv.pc = "users" /\ conv \in Converting
  BY DEF ConvertUsers, tables, Registered, Types, NoConv
<1>2. CASE conv' = NoConv
  BY <1>1, <1>2, ConvResting DEF NoConv
<1>3. CASE conv' # NoConv
  <2>1. /\ conv' = [conv EXCEPT !.pc = "rolls"]
        /\ \A u \in users : Acceptable(u)
        /\ conv.apply => /\ \A u, v \in users : ~Clash(Converted(u), Converted(v))
                         /\ \A u \in users, v \in PendingUsers(Nil) : ~Clash(Converted(u), v)
    BY <1>3 DEF ConvertUsers
  <2>2. /\ conv' \in Converting /\ conv'.pc = "rolls"
        /\ conv'.source = conv.source /\ conv'.apply = conv.apply
    BY <1>1, <2>1 DEF Converting
  <2>3. \A x : Converted(x)' = Converted(x)
    BY <2>2 DEF Converted
  <2>4. Passed'
    BY <1>1, <2>1, <2>2 DEF Passed, Acceptable
  <2>5. \A q \in Requests : Flushed(q) => /\ Converted(NewUser(q)) = NewUser(q)
                                          /\ NewUser(q) \in PendingUsers(Nil)
    <3>1. ASSUME NEW q \in Requests, Flushed(q) PROVE Converted(NewUser(q)) = NewUser(q)
      <4>1. NewUser(q).format = "v1"
        BY <3>1, WrittenTypes, NewFields DEF Registered
      <4> QED
        BY <1>1, <4>1, CurrentKept
    <3>2. ASSUME NEW q \in Requests, Flushed(q) PROVE NewUser(q) \in PendingUsers(Nil)
      BY <3>2, AccountAssumption DEF PendingUsers, Flushed
    <3> QED
      BY <3>1, <3>2
  <2>6. ASSUME conv.apply, NEW x \in Written, NEW y \in Written
        PROVE  ~Clash(Converted(x), Converted(y))
    <3>1. CASE x \in users /\ y \in users
      BY <2>1, <2>6, <3>1
    <3>2. CASE x \in users /\ y \notin users
      BY <2>1, <2>5, <2>6, <3>2 DEF Written
    <3>3. CASE x \notin users /\ y \in users
      BY <2>1, <2>5, <2>6, <3>3, ClashSymmetric DEF Written
    <3>4. CASE x \notin users /\ y \notin users
      <4>1. Converted(x) = x /\ Converted(y) = y
        BY <2>5, <3>4 DEF Written
      <4> QED
        BY <4>1 DEF Registered, Distinct
    <3> QED
      BY <3>1, <3>2, <3>3, <3>4
  <2>7. /\ Types' /\ OneKeyEach' /\ Distinct' /\ HashCurrent' /\ Owned'
        /\ WholeRegistration' /\ Mailing' /\ Written' = Written
    BY <1>1, <2>2, ConvKept
  <2>8. DistinctConverted'
    BY <2>2, <2>6, <2>7 DEF DistinctConverted, Converted
  <2> QED
    BY <2>4, <2>7, <2>8 DEF Registered
<1> QED
  BY <1>2, <1>3

LEMMA ConvertRollsStep ==
  ASSUME Registered, ConvertRolls
  PROVE  Registered'
<1>1. UNCHANGED <<users, rolls, lastId, links, txn>> /\ conv.pc = "rolls" /\ conv \in Converting
  BY DEF ConvertRolls, tables, Registered, Types, NoConv
<1>2. CASE conv' = NoConv
  BY <1>1, <1>2, ConvResting DEF NoConv
<1>3. CASE conv' # NoConv
  <2>1. /\ conv' = [conv EXCEPT !.pc = "done"]
        /\ \A a \in rolls : Acceptable(a)
        /\ conv.apply => \A a, b \in rolls : ~RollClash(Converted(a), Converted(b))
    BY <1>3 DEF ConvertRolls
  <2>2. /\ conv' \in Converting /\ conv'.pc = "done"
        /\ conv'.source = conv.source /\ conv'.apply = conv.apply
    BY <1>1, <2>1 DEF Converting
  <2>3. Passed'
    BY <1>1, <2>1, <2>2 DEF Registered, Passed, Acceptable
  <2>4. /\ Types' /\ OneKeyEach' /\ Distinct' /\ HashCurrent' /\ Owned'
        /\ WholeRegistration' /\ Mailing' /\ Written' = Written
    BY <1>1, <2>2, ConvKept
  <2>5. conv.apply => \A x, y \in Written : ~Clash(Converted(x), Converted(y))
    BY <1>1 DEF Registered, DistinctConverted
  <2>6. DistinctConverted'
    BY <1>1, <2>1, <2>2, <2>4, <2>5 DEF DistinctConverted, Converted
  <2> QED
    BY <2>3, <2>4, <2>6 DEF Registered
<1> QED
  BY <1>2, <1>3

LEMMA CommitConversionStep ==
  ASSUME Registered, CommitConversion
  PROVE  Registered'
<1>1. UNCHANGED <<lastId, links, txn>> /\ conv.pc = "done" /\ conv \in Converting /\ conv' = NoConv
  BY DEF CommitConversion, Registered, Types, NoConv
<1>2. CASE ~conv.apply
  BY <1>1, <1>2, ConvResting DEF CommitConversion, NoConv
<1>3. CASE conv.apply
  <2>1. /\ users' = {Converted(u) : u \in users}
        /\ rolls' = {Converted(a) : a \in rolls}
    BY <1>3 DEF CommitConversion
  <2>2. /\ users \subseteq Users /\ rolls \subseteq Rolls
        /\ Written \subseteq Users /\ users \subseteq Written
    BY WrittenTypes DEF Registered, Types, Written
  <2>3. \A q \in Requests : Flushed(q) => Converted(NewUser(q)) = NewUser(q)
    <3>1. ASSUME NEW q \in Requests, Flushed(q) PROVE Converted(NewUser(q)) = NewUser(q)
      <4>1. NewUser(q).format = "v1"
        BY <3>1, WrittenTypes, NewFields DEF Registered
      <4> QED
        BY <1>1, <4>1, CurrentKept
    <3> QED
      BY <3>1
  <2>4. Written' \subseteq {Converted(x) : x \in Written}
    <3>1. {NewUser(q) : q \in {p \in Requests : Flushed(p)}}'
            = {NewUser(q) : q \in {p \in Requests : Flushed(p)}}
      BY <1>1 DEF NewUser, Flushed
    <3> QED
      BY <2>1, <2>3, <3>1 DEF Written
  <2>5. Types'
    <3>1. users' \subseteq Users /\ rolls' \subseteq Rolls
      BY <2>1, <2>2, ConvertedUser, ConvertedRoll
    <3> QED
      BY <1>1, <3>1 DEF Registered, Types
  <2>6. OneKeyEach'
    <3>1. \A x \in Written : Converted(x).id = x.id
      BY <2>2, ConvertedUser
    <3>2. \A x \in Written' : x.id <= lastId'
      BY <1>1, <2>4, <3>1 DEF Registered, OneKeyEach
    <3>3. \A x, y \in Written' : x.id = y.id => x = y
      BY <2>4, <3>1 DEF Registered, OneKeyEach
    <3>4. \A p, q \in Requests : Flushed(p)' /\ Flushed(q)' /\ txn'[p].id = txn'[q].id => p = q
      BY <1>1 DEF Registered, OneKeyEach, Flushed
    <3>5. \A v \in users', q \in Requests : Flushed(q)' => v.id # txn'[q].id
      BY <1>1, <2>1, <2>2, <3>1 DEF Registered, OneKeyEach, Flushed
    <3> QED
      BY <3>2, <3>3, <3>4, <3>5 DEF OneKeyEach
  <2>7. Distinct'
    BY <1>1, <1>3, <2>1, <2>4 DEF Registered, DistinctConverted, Distinct
  <2>8. DistinctConverted' /\ Passed'
    BY <1>1 DEF DistinctConverted, Passed, NoConv
  <2>9. HashCurrent'
    <3>1. ASSUME NEW u \in users PROVE Converted(u).format = "v1" => Converted(u).indexed
      <4>1. u \in Users /\ (u.format = "v1" => u.indexed)
        BY <2>2 DEF Registered, HashCurrent
      <4> QED
        BY <4>1 DEF Converted, Users
    <3>2. ASSUME NEW a \in rolls PROVE Converted(a).format = "v1" => Converted(a).indexed
      <4>1. a \in Rolls /\ (a.format = "v1" => a.indexed)
        BY <2>2 DEF Registered, HashCurrent
      <4> QED
        BY <4>1 DEF Converted, Rolls
    <3> QED
      BY <2>1, <3>1, <3>2 DEF HashCurrent
  <2>10. Owned'
    <3>1. \A u \in users : Converted(u).id = u.id
      BY <2>2, ConvertedUser
    <3>2. \A a \in rolls : Converted(a).owner = a.owner
      BY <2>2, ConvertedRoll
    <3> QED
      BY <2>1, <3>1, <3>2 DEF Registered, Owned
  <2>11. WholeRegistration'
    <3>1. ASSUME NEW u \in users, u.role = "voter"
          PROVE  \E c \in rolls' : /\ c.lic = u.lic
                                   /\ {b \in rolls' : b.owner = u.id} = {c}
      <4>1. PICK a \in rolls : a.lic = u.lic /\ {b \in rolls : b.owner = u.id} = {a}
        BY <3>1 DEF Registered, WholeRegistration
      <4>2. \A b \in rolls : Converted(b).owner = b.owner /\ Converted(b).lic = b.lic
        BY <2>2, ConvertedRoll
      <4>3. Converted(a) \in rolls' /\ Converted(a).lic = u.lic
        BY <2>1, <4>1, <4>2
      <4>4. \A c \in rolls' : c.owner = u.id <=> c = Converted(a)
        BY <2>1, <4>1, <4>2
      <4> QED
        BY <4>3, <4>4
    <3>2. \A u \in users : /\ Converted(u).id = u.id /\ Converted(u).lic = u.lic
                           /\ Converted(u).role = u.role
      BY <2>2, ConvertedUser
    <3>3. ASSUME NEW w \in users', w.role = "voter"
          PROVE  \E c \in rolls' : /\ c.lic = w.lic
                                   /\ {b \in rolls' : b.owner = w.id} = {c}
      <4>1. PICK u \in users : w = Converted(u)
        BY <2>1
      <4>2. w.id = u.id /\ w.lic = u.lic /\ u.role = "voter"
        BY <3>2, <3>3, <4>1
      <4> QED
        BY <3>1, <4>2
    <3> QED
      BY <3>3 DEF WholeRegistration
  <2>12. Mailing'
    <3>1. \A u \in users : Converted(u) \in users' /\ Converted(u).email = u.email
      BY <2>1, <2>2, ConvertedUser
    <3> QED
      BY <1>1, <3>1 DEF Registered, Mailing, LinksFindAccount
  <2> QED
    BY <2>5, <2>6, <2>7, <2>8, <2>9, <2>10, <2>11, <2>12 DEF Registered
<1> QED
  BY <1>2, <1>3

-----------------------------------------------------------------------------
(* The theorems.                                                             *)

LEMMA RegisteredInit ==
  ASSUME Init
  PROVE  Registered
<1>1. PICK n \in Names, m \in Emails, s \in Spellings, i \in BOOLEAN, f \in Formats, g \in Formats :
        /\ users \in {{}, {OldRow(n, m, s, i, f)}}
        /\ \E t \in Spellings :
             /\ Norm[t] # Norm[s]
             /\ rolls \in {R \cup (IF users = {} THEN {} ELSE {OldRoll(1, s, i, g)}) :
                           R \in {{}, {OldRoll(Nil, t, i, g)}}}
  BY DEF Init
<1>2. PICK t \in Spellings :
        /\ Norm[t] # Norm[s]
        /\ rolls \in {R \cup (IF users = {} THEN {} ELSE {OldRoll(1, s, i, g)}) :
                      R \in {{}, {OldRoll(Nil, t, i, g)}}}
  BY <1>1
<1>3. PICK u : u = OldRow(n, m, s, i, f)
  OBVIOUS
<1>4. PICK a : a = OldRoll(1, s, i, g)
  OBVIOUS
<1>5. PICK b : b = OldRoll(Nil, t, i, g)
  OBVIOUS
<1>6. 1 \in 1 .. MaxIds /\ 1 # Nil
  BY AccountAssumption
<1>7. /\ u \in Users /\ u.id = 1 /\ u.lic = s /\ u.role = "voter"
      /\ u.format = "v1" => u.indexed
  BY <1>1, <1>3, <1>6 DEF OldRow, Row, Users
<1>8. /\ a \in Rolls /\ a.owner = 1 /\ a.lic = s
      /\ a.format = "v1" => a.indexed
  BY <1>1, <1>4, <1>6 DEF OldRoll, Rolls
<1>9. /\ b \in Rolls /\ b.owner = Nil /\ b.lic = t
      /\ b.format = "v1" => b.indexed
  BY <1>2, <1>5 DEF OldRoll, Rolls
<1>10. /\ users = {} \/ users = {u}
       /\ rolls \subseteq {a, b}
       /\ users = {} => rolls \subseteq {b}
       /\ users = {u} => a \in rolls
  BY <1>1, <1>2, <1>3, <1>4, <1>5
<1>11. /\ lastId = 1 /\ links = {} /\ conv = NoConv
       /\ \A q \in Requests : txn[q] = Idle /\ ~Flushed(q)
  BY DEF Init, Idle, Flushed
<1>12. Written = users
  BY <1>11 DEF Written
<1>13. Types
  BY <1>6, <1>7, <1>8, <1>9, <1>10, <1>11 DEF Init, Types
<1>14. OneKeyEach
  BY <1>7, <1>10, <1>11, <1>12 DEF OneKeyEach
<1>15. Distinct
  BY <1>2, <1>7, <1>8, <1>9, <1>10, <1>12 DEF Distinct, Clash, RollClash, SameLicence, Index
<1>16. DistinctConverted /\ Passed
  BY <1>11 DEF DistinctConverted, Passed, NoConv
<1>17. HashCurrent /\ Owned
  BY <1>7, <1>8, <1>9, <1>10 DEF HashCurrent, Owned
<1>18. WholeRegistration
  BY <1>6, <1>7, <1>8, <1>9, <1>10 DEF WholeRegistration
<1>19. Mailing
  BY <1>11 DEF Mailing, LinksFindAccount, Idle
<1> QED
  BY <1>13, <1>14, <1>15, <1>16, <1>17, <1>18, <1>19 DEF Registered

LEMMA RegisteredStep ==
  ASSUME Registered, [Next]_vars
  PROVE  Registered'
<1>1. CASE UNCHANGED vars
  <2>1. UNCHANGED <<users, rolls, lastId, links, conv, txn>>
    BY <1>1 DEF vars, tables
  <2>2. Types' /\ Mailing'
    BY <2>1 DEF Registered, Types, Mailing, LinksFindAccount
  <2> QED
    BY <2>1, <2>2, QuietStep DEF Flushed
<1>2. CASE Next
  BY <1>2, StartStep, FlushStep, CommitStep, MailStep, VerifyStep, SetupStep, ManagerStep,
     StartStopStep, ConvertUsersStep, ConvertRollsStep, CommitConversionStep DEF Next
<1> QED
  BY <1>1, <1>2

\* What the tables hold between any two statements of registrations, the first
\* manager and migrate_pii_envelope: primary keys are handed out once, the unique
\* indexes hold for committed and uncommitted rows, before and after a conversion.
THEOREM AccountsRegistered == Spec => []Registered
<1>1. Init => Registered
  BY RegisteredInit
<1>2. Registered /\ [Next]_vars => Registered'
  BY RegisteredStep
<1> QED
  BY <1>1, <1>2, PTL DEF Spec

\* However many registrations, the first manager and a conversion overlap, the
\* unique indexes of models.User keep names and addresses apart.
THEOREM NoTwins == Spec => []OneAccountEach
<1>1. Registered => OneAccountEach
  BY DEF Registered, Distinct, Clash, Written, OneAccountEach
<1> QED
  BY <1>1, AccountsRegistered, PTL

\* Once every row is in the current envelope, a licence belongs to one account and
\* one enrolment, however it is written: a current row has a current hash, and the
\* conversion gives the rows it converts one before it commits.
THEOREM OneLicenceEach == Spec => []LicenceOnce
<1>1. Registered => LicenceOnce
  BY DEF Registered, Distinct, HashCurrent, Clash, RollClash, SameLicence, Index, Written, LicenceOnce
<1> QED
  BY <1>1, AccountsRegistered, PTL

\* register writes the account and its enrolment in one transaction: neither is
\* ever there without the other.
THEOREM NoHalfRegistration == Spec => []WholeRegistration
<1>1. Registered => WholeRegistration
  BY DEF Registered
<1> QED
  BY <1>1, AccountsRegistered, PTL

\* register mails the link after its commit, so the account is found.
THEOREM NoDeadLinks == Spec => []LinksFindAccount
<1>1. Registered => LinksFindAccount
  BY DEF Registered, Mailing
<1> QED
  BY <1>1, AccountsRegistered, PTL

TogetherStep ==
  /\ Old(users') # Old(users) \/ Old(rolls') # Old(rolls) => Old(users' \cup rolls') = {}
  /\ Bound(users) \subseteq Bound(users')

LEMMA TogetherKept ==
  ASSUME Registered, [Next]_vars
  PROVE  TogetherStep
<1>1. CASE UNCHANGED <<users, rolls>>
  BY <1>1 DEF TogetherStep, Old, Bound
<1>2. ASSUME NEW r \in Requests, CommitRegistration(r), ~UNCHANGED <<users, rolls>>
      PROVE  TogetherStep
  <2>1. txn[r] \in Numbered
    BY <1>2, WrittenTypes DEF CommitRegistration, Flushed, Registered
  <2>2. NewUser(r).format = "v1" /\ NewRoll(r).format = "v1"
    BY <2>1, NewFields
  <2>3. users' = users \cup {NewUser(r)} /\ rolls' = rolls \cup {NewRoll(r)}
    BY <1>2 DEF CommitRegistration, tables
  <2> QED
    BY <2>2, <2>3 DEF TogetherStep, Old, Readable, Bound
<1>3. ASSUME NEW u \in users, VerifyEmail(u)
      PROVE  TogetherStep
  <2>1. u \in Users /\ u.format = "v1"
    BY <1>3 DEF VerifyEmail, Readable, Registered, Types
  <2>2. PICK w : w = [u EXCEPT !.verified = TRUE]
    OBVIOUS
  <2>3. w.format = "v1" /\ w.id = u.id /\ w.lic = u.lic
    BY <2>1, <2>2 DEF Users
  <2>4. users' = (users \ {u}) \cup {w} /\ rolls' = rolls
    BY <1>3, <2>2 DEF VerifyEmail
  <2>5. Old(users') = Old(users) /\ Old(rolls') = Old(rolls)
    BY <2>1, <2>3, <2>4 DEF Old, Readable
  <2>6. Bound(users) \subseteq Bound(users')
    BY <2>3, <2>4 DEF Bound
  <2> QED
    BY <2>5, <2>6 DEF TogetherStep
<1>4. ASSUME NEW form \in Forms, BootstrapManager(form)
      PROVE  TogetherStep
  <2>1. PICK u : u = Row(form, lastId + 1, "manager", TRUE)
    OBVIOUS
  <2>2. u.format = "v1"
    BY <2>1 DEF Row
  <2>3. users' = users \cup {u} /\ rolls' = rolls
    BY <1>4, <2>1 DEF BootstrapManager
  <2> QED
    BY <2>2, <2>3 DEF TogetherStep, Old, Readable, Bound
<1>5. ASSUME CommitConversion, conv.apply
      PROVE  TogetherStep
  <2>1. /\ users' = {Converted(u) : u \in users} /\ rolls' = {Converted(a) : a \in rolls}
        /\ users \subseteq Users /\ rolls \subseteq Rolls
        /\ \A row \in users \cup rolls : row.format \in {"v1", conv.source}
    BY <1>5 DEF CommitConversion, Registered, Types, Passed, Acceptable
  <2>2. \A u \in users : /\ Converted(u).format = "v1"
                         /\ Converted(u).id = u.id /\ Converted(u).lic = u.lic
    BY <2>1, ConvertedUser
  <2>3. \A a \in rolls : Converted(a).format = "v1"
    BY <2>1, ConvertedRoll
  <2>4. Old(users' \cup rolls') = {}
    BY <2>1, <2>2, <2>3 DEF Old, Readable
  <2>5. Bound(users) \subseteq Bound(users')
    BY <2>1, <2>2 DEF Bound
  <2> QED
    BY <2>4, <2>5 DEF TogetherStep
<1>6. \/ UNCHANGED <<users, rolls>>
      \/ \E r \in Requests : CommitRegistration(r) /\ ~UNCHANGED <<users, rolls>>
      \/ \E u \in users : VerifyEmail(u)
      \/ \E form \in Forms : BootstrapManager(form)
      \/ CommitConversion /\ conv.apply
  BY DEF Next, vars, tables, StartRegister, Flush, SendVerificationEmail, Interrupt, Resend,
         UpgradePii, BootstrapReferenceData, StartConversion, ConvertUsers, ConvertRolls,
         CommitConversion, StopConversion
<1> QED
  BY <1>1, <1>2, <1>3, <1>4, <1>5, <1>6

\* migrate_pii_envelope refuses a run as a whole: the step that changes any old
\* value leaves none in either table, and no step changes the licence of an account.
THEOREM ConvertsTogether == Spec => ConvertedTogether
<1>1. Registered /\ [Next]_vars => [TogetherStep]_vars
  BY TogetherKept
<1> QED
  BY <1>1, AccountsRegistered, PTL DEF Spec, ConvertedTogether, TogetherStep
=============================================================================
