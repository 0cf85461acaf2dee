------------------------------- MODULE SiteProofs -------------------------------
(***************************************************************************)
(* What is proved of registration, the feature flags, the notifications and *)
(* the throttles, for every number of requests, users, flags, rows and      *)
(* keys, each with an inductive invariant of its own, of named parts; and,  *)
(* with the theorems about the other three, of the whole Site.              *)
(***************************************************************************)
EXTENDS Site, TwoFactorProofs, PasswordResetProofs, ProfileProofs,
        FiniteSetTheorems, SequenceTheorems, TLAPS

-----------------------------------------------------------------------------
(* Registration *)

AccountRow == [name : UserNames \cup {NoName}, email : Addresses \cup {NoAddress},
            kind : {"none", "password", "social", "erased"}, since : 0..MaxUsers]

RgRequest ==
    [pc : {"idle", "check_name", "check_email", "clean", "save", "on_commit",
           "find", "pick_name", "social_save"},
     name : UserNames \cup {NoName}, email : Addresses \cup {NoAddress},
     since : 0..MaxUsers, pk : 0..MaxUsers]

\* What a request holds at each point, and that it holds nothing when idle.
RequestsHold ==
    \A r \in RgRequests :
        /\ rgReq[r].pc # "idle" => rgReq[r].name \in UserNames /\ rgReq[r].email \in Addresses
        /\ rgReq[r].pc = "on_commit" => rgReq[r].pk \in Pks

\* The accounts are numbered without a gap, and an address was looked for among
\* some of the first of them.
Numbered ==
    \E n \in 0..MaxUsers : Rows = 1..n /\ \A r \in RgRequests : rgReq[r].since <= n

\* The address of a request that is past its check is not that of an account that
\* was there then.
AddressChecked ==
    \A r \in RgRequests : rgReq[r].pc \in {"clean", "save", "pick_name", "social_save"} =>
        \A u \in Rows : u <= rgReq[r].since => users[u].email # rgReq[r].email

RegistrationInv ==
    RegistrationTypeOK /\ RequestsHold /\ Numbered /\ AddressChecked /\ OneAccountPerAddress

\* The records of RegistrationTypeOK, by name.
LEMMA RegistrationTypes ==
    RegistrationTypeOK <=>
        users \in [Pks -> AccountRow] /\ rgReq \in [RgRequests -> RgRequest] /\ welcome \subseteq Pks
BY DEF RegistrationTypeOK, AccountRow, RgRequest

\* A request that has ended holds nothing.
LEMMA IdleRequest ==
    RgIdle \in RgRequest /\ RgIdle.pc = "idle" /\ RgIdle.since = 0
<1>1. 0 \in 0..MaxUsers
  BY RegistrationAssumption
<1> QED
  BY <1>1 DEF RgIdle, RgRequest

\* The accounts are 1..n, and the next number is n + 1.
LEMMA CountRows ==
    ASSUME NEW n \in 0..MaxUsers, Rows = 1..n
    PROVE  Cardinality(Rows) = n /\ NextPk = n + 1
<1>1. n \in Nat
  BY RegistrationAssumption
<1>2. Cardinality(1..n) = IF 1 > n THEN 0 ELSE n - 1 + 1
  BY <1>1, FS_Interval
<1> QED
  BY <1>1, <1>2 DEF NextPk

\* A request that goes on with fewer claims keeps the invariant: no account changes,
\* and if it is past the check of its address the address was looked for.
LEMMA RequestStep ==
    ASSUME RegistrationInv, NEW r \in RgRequests, NEW x, rgReq' = [rgReq EXCEPT ![r] = x],
           x \in RgRequest,
           x.pc # "idle" => x.name \in UserNames /\ x.email \in Addresses,
           x.pc = "on_commit" => x.pk \in Pks,
           x.since <= Cardinality(Rows),
           x.pc \in {"clean", "save", "pick_name", "social_save"} =>
              \A u \in Rows : u <= x.since => users[u].email # x.email,
           users' = users, welcome' \subseteq Pks
    PROVE  RegistrationInv'
<1>1. RegistrationTypeOK /\ RequestsHold /\ Numbered /\ AddressChecked /\ OneAccountPerAddress
  BY DEF RegistrationInv
<1>2. rgReq'[r] = x /\ \A q \in RgRequests \ {r} : rgReq'[q] = rgReq[q]
  BY <1>1, RegistrationTypes
<1>3. Rows' = Rows
  BY DEF Rows
<1>4. RegistrationTypeOK'
  <2>1. users' \in [Pks -> AccountRow] /\ rgReq' \in [RgRequests -> RgRequest] /\ welcome' \subseteq Pks
    BY <1>1, RegistrationTypes
  <2> QED
    BY <2>1 DEF RegistrationTypeOK, AccountRow, RgRequest
<1>5. RequestsHold'
  BY <1>1, <1>2 DEF RequestsHold
<1>6. Numbered'
  <2>1. PICK n \in 0..MaxUsers : Rows = 1..n /\ \A q \in RgRequests : rgReq[q].since <= n
    BY <1>1 DEF Numbered
  <2>2. x.since <= n
    BY <2>1, CountRows
  <2> QED
    BY <1>2, <1>3, <2>1, <2>2 DEF Numbered
<1>7. AddressChecked'
  BY <1>1, <1>2, <1>3 DEF AddressChecked
<1>8. OneAccountPerAddress'
  BY <1>1, <1>3 DEF OneAccountPerAddress
<1> QED
  BY <1>4, <1>5, <1>6, <1>7, <1>8 DEF RegistrationInv

\* What a request may go on to hold: it ends, or moves on with what it has.
LEMMA RequestMoves ==
    ASSUME RegistrationInv, NEW r \in RgRequests, UNCHANGED users, welcome' \subseteq Pks,
           \/ RgDone(r)
           \/ RgAt(r, "check_name") /\ RgGoto(r, "check_email")
           \/ RgAt(r, "clean") /\ RgGoto(r, "save")
           \/ RgAt(r, "pick_name") /\ RgGoto(r, "social_save")
    PROVE  RegistrationInv'
<1>1. RegistrationTypeOK /\ RequestsHold /\ Numbered /\ AddressChecked
  BY DEF RegistrationInv
<1>2. PICK n \in 0..MaxUsers : Rows = 1..n /\ \A q \in RgRequests : rgReq[q].since <= n
  BY <1>1 DEF Numbered
<1>3. Cardinality(Rows) = n /\ n \in Nat
  BY <1>2, CountRows, RegistrationAssumption
<1>4. CASE RgDone(r)
  <2>1. rgReq' = [rgReq EXCEPT ![r] = RgIdle]
    BY <1>4 DEF RgDone
  <2>2. RgIdle.since <= Cardinality(Rows)
    BY <1>3, IdleRequest
  <2>3. RgIdle \in RgRequest /\ RgIdle.pc = "idle"
    BY IdleRequest
  <2> HIDE DEF RgIdle
  <2> QED
    BY <2>1, <2>2, <2>3, RequestStep
<1>5. ASSUME NEW pc \in {"check_email", "save", "social_save"}, RgGoto(r, pc),
             pc = "check_email" => RgAt(r, "check_name"),
             pc = "save" => RgAt(r, "clean"),
             pc = "social_save" => RgAt(r, "pick_name")
      PROVE  RegistrationInv'
  <2> DEFINE x == [rgReq[r] EXCEPT !.pc = pc]
  <2>1. /\ x \in RgRequest
        /\ x.pc = pc /\ x.name = rgReq[r].name /\ x.email = rgReq[r].email
        /\ x.since = rgReq[r].since
    BY <1>1, RegistrationTypes DEF RgRequest
  <2>2. rgReq' = [rgReq EXCEPT ![r] = x]
    BY <1>1, <1>5, RegistrationTypes DEF RgGoto
  <2>3. x.name \in UserNames /\ x.email \in Addresses
    BY <1>1, <1>5, <2>1 DEF RequestsHold, RgAt
  <2>4. x.since <= Cardinality(Rows)
    BY <1>2, <1>3, <2>1
  <2>5. x.pc \in {"clean", "save", "pick_name", "social_save"} =>
           \A u \in Rows : u <= x.since => users[u].email # x.email
    BY <1>1, <1>5, <2>1 DEF AddressChecked, RgAt
  <2>6. x.pc # "on_commit"
    BY <2>1
  <2> HIDE DEF x
  <2> QED
    BY <2>1, <2>2, <2>3, <2>4, <2>5, <2>6, RequestStep
<1> QED
  BY <1>4, <1>5

\* A request that has looked for its address among all the accounts.
LEMMA RequestChecks ==
    ASSUME RegistrationInv, NEW r \in RgRequests, UNCHANGED <<users, welcome>>,
           NEW pc \in {"clean", "pick_name"}, RgAt(r, "check_email") \/ RgAt(r, "find"),
           WithAddress(rgReq[r].email) = {},
           rgReq' = [rgReq EXCEPT ![r].pc = pc, ![r].since = Cardinality(Rows)]
    PROVE  RegistrationInv'
<1>1. RegistrationTypeOK /\ RequestsHold /\ Numbered /\ AddressChecked
  BY DEF RegistrationInv
<1>2. PICK n \in 0..MaxUsers : Rows = 1..n
  BY <1>1 DEF Numbered
<1>3. Cardinality(Rows) = n
  BY <1>2, CountRows
<1> DEFINE x == [rgReq[r] EXCEPT !.pc = pc, !.since = n]
<1>4. /\ x \in RgRequest
      /\ x.pc = pc /\ x.name = rgReq[r].name /\ x.email = rgReq[r].email /\ x.since = n
  BY <1>1, RegistrationTypes DEF RgRequest
<1>5. rgReq' = [rgReq EXCEPT ![r] = x]
  BY <1>1, <1>3, RegistrationTypes
<1>6. x.name \in UserNames /\ x.email \in Addresses
  BY <1>1, <1>4 DEF RequestsHold, RgAt
<1>7. \A u \in Rows : users[u].email # x.email
  BY <1>4 DEF WithAddress
<1>8. welcome' \subseteq Pks /\ users' = users
  BY <1>1 DEF RegistrationTypeOK
<1>9. x.pc # "on_commit" /\ x.since <= Cardinality(Rows)
  BY <1>2, <1>3, <1>4
<1>10. x \in RgRequest
  BY <1>4
<1> HIDE DEF x
<1> QED
  BY <1>5, <1>6, <1>7, <1>8, <1>9, <1>10, RequestStep

\* A request that begins, or tries the next user name.
LEMMA RequestNames ==
    ASSUME RegistrationInv, NEW r \in RgRequests, UNCHANGED <<users, welcome>>,
           \/ \E n \in UserNames, a \in Addresses : RegisterBegin(r, n, a)
           \/ \E answer \in Answers, b \in Bases : SocialBegin(r, answer, b)
           \/ /\ RgAt(r, "pick_name") /\ rgReq[r].name[2] < MaxSuffix
              /\ rgReq' = [rgReq EXCEPT ![r].name = <<@[1], @[2] + 1>>]
    PROVE  RegistrationInv'
<1>1. RegistrationTypeOK /\ RequestsHold /\ Numbered /\ AddressChecked
  BY DEF RegistrationInv
<1>2. PICK n \in 0..MaxUsers : Rows = 1..n /\ \A q \in RgRequests : rgReq[q].since <= n
  BY <1>1 DEF Numbered
<1>3. Cardinality(Rows) = n /\ n \in Nat
  BY <1>2, CountRows, RegistrationAssumption
<1>4. ASSUME NEW pc \in {"check_name", "find"}, NEW name \in UserNames, NEW a \in Addresses,
             rgReq' = [rgReq EXCEPT ![r] = [RgIdle EXCEPT !.pc = pc, !.name = name, !.email = a]]
      PROVE  RegistrationInv'
  <2> DEFINE x == [RgIdle EXCEPT !.pc = pc, !.name = name, !.email = a]
  <2>1. /\ x \in RgRequest
        /\ x.pc = pc /\ x.name = name /\ x.email = a /\ x.since = 0
    BY IdleRequest DEF RgIdle, RgRequest
  <2>2. welcome' \subseteq Pks
    BY <1>1 DEF RegistrationTypeOK
  <2>3. rgReq' = [rgReq EXCEPT ![r] = x]
    BY <1>4
  <2>4. x.since <= Cardinality(Rows)
    BY <1>3, <2>1
  <2>5. /\ x.pc # "on_commit"
        /\ x.pc \notin {"clean", "save", "pick_name", "social_save"}
    BY <2>1
  <2> HIDE DEF x
  <2> QED
    BY <2>1, <2>2, <2>3, <2>4, <2>5, RequestStep
<1>5. ASSUME NEW name \in UserNames, NEW a \in Addresses, RegisterBegin(r, name, a)
      PROVE  RegistrationInv'
  BY <1>4, <1>5 DEF RegisterBegin
<1>6. ASSUME NEW answer \in Answers, NEW b \in Bases, SocialBegin(r, answer, b)
      PROVE  RegistrationInv'
  <2>1. Fetched(answer) \in Addresses
    BY <1>6 DEF SocialBegin, Fetched, Answers
  <2>2. <<b, 0>> \in UserNames
    BY RegistrationAssumption DEF UserNames
  <2> QED
    BY <1>4, <1>6, <2>1, <2>2 DEF SocialBegin
<1>7. ASSUME RgAt(r, "pick_name"), rgReq[r].name[2] < MaxSuffix,
             rgReq' = [rgReq EXCEPT ![r].name = <<@[1], @[2] + 1>>]
      PROVE  RegistrationInv'
  <2> DEFINE name == <<rgReq[r].name[1], rgReq[r].name[2] + 1>>
             x == [rgReq[r] EXCEPT !.name = name]
  <2>1. rgReq[r].name \in UserNames
    BY <1>1, <1>7 DEF RequestsHold, RgAt
  <2>2. name \in UserNames
    BY <1>7, <2>1, RegistrationAssumption DEF UserNames
  <2>3. /\ x \in RgRequest
        /\ x.pc = "pick_name" /\ x.name = name /\ x.email = rgReq[r].email
        /\ x.since = rgReq[r].since
    <3> HIDE DEF name
    <3> QED
      BY <1>1, <1>7, <2>2, RegistrationTypes DEF RgRequest, RgAt
  <2>4. rgReq' = [rgReq EXCEPT ![r] = x]
    BY <1>1, <1>7, RegistrationTypes
  <2>5. x.email \in Addresses /\ x.since <= Cardinality(Rows)
    BY <1>1, <1>2, <1>3, <1>7, <2>3 DEF RequestsHold, RgAt
  <2>6. \A u \in Rows : u <= x.since => users[u].email # x.email
    BY <1>1, <1>7, <2>3 DEF AddressChecked, RgAt
  <2>7. welcome' \subseteq Pks
    BY <1>1 DEF RegistrationTypeOK
  <2> HIDE DEF x, name
  <2> QED
    BY <2>2, <2>3, <2>4, <2>5, <2>6, <2>7, RequestStep
<1> QED
  BY <1>5, <1>6, <1>7

\* A new account comes after all the others, and those that its address was looked
\* for among do not have it.
LEMMA InsertKeeps ==
    ASSUME RegistrationInv, NEW r \in RgRequests, NEW kind \in {"password", "social"},
           RgAt(r, "save") \/ RgAt(r, "social_save"),
           NextPk \in Pks, Insert(r, kind), UNCHANGED welcome,
           \/ RgDone(r)
           \/ rgReq' = [rgReq EXCEPT ![r].pc = "on_commit", ![r].pk = NextPk]
    PROVE  RegistrationInv'
<1>1. RegistrationTypeOK /\ RequestsHold /\ Numbered /\ AddressChecked /\ OneAccountPerAddress
  BY DEF RegistrationInv
<1>2. PICK n \in 0..MaxUsers : Rows = 1..n /\ \A q \in RgRequests : rgReq[q].since <= n
  BY <1>1 DEF Numbered
<1>3. NextPk = n + 1 /\ n \in Nat /\ n + 1 \in Pks /\ n + 1 \in 0..MaxUsers
  BY <1>2, CountRows, RegistrationAssumption DEF Pks
<1> DEFINE y == [name |-> rgReq[r].name, email |-> rgReq[r].email, kind |-> kind,
                 since |-> rgReq[r].since]
<1>4. /\ y \in AccountRow
      /\ y.kind # "none" /\ y.email = rgReq[r].email /\ y.since = rgReq[r].since
  BY <1>1, RegistrationTypes DEF AccountRow, RgRequest
<1>5. users' = [users EXCEPT ![n + 1] = y]
  BY <1>3 DEF Insert
<1> HIDE DEF y
<1>6. users'[n + 1] = y /\ \A u \in Pks \ {n + 1} : users'[u] = users[u]
  BY <1>1, <1>3, <1>5 DEF RegistrationTypeOK
<1>7. Rows' = 1..(n + 1)
  <2>1. \A u \in Pks : u \in Rows' <=> u \in Rows \/ u = n + 1
    BY <1>3, <1>4, <1>6 DEF Rows
  <2>2. Rows' \subseteq Pks /\ Rows \subseteq Pks
    BY DEF Rows
  <2>3. \A u : u \in 1..(n + 1) <=> u \in 1..n \/ u = n + 1
    BY <1>3
  <2>4. \A u : u \in Rows' <=> u \in Rows \/ u = n + 1
    BY <1>3, <2>1, <2>2
  <2>5. \A u : u \in Rows' <=> u \in 1..(n + 1)
    BY <1>2, <2>3, <2>4
  <2> QED
    BY <2>5
<1>8. \E x : /\ rgReq' = [rgReq EXCEPT ![r] = x] /\ x.pc \in {"idle", "on_commit"} /\ x.since <= n
             /\ x.pc # "idle" => x.name = rgReq[r].name /\ x.email = rgReq[r].email /\ x.pk = n + 1
             /\ x \in RgRequest
  <2>1. CASE RgDone(r)
    <3>1. rgReq' = [rgReq EXCEPT ![r] = RgIdle]
      BY <2>1 DEF RgDone
    <3>2. RgIdle \in RgRequest /\ RgIdle.pc = "idle" /\ RgIdle.since <= n
      BY <1>3, IdleRequest
    <3> QED
      BY <3>1, <3>2
  <2>2. CASE rgReq' = [rgReq EXCEPT ![r].pc = "on_commit", ![r].pk = NextPk]
    <3> DEFINE z == [rgReq[r] EXCEPT !.pc = "on_commit", !.pk = n + 1]
    <3>1. rgReq' = [rgReq EXCEPT ![r] = z]
      BY <1>1, <1>3, <2>2, RegistrationTypes DEF RgRequest
    <3>2. /\ z.pc = "on_commit" /\ z.pk = n + 1 /\ z.name = rgReq[r].name
          /\ z.email = rgReq[r].email /\ z.since = rgReq[r].since
          /\ z \in RgRequest
      <4>1. rgReq[r] \in RgRequest /\ n + 1 \in 0..MaxUsers
        BY <1>1, <1>3, RegistrationTypes
      <4> QED
        BY <4>1 DEF RgRequest
    <3> HIDE DEF z
    <3> QED
      BY <1>2, <3>1, <3>2
  <2> QED
    BY <2>1, <2>2
<1>9. PICK x : /\ rgReq' = [rgReq EXCEPT ![r] = x] /\ x.pc \in {"idle", "on_commit"} /\ x.since <= n
               /\ x.pc # "idle" => x.name = rgReq[r].name /\ x.email = rgReq[r].email /\ x.pk = n + 1
               /\ x \in RgRequest
  BY <1>8
<1>10. rgReq'[r] = x /\ \A q \in RgRequests \ {r} : rgReq'[q] = rgReq[q]
  BY <1>1, <1>9, RegistrationTypes
<1>11. RegistrationTypeOK'
  <2>1. users' \in [Pks -> AccountRow] /\ rgReq' \in [RgRequests -> RgRequest] /\ welcome' \subseteq Pks
    BY <1>1, <1>3, <1>4, <1>5, <1>9, RegistrationTypes
  <2> QED
    BY <2>1 DEF RegistrationTypeOK, AccountRow, RgRequest
<1>12. RequestsHold'
  BY <1>1, <1>3, <1>9, <1>10 DEF RequestsHold, RgAt
<1>13. Numbered'
  <2>1. \A q \in RgRequests : rgReq'[q].since <= n + 1
    <3>1. x.since \in Nat /\ x.since <= n
      BY <1>9 DEF RgRequest
    <3>2. \A q \in RgRequests : rgReq[q].since \in Nat /\ rgReq[q].since <= n
      BY <1>1, <1>2 DEF RegistrationTypeOK
    <3> QED
      BY <1>3, <1>10, <3>1, <3>2
  <2> QED
    BY <1>3, <1>7, <2>1 DEF Numbered
<1>14. AddressChecked'
  <2> SUFFICES ASSUME NEW q \in RgRequests, NEW u \in Rows',
                      rgReq'[q].pc \in {"clean", "save", "pick_name", "social_save"},
                      u <= rgReq'[q].since
               PROVE  users'[u].email # rgReq'[q].email
    BY DEF AddressChecked
  <2>1. q # r /\ rgReq'[q] = rgReq[q] /\ rgReq[q].since \in Nat
    BY <1>1, <1>9, <1>10 DEF RegistrationTypeOK
  <2>2. u # n + 1 /\ u \in 1..n
    BY <1>2, <1>3, <1>7, <2>1
  <2>3. u \in Rows /\ u \in Pks
    BY <1>2, <2>2 DEF Rows
  <2> QED
    BY <1>1, <1>6, <2>1, <2>2, <2>3 DEF AddressChecked
<1>15. OneAccountPerAddress'
  <2> SUFFICES ASSUME NEW u \in Rows', NEW v \in Rows', u < v,
                      users'[u].email = users'[v].email, users'[u].email # NoAddress
               PROVE  u > users'[v].since
    BY DEF OneAccountPerAddress
  <2>1. u \in 1..n /\ u \in Rows /\ u \in Pks /\ users'[u] = users[u] /\ u # n + 1
    BY <1>2, <1>3, <1>6, <1>7 DEF Rows
  <2>2. CASE v = n + 1
    <3>1. users[u].email = rgReq[r].email /\ users'[v].since = rgReq[r].since
      BY <1>4, <1>6, <2>1, <2>2
    <3>2. ~(u <= rgReq[r].since)
      BY <1>1, <2>1, <3>1 DEF AddressChecked, RgAt
    <3>3. rgReq[r].since \in Nat
      BY <1>1 DEF RegistrationTypeOK
    <3> QED
      BY <2>1, <3>1, <3>2, <3>3
  <2>3. CASE v # n + 1
    <3>1. v \in Rows /\ v \in Pks /\ users'[v] = users[v]
      BY <1>2, <1>3, <1>6, <1>7, <2>3 DEF Rows
    <3> QED
      BY <1>1, <2>1, <3>1 DEF OneAccountPerAddress
  <2> QED
    BY <2>2, <2>3
<1> QED
  BY <1>11, <1>12, <1>13, <1>14, <1>15 DEF RegistrationInv

\* An erased account gives up its address.
LEMMA AnonymizedKeeps ==
    ASSUME RegistrationInv, NEW u \in Pks, Anonymized(u)
    PROVE  RegistrationInv'
<1>1. RegistrationTypeOK /\ RequestsHold /\ Numbered /\ AddressChecked /\ OneAccountPerAddress
  BY DEF RegistrationInv
<1> DEFINE y == [NoUserRow EXCEPT !.kind = "erased"]
<1>2. /\ y \in AccountRow
      /\ y.kind # "none" /\ y.email = NoAddress
  BY IdleRequest DEF NoUserRow, AccountRow, RgIdle, RgRequest
<1>3. u \in Rows /\ users' = [users EXCEPT ![u] = y] /\ UNCHANGED <<rgReq, welcome>>
  BY DEF Anonymized
<1> HIDE DEF y
<1>4. users'[u] = y /\ \A v \in Pks \ {u} : users'[v] = users[v]
  BY <1>1, <1>3 DEF RegistrationTypeOK
<1>5. Rows' = Rows
  BY <1>2, <1>3, <1>4 DEF Rows
<1>6. RegistrationTypeOK'
  <2>1. users' \in [Pks -> AccountRow] /\ rgReq' \in [RgRequests -> RgRequest] /\ welcome' \subseteq Pks
    BY <1>1, <1>2, <1>3, RegistrationTypes
  <2> QED
    BY <2>1 DEF RegistrationTypeOK, AccountRow, RgRequest
<1>7. RequestsHold' /\ Numbered'
  BY <1>1, <1>3, <1>5 DEF RequestsHold, Numbered
<1>8. \A v \in Rows : v \in Pks
  BY DEF Rows
<1>9. AddressChecked'
  BY <1>1, <1>2, <1>3, <1>4, <1>5, <1>8, RegistrationAssumption
     DEF AddressChecked, RequestsHold
<1>10. OneAccountPerAddress'
  BY <1>1, <1>2, <1>4, <1>5, <1>8 DEF OneAccountPerAddress
<1> QED
  BY <1>6, <1>7, <1>9, <1>10 DEF RegistrationInv

\* RegistrationInv is inductive.
LEMMA RegistrationInvStep == RegistrationInv /\ [RegistrationNext]_rgVars => RegistrationInv'
<1> SUFFICES ASSUME RegistrationInv, [RegistrationNext]_rgVars PROVE RegistrationInv'
  OBVIOUS
<1>1. welcome \subseteq Pks
  BY DEF RegistrationInv, RegistrationTypeOK
<1>2. ASSUME NEW r \in RgRequests,
             \/ \E n \in UserNames, a \in Addresses : RegisterBegin(r, n, a)
             \/ \E answer \in Answers, b \in Bases : SocialBegin(r, answer, b)
      PROVE  RegistrationInv'
  <2>1. UNCHANGED <<users, welcome>>
    BY <1>2 DEF RegisterBegin, SocialBegin
  <2> QED
    BY <1>2, <2>1, RequestNames
<1>3. ASSUME NEW r \in RgRequests, CheckName(r) \/ FullClean(r) \/ RgCrash(r)
      PROVE  RegistrationInv'
  BY <1>1, <1>3, RequestMoves DEF CheckName, FullClean, RgCrash
<1>4. ASSUME NEW r \in RgRequests, CheckEmail(r) \/ SocialFind(r)  PROVE RegistrationInv'
  BY <1>1, <1>4, RequestMoves, RequestChecks DEF CheckEmail, SocialFind
<1>5. ASSUME NEW r \in RgRequests, PickName(r)  PROVE RegistrationInv'
  BY <1>1, <1>5, RequestMoves, RequestNames DEF PickName
<1>6. ASSUME NEW r \in RgRequests, RegisterSave(r) \/ SocialSave(r)  PROVE RegistrationInv'
  <2>1. CASE NameTaken(rgReq[r].name)
    BY <1>1, <1>6, <2>1, RequestMoves DEF RegisterSave, SocialSave
  <2>2. CASE ~NameTaken(rgReq[r].name)
    BY <1>6, <2>2, InsertKeeps DEF RegisterSave, SocialSave
  <2> QED
    BY <2>1, <2>2
<1>7. ASSUME NEW r \in RgRequests, EnqueueWelcome(r)  PROVE RegistrationInv'
  <2>1. welcome' \subseteq Pks
    BY <1>1, <1>7 DEF EnqueueWelcome, RgAt, RegistrationInv, RequestsHold
  <2> QED
    BY <1>7, <2>1, RequestMoves DEF EnqueueWelcome
<1>8. ASSUME NEW u \in Pks, Anonymized(u)  PROVE RegistrationInv'
  BY <1>8, AnonymizedKeeps
<1>9. CASE UNCHANGED rgVars
  BY <1>9 DEF rgVars, RegistrationInv, RegistrationTypeOK, RequestsHold, Numbered, Rows,
              AddressChecked, OneAccountPerAddress
<1> QED
  BY <1>2, <1>3, <1>4, <1>5, <1>6, <1>7, <1>8, <1>9 DEF RegistrationNext

\* So it holds throughout.
LEMMA RegistrationInvHolds == RegistrationSpec => []RegistrationInv
<1>1. RgInit => RegistrationInv
  <2> SUFFICES ASSUME RgInit PROVE RegistrationInv
    OBVIOUS
  <2>1. Rows = {} /\ 1..0 = {} /\ 0 \in 0..MaxUsers
    BY RegistrationAssumption DEF RgInit, Rows, NoUserRow, Pks
  <2>2. \A r \in RgRequests : rgReq[r].pc = "idle" /\ rgReq[r].since = 0
    BY DEF RgInit, RgIdle
  <2>3. RegistrationTypeOK
    BY RegistrationAssumption DEF RgInit, RgIdle, NoUserRow, RegistrationTypeOK
  <2> QED
    BY <2>1, <2>2, <2>3 DEF RegistrationInv, RequestsHold, Numbered, AddressChecked,
                            OneAccountPerAddress
<1> QED
  BY <1>1, RegistrationInvStep, PTL DEF RegistrationSpec

\* The type invariant of registration.
THEOREM AccountsAreTyped == RegistrationSpec => []RegistrationTypeOK
<1>1. RegistrationInv => RegistrationTypeOK
  BY DEF RegistrationInv
<1> QED
  BY <1>1, RegistrationInvHolds, PTL

\* Two accounts share an address only when their creations crossed, although no
\* constraint of the database says so: what the numbers of the rows make of
\* check-then-create, for any number of requests.
THEOREM AccountsAreApart == RegistrationSpec => []OneAccountPerAddress
<1>1. RegistrationInv => OneAccountPerAddress
  BY DEF RegistrationInv
<1> QED
  BY <1>1, RegistrationInvHolds, PTL

-----------------------------------------------------------------------------
(* FeatureFlags *)

ReaderType ==
    [pc : {"idle", "list", "list_overrides", "detail", "detail_waffle", "answered"},
     flag : Flags \cup {""}, answer : States \cup {"none"}, was : SUBSET States,
     touched : SUBSET {"override", "waffle", "missing", "failed"}]

SyncType == [pc : {"idle", "write"}, slug : Slugs \cup {""}, todo : SUBSET Flags, alone : BOOLEAN]

FlagsTyped ==
    /\ override \in [Flags -> States \cup {"none"}]
    /\ waffle \in [Flags -> States \cup {"none"}]
    /\ slug \in Slugs
    /\ reader \in [Readers -> ReaderType]
    /\ sync \in [Syncs -> SyncType]
    /\ synced \in BOOLEAN

\* The answer of reader x is off for want of an entry, and should be on by default.
Unsure(x) == "missing" \in x.touched /\ x.answer = "off" /\ Default(x.flag) = "on"

\* What holds of a reader x between its two queries, when the overrides are ov and
\* waffle is wf: the state of the moment has been seen, and the half of the answer
\* that it holds is still good unless the other half has been written.
ReaderSound(x, ov, wf) ==
    /\ x.pc # "idle" => x.flag \in Flags
    /\ x.pc \notin {"idle", "answered"} => Resolved(x.flag, ov, wf) \in x.was
    /\ x.pc = "list_overrides" /\ "failed" \notin x.touched =>
          IF x.flag \in Known
          THEN /\ x.answer = Below(x.flag, wf) \/ "waffle" \in x.touched \/ Unsure(x)
               /\ ov[x.flag] = "none" /\ "override" \notin x.touched => x.answer \in x.was \/ Unsure(x)
          ELSE x.answer = "none"
    /\ x.pc = "detail_waffle" /\ "failed" \notin x.touched =>
          /\ ov[x.flag] = "none" \/ "override" \in x.touched
          /\ "waffle" \notin x.touched => Below(x.flag, wf) \in x.was
    /\ x.pc = "list" => x.answer = "none"
    /\ x.pc = "answered" =>
          \/ x.answer \in x.was
          \/ x.answer = "none" /\ x.flag \notin Known
          \/ {"override", "waffle"} \subseteq x.touched
          \/ "failed" \in x.touched
          \/ Unsure(x)

\* A reader x after a write to flag f: it has seen it if it is reading that flag.
AfterWrite(x, f, what, pcs, ov, wf) ==
    IF x.pc \notin {"idle", "answered"} /\ x.flag = f
    THEN [x EXCEPT !.was = @ \cup {Resolved(f, ov, wf)},
                   !.touched = @ \cup (IF x.pc \in pcs THEN {what} ELSE {})]
    ELSE x

ReadersSound == \A r \in Readers : ReaderSound(reader[r], override, waffle)

\* The overrides agree with plan p for its flags but those still to be written.
Agrees(p, todo) == \A f \in FlagsOf(p) \ todo : override[f] = AsState(PlanFlags[p][f])

\* A sync that nothing has disturbed works for the plan of the moment.
SyncsSound ==
    /\ \A s \in Syncs : sync[s].pc = "write" =>
          /\ sync[s].slug \in DOMAIN PlanFlags
          /\ sync[s].todo \subseteq FlagsOf(sync[s].slug)
          /\ sync[s].alone => sync[s].slug = slug /\ Agrees(slug, sync[s].todo)
    /\ synced => Agrees(slug, {})

FlagsInv == FlagsTyped /\ ReadersSound /\ SyncsSound

\* What the setting says of a plan's flag is a state of a flag.
LEMMA PlanStates ==
    ASSUME NEW p
    PROVE  /\ FlagsOf(p) \subseteq Flags
           /\ FlagsOf(p) # {} => p \in DOMAIN PlanFlags
           /\ \A f \in FlagsOf(p) : AsState(PlanFlags[p][f]) \in States
<1>1. CASE p \in DOMAIN PlanFlags
  BY <1>1, FeatureFlagsAssumption DEF FlagsOf, AsState, States
<1>2. CASE p \notin DOMAIN PlanFlags
  BY <1>2 DEF FlagsOf
<1> QED
  BY <1>1, <1>2

\* A flag has one of the two states, whatever decides it.
LEMMA ResolvedState ==
    ASSUME NEW ov \in [Flags -> States \cup {"none"}], NEW wf \in [Flags -> States \cup {"none"}],
           NEW f \in Flags
    PROVE  Resolved(f, ov, wf) \in States /\ Below(f, wf) \in States /\ Default(f) \in States
<1>1. Default(f) \in States
  BY DEF Default, AsState, States
<1> QED
  BY <1>1 DEF Resolved, Below

\* A table of the overrides or of waffle, and two such tables that differ at f at most.
FlagMap == [Flags -> States \cup {"none"}]
SameBut(new, old, f) == \A g \in Flags \ {f} : new[g] = old[g]

\* A write of an override leaves every reader sound: those of the flag have seen it.
LEMMA OverrideSeen ==
    ASSUME NEW ov \in FlagMap, NEW wf \in FlagMap,
           NEW f \in Flags, NEW state \in States \cup {"none"},
           NEW new \in FlagMap,
           new[f] = state, SameBut(new, ov, f),
           NEW x \in ReaderType, ReaderSound(x, ov, wf),
           NEW y, y = AfterWrite(x, f, "override", Misled(state), new, wf)
    PROVE  y \in ReaderType /\ ReaderSound(y, new, wf)
<1>1. /\ \A g \in Flags \ {f} : new[g] = ov[g]
      /\ ov \in [Flags -> States \cup {"none"}] /\ wf \in [Flags -> States \cup {"none"}]
      /\ new \in [Flags -> States \cup {"none"}]
  BY DEF SameBut, FlagMap
<1>2. CASE x.pc \notin {"idle", "answered"} /\ x.flag = f
  <2> DEFINE now == Resolved(f, new, wf)
             more == IF x.pc \in Misled(state) THEN {"override"} ELSE {}
  <2>1. now \in States /\ more \subseteq {"override"}
    BY <1>1, ResolvedState
  <2>2. /\ x.pc = "list_overrides" /\ state = "none" => "override" \in more
        /\ x.pc = "detail_waffle" /\ state # "none" => "override" \in more
    BY DEF Misled
  <2> HIDE DEF now, more
  <2>3. /\ y \in ReaderType
        /\ y.pc = x.pc /\ y.flag = f /\ y.answer = x.answer
        /\ y.was = x.was \cup {now} /\ y.touched = x.touched \cup more
    BY <1>2, <2>1 DEF ReaderType, now, more, AfterWrite
  <2>4. Resolved(y.flag, new, wf) \in y.was
    BY <2>3 DEF now
  <2>5. Unsure(x) => Unsure(y)
    BY <1>2, <2>3 DEF Unsure
  <2>6. "failed" \notin y.touched => "failed" \notin x.touched
    BY <2>3
  <2>7. ASSUME y.pc = "list_overrides", "failed" \notin y.touched, f \in Known
        PROVE  /\ y.answer = Below(f, wf) \/ "waffle" \in y.touched \/ Unsure(y)
               /\ new[f] = "none" /\ "override" \notin y.touched => y.answer \in y.was \/ Unsure(y)
    BY <1>1, <1>2, <2>2, <2>3, <2>5, <2>6, <2>7 DEF ReaderSound
  <2>8. ASSUME y.pc = "detail_waffle", "failed" \notin y.touched
        PROVE  /\ new[f] = "none" \/ "override" \in y.touched
               /\ "waffle" \notin y.touched => Below(f, wf) \in y.was
    BY <1>1, <1>2, <2>2, <2>3, <2>6, <2>8 DEF ReaderSound
  <2> QED
    BY <1>2, <2>3, <2>4, <2>6, <2>7, <2>8 DEF ReaderSound
<1>3. CASE ~(x.pc \notin {"idle", "answered"} /\ x.flag = f)
  <2>1. y = x
    BY <1>3 DEF AfterWrite
  <2>2. x.pc \notin {"idle", "answered"} => new[x.flag] = ov[x.flag]
    BY <1>1, <1>3 DEF ReaderSound
  <2> QED
    BY <2>1, <2>2 DEF ReaderSound, Resolved
<1> QED
  BY <1>2, <1>3

\* So does a write of waffle.
LEMMA WaffleSeen ==
    ASSUME NEW ov \in FlagMap, NEW wf \in FlagMap,
           NEW f \in Flags,
           NEW new \in FlagMap,
           SameBut(new, wf, f),
           NEW x \in ReaderType, ReaderSound(x, ov, wf),
           NEW y, y = AfterWrite(x, f, "waffle", Between, ov, new)
    PROVE  y \in ReaderType /\ ReaderSound(y, ov, new)
<1>1. /\ \A g \in Flags \ {f} : new[g] = wf[g]
      /\ ov \in [Flags -> States \cup {"none"}] /\ wf \in [Flags -> States \cup {"none"}]
      /\ new \in [Flags -> States \cup {"none"}]
  BY DEF SameBut, FlagMap
<1>2. CASE x.pc \notin {"idle", "answered"} /\ x.flag = f
  <2> DEFINE now == Resolved(f, ov, new)
             more == IF x.pc \in Between THEN {"waffle"} ELSE {}
  <2>1. now \in States /\ more \subseteq {"waffle"}
    BY <1>1, ResolvedState
  <2>2. x.pc \in {"list_overrides", "detail_waffle"} => "waffle" \in more
    BY DEF Between
  <2> HIDE DEF now, more
  <2>3. /\ y \in ReaderType
        /\ y.pc = x.pc /\ y.flag = f /\ y.answer = x.answer
        /\ y.was = x.was \cup {now} /\ y.touched = x.touched \cup more
    BY <1>2, <2>1 DEF ReaderType, now, more, AfterWrite
  <2>4. Resolved(y.flag, ov, new) \in y.was
    BY <2>3 DEF now
  <2>5. Unsure(x) => Unsure(y)
    BY <1>2, <2>3 DEF Unsure
  <2>6. /\ "failed" \notin y.touched => "failed" \notin x.touched
        /\ "override" \notin y.touched <=> "override" \notin x.touched
    BY <2>1, <2>3
  <2>7. ASSUME y.pc = "list_overrides", "failed" \notin y.touched, f \in Known
        PROVE  /\ "waffle" \in y.touched
               /\ ov[f] = "none" /\ "override" \notin y.touched => y.answer \in y.was \/ Unsure(y)
    BY <1>2, <2>2, <2>3, <2>5, <2>6, <2>7 DEF ReaderSound
  <2>8. ASSUME y.pc = "detail_waffle", "failed" \notin y.touched
        PROVE  "waffle" \in y.touched /\ (ov[f] = "none" \/ "override" \in y.touched)
    BY <1>2, <2>2, <2>3, <2>6, <2>8 DEF ReaderSound
  <2> QED
    BY <1>2, <2>3, <2>4, <2>6, <2>7, <2>8 DEF ReaderSound
<1>3. CASE ~(x.pc \notin {"idle", "answered"} /\ x.flag = f)
  <2>1. y = x
    BY <1>3 DEF AfterWrite
  <2>2. x.pc \notin {"idle", "answered"} => new[x.flag] = wf[x.flag]
    BY <1>1, <1>3 DEF ReaderSound
  <2> QED
    BY <2>1, <2>2 DEF ReaderSound, Resolved, Below
<1> QED
  BY <1>2, <1>3

\* Setting or deleting an override keeps what is said of the readers.
LEMMA SetOverrideKeeps ==
    ASSUME FlagsTyped, ReadersSound, NEW f \in Flags, NEW state \in States \cup {"none"},
           SetOverride(f, state), waffle' = waffle
    PROVE  /\ override' \in [Flags -> States \cup {"none"}]
           /\ override'[f] = state /\ \A g \in Flags \ {f} : override'[g] = override[g]
           /\ reader' \in [Readers -> ReaderType] /\ ReadersSound'
<1>1. /\ override' = [override EXCEPT ![f] = state]
      /\ reader' = Seen(f, "override", Misled(state), override', waffle)
  BY DEF SetOverride
<1>2. /\ override \in [Flags -> States \cup {"none"}] /\ waffle \in [Flags -> States \cup {"none"}]
      /\ reader \in [Readers -> ReaderType]
  BY DEF FlagsTyped
<1>3. ASSUME NEW r \in Readers
      PROVE  reader'[r] \in ReaderType /\ ReaderSound(reader'[r], override', waffle)
  <2>1. reader[r] \in ReaderType /\ ReaderSound(reader[r], override, waffle)
    BY <1>2 DEF ReadersSound
  <2>2. reader'[r] = AfterWrite(reader[r], f, "override", Misled(state), override', waffle)
    BY <1>1 DEF Seen, AfterWrite
  <2>3. PICK new \in FlagMap : new = override' /\ new[f] = state /\ SameBut(new, override, f)
    BY <1>1, <1>2 DEF FlagMap, SameBut
  <2>4. PICK x \in ReaderType : x = reader[r] /\ ReaderSound(x, override, waffle)
    BY <2>1
  <2>5. PICK y : y = AfterWrite(x, f, "override", Misled(state), new, waffle)
    OBVIOUS
  <2>6. PICK ov \in FlagMap, wf \in FlagMap : ov = override /\ wf = waffle
    BY <1>2 DEF FlagMap
  <2>7. y \in ReaderType /\ ReaderSound(y, new, wf)
    BY <2>3, <2>4, <2>5, <2>6, OverrideSeen
  <2> QED
    BY <2>2, <2>3, <2>4, <2>5, <2>6, <2>7
<1>4. reader' \in [Readers -> ReaderType]
  <2>1. reader' = [r \in Readers |-> reader'[r]]
    BY <1>1 DEF Seen
  <2> QED
    BY <1>3, <2>1
<1> QED
  BY <1>1, <1>2, <1>3, <1>4 DEF ReadersSound

\* A reader that moves alone.
LEMMA ReaderStep ==
    ASSUME FlagsInv, NEW r \in Readers, NEW x \in ReaderType, ReaderSound(x, override, waffle),
           reader' = [reader EXCEPT ![r] = x],
           UNCHANGED <<override, waffle, slug, sync, synced>>
    PROVE  FlagsInv'
<1>1. FlagsTyped'
  BY DEF FlagsInv, FlagsTyped
<1>2. ReadersSound'
  BY DEF FlagsInv, FlagsTyped, ReadersSound
<1>3. SyncsSound'
  BY DEF FlagsInv, SyncsSound, Agrees
<1> QED
  BY <1>1, <1>2, <1>3 DEF FlagsInv

\* waffle's answer, or one of those that stand in for it.
LEMMA Asked ==
    ASSUME FlagsInv, NEW r \in Readers, NEW pc \in {"list_overrides", "answered"},
           reader[r].pc # "idle", AskWaffle(r, pc)
    PROVE  \E x \in ReaderType :
              /\ reader' = [reader EXCEPT ![r] = x]
              /\ x.pc = pc /\ x.flag = reader[r].flag /\ x.was = reader[r].was
              /\ reader[r].touched \subseteq x.touched
              /\ x.answer = Below(reader[r].flag, waffle) \/ "failed" \in x.touched \/ Unsure(x)
<1> DEFINE f == reader[r].flag
<1>1. /\ reader \in [Readers -> ReaderType] /\ reader[r] \in ReaderType /\ f \in Flags
      /\ waffle[f] \in States \cup {"none"} /\ Default(f) \in States
  BY ResolvedState DEF FlagsInv, FlagsTyped, ReadersSound, ReaderSound
<1>2. PICK state \in States, how \in SUBSET {"missing", "failed"} :
         /\ Found(r, pc, state, how)
         /\ \/ state = waffle[f]
            \/ waffle[f] = "none" /\ state = "off" /\ "missing" \in how
            \/ "failed" \in how
  BY <1>1 DEF AskWaffle, States
<1> DEFINE x == [reader[r] EXCEPT !.pc = pc, !.answer = state, !.touched = @ \cup how]
<1>3. reader' = [reader EXCEPT ![r] = x]
  BY <1>1, <1>2 DEF Found, ReaderType
<1>4. /\ x \in ReaderType
      /\ x.pc = pc /\ x.flag = f /\ x.was = reader[r].was /\ x.answer = state
      /\ x.touched = reader[r].touched \cup how
  BY <1>1, <1>2 DEF ReaderType
<1> HIDE DEF x
<1>5. x.answer = Below(f, waffle) \/ "failed" \in x.touched \/ Unsure(x)
  <2>1. CASE state = waffle[f]
    BY <1>4, <2>1 DEF Below, States
  <2>2. CASE waffle[f] = "none" /\ state = "off" /\ "missing" \in how
    BY <1>1, <1>4, <2>2 DEF Below, Unsure, States
  <2>3. CASE "failed" \in how
    BY <1>4, <2>3
  <2> QED
    BY <1>2, <2>1, <2>2, <2>3
<1> QED
  BY <1>3, <1>4, <1>5

\* The two queries of the list, waffle before the overrides.
LEMMA ListKeeps ==
    ASSUME FlagsInv, NEW r \in Readers, ListWaffle(r) \/ ListOverrides(r)
    PROVE  FlagsInv'
<1> DEFINE f == reader[r].flag
<1>1. /\ reader \in [Readers -> ReaderType] /\ reader[r] \in ReaderType
      /\ override \in [Flags -> States \cup {"none"}] /\ waffle \in [Flags -> States \cup {"none"}]
  BY DEF FlagsInv, FlagsTyped
<1>2. /\ reader[r].pc \in {"list", "list_overrides"}
      /\ UNCHANGED <<override, waffle, slug, sync, synced>>
  BY DEF ListWaffle, ListOverrides
<1>3. /\ ReaderSound(reader[r], override, waffle)
      /\ f \in Flags /\ Resolved(f, override, waffle) \in reader[r].was
  BY <1>2 DEF FlagsInv, ReadersSound, ReaderSound
<1>4. override[f] \in States \cup {"none"}
  BY <1>1, <1>3
<1>5. CASE ListWaffle(r) /\ f \in Known
  <2>1. AskWaffle(r, "list_overrides")
    BY <1>5 DEF ListWaffle
  <2>2. PICK x \in ReaderType :
           /\ reader' = [reader EXCEPT ![r] = x]
           /\ x.pc = "list_overrides" /\ x.flag = f /\ x.was = reader[r].was
           /\ reader[r].touched \subseteq x.touched
           /\ x.answer = Below(f, waffle) \/ "failed" \in x.touched \/ Unsure(x)
    BY <1>2, <2>1, Asked
  <2>3. override[f] = "none" => Below(f, waffle) \in x.was
    BY <1>3, <2>2 DEF Resolved
  <2>4. ReaderSound(x, override, waffle)
    BY <1>3, <1>5, <2>2, <2>3 DEF ReaderSound
  <2> QED
    BY <1>2, <2>2, <2>4, ReaderStep
<1>6. CASE ListWaffle(r) /\ f \notin Known
  <2> DEFINE x == [reader[r] EXCEPT !.pc = "list_overrides"]
  <2>1. /\ x \in ReaderType
        /\ x.pc = "list_overrides" /\ x.flag = f /\ x.was = reader[r].was
        /\ x.answer = reader[r].answer
    BY <1>1 DEF ReaderType
  <2>2. reader' = [reader EXCEPT ![r] = x] /\ reader[r].pc = "list"
    BY <1>1, <1>6 DEF ListWaffle
  <2> HIDE DEF x
  <2>3. ReaderSound(x, override, waffle)
    BY <1>3, <1>6, <2>1, <2>2 DEF ReaderSound
  <2> QED
    BY <1>2, <2>1, <2>2, <2>3, ReaderStep
<1>7. CASE ListOverrides(r)
  <2> DEFINE a == IF override[f] = "none" THEN reader[r].answer ELSE override[f]
             x == [reader[r] EXCEPT !.pc = "answered", !.answer = a]
  <2>1. a \in States \cup {"none"}
    BY <1>1, <1>4 DEF ReaderType
  <2> HIDE DEF a
  <2>2. /\ x \in ReaderType
        /\ x.pc = "answered" /\ x.flag = f /\ x.was = reader[r].was
        /\ x.answer = a /\ x.touched = reader[r].touched
    BY <1>1, <2>1 DEF ReaderType
  <2>3. reader' = [reader EXCEPT ![r] = x] /\ reader[r].pc = "list_overrides"
    BY <1>1, <1>7 DEF ListOverrides, a
  <2> HIDE DEF x
  <2>4. ReaderSound(x, override, waffle)
    <3>1. CASE override[f] # "none"
      <4>1. x.answer \in x.was
        BY <1>3, <2>2, <3>1 DEF Resolved, a
      <4> QED
        BY <1>3, <2>2, <4>1 DEF ReaderSound
    <3>2. CASE override[f] = "none"
      <4>1. a = reader[r].answer /\ Below(f, waffle) \in reader[r].was
        BY <1>3, <3>2 DEF Resolved, a
      <4>2. \/ "failed" \in reader[r].touched
            \/ f \notin Known /\ a = "none"
            \/ a \in reader[r].was
            \/ {"override", "waffle"} \subseteq reader[r].touched
            \/ Unsure(reader[r])
        BY <1>3, <2>3, <3>2, <4>1 DEF ReaderSound
      <4>3. Unsure(reader[r]) => Unsure(x)
        BY <2>2, <4>1 DEF Unsure
      <4> QED
        BY <1>3, <2>2, <4>1, <4>2, <4>3 DEF ReaderSound
    <3> QED
      BY <3>1, <3>2
  <2> QED
    BY <1>2, <2>2, <2>3, <2>4, ReaderStep
<1> QED
  BY <1>5, <1>6, <1>7

\* The two queries of the detail, the override before waffle.
LEMMA DetailKeeps ==
    ASSUME FlagsInv, NEW r \in Readers, DetailOverride(r) \/ DetailWaffle(r)
    PROVE  FlagsInv'
<1> DEFINE f == reader[r].flag
<1>1. /\ reader \in [Readers -> ReaderType] /\ reader[r] \in ReaderType
      /\ override \in [Flags -> States \cup {"none"}] /\ waffle \in [Flags -> States \cup {"none"}]
  BY DEF FlagsInv, FlagsTyped
<1>2. /\ reader[r].pc \in {"detail", "detail_waffle"}
      /\ UNCHANGED <<override, waffle, slug, sync, synced>>
  BY DEF DetailOverride, DetailWaffle
<1>3. /\ ReaderSound(reader[r], override, waffle)
      /\ f \in Flags /\ Resolved(f, override, waffle) \in reader[r].was
  BY <1>2 DEF FlagsInv, ReadersSound, ReaderSound
<1>4. override[f] \in States \cup {"none"}
  BY <1>1, <1>3
<1>5. CASE override[f] # "none" /\ reader' = [reader EXCEPT ![r].pc = "answered",
                                                            ![r].answer = override[f]]
  <2> DEFINE x == [reader[r] EXCEPT !.pc = "answered", !.answer = override[f]]
  <2>1. /\ x \in ReaderType
        /\ x.pc = "answered" /\ x.flag = f /\ x.was = reader[r].was /\ x.answer = override[f]
    BY <1>1, <1>4 DEF ReaderType
  <2>2. reader' = [reader EXCEPT ![r] = x]
    BY <1>1, <1>5
  <2> HIDE DEF x
  <2>3. x.answer \in x.was
    BY <1>3, <1>5, <2>1 DEF Resolved
  <2>4. ReaderSound(x, override, waffle)
    BY <1>3, <2>1, <2>3 DEF ReaderSound
  <2> QED
    BY <1>2, <2>1, <2>2, <2>4, ReaderStep
<1>6. CASE override[f] = "none" /\ reader' = [reader EXCEPT ![r].pc = "detail_waffle"]
  <2> DEFINE x == [reader[r] EXCEPT !.pc = "detail_waffle"]
  <2>1. /\ x \in ReaderType
        /\ x.pc = "detail_waffle" /\ x.flag = f /\ x.was = reader[r].was
    BY <1>1 DEF ReaderType
  <2>2. reader' = [reader EXCEPT ![r] = x]
    BY <1>1, <1>6
  <2> HIDE DEF x
  <2>3. Below(f, waffle) \in x.was
    BY <1>3, <1>6, <2>1 DEF Resolved
  <2>4. ReaderSound(x, override, waffle)
    BY <1>3, <1>6, <2>1, <2>3 DEF ReaderSound
  <2> QED
    BY <1>2, <2>1, <2>2, <2>4, ReaderStep
<1>7. CASE reader' = [reader EXCEPT ![r].pc = "detail_waffle", ![r].touched = @ \cup {"failed"}]
  <2> DEFINE x == [reader[r] EXCEPT !.pc = "detail_waffle", !.touched = @ \cup {"failed"}]
  <2>1. /\ x \in ReaderType
        /\ x.pc = "detail_waffle" /\ x.flag = f /\ x.was = reader[r].was
        /\ "failed" \in x.touched
    BY <1>1 DEF ReaderType
  <2>2. reader' = [reader EXCEPT ![r] = x]
    BY <1>1, <1>7
  <2> HIDE DEF x
  <2>3. ReaderSound(x, override, waffle)
    BY <1>3, <2>1 DEF ReaderSound
  <2> QED
    BY <1>2, <2>1, <2>2, <2>3, ReaderStep
<1>8. CASE DetailWaffle(r)
  <2>1. AskWaffle(r, "answered") /\ reader[r].pc = "detail_waffle"
    BY <1>8 DEF DetailWaffle
  <2>2. PICK x \in ReaderType :
           /\ reader' = [reader EXCEPT ![r] = x]
           /\ x.pc = "answered" /\ x.flag = f /\ x.was = reader[r].was
           /\ reader[r].touched \subseteq x.touched
           /\ x.answer = Below(f, waffle) \/ "failed" \in x.touched \/ Unsure(x)
    BY <1>2, <2>1, Asked
  <2>3. override[f] = "none" => Below(f, waffle) \in x.was
    BY <1>3, <2>2 DEF Resolved
  <2>4. \/ "failed" \in x.touched
        \/ x.answer \in x.was
        \/ {"override", "waffle"} \subseteq x.touched
        \/ Unsure(x)
    BY <1>3, <2>1, <2>2, <2>3 DEF ReaderSound
  <2>5. ReaderSound(x, override, waffle)
    BY <1>3, <2>2, <2>4 DEF ReaderSound
  <2> QED
    BY <1>2, <2>2, <2>5, ReaderStep
<1> QED
  BY <1>5, <1>6, <1>7, <1>8 DEF DetailOverride

\* A request begins with the state of the moment, and holds nothing when it is over.
LEMMA EndsKeep ==
    ASSUME FlagsInv, NEW r \in Readers,
           \/ \E f \in Flags, pc \in {"list", "detail"} : FfBegin(r, pc, f)
           \/ FfEnd(r)
    PROVE  FlagsInv'
<1>1. ASSUME NEW f \in Flags, NEW pc \in {"list", "detail"}, FfBegin(r, pc, f)
      PROVE  FlagsInv'
  <2> DEFINE x == [pc |-> pc, flag |-> f, answer |-> "none",
                   was |-> {Resolved(f, override, waffle)}, touched |-> {}]
  <2>1. Resolved(f, override, waffle) \in States
    BY ResolvedState DEF FlagsInv, FlagsTyped
  <2>2. /\ x \in ReaderType
        /\ x.pc = pc /\ x.flag = f /\ x.answer = "none"
        /\ Resolved(f, override, waffle) \in x.was
    BY <2>1 DEF ReaderType
  <2>3. reader' = [reader EXCEPT ![r] = x] /\ UNCHANGED <<override, waffle, slug, sync, synced>>
    BY <1>1 DEF FfBegin
  <2> HIDE DEF x
  <2>4. ReaderSound(x, override, waffle)
    BY <2>2 DEF ReaderSound
  <2> QED
    BY <2>2, <2>3, <2>4, ReaderStep
<1>2. CASE FfEnd(r)
  <2>1. FfIdle \in ReaderType /\ ReaderSound(FfIdle, override, waffle)
    BY DEF FfIdle, ReaderType, ReaderSound
  <2>2. reader' = [reader EXCEPT ![r] = FfIdle] /\ UNCHANGED <<override, waffle, slug, sync, synced>>
    BY <1>2 DEF FfEnd
  <2> QED
    BY <2>1, <2>2, ReaderStep
<1> QED
  BY <1>1, <1>2

\* Every sync under way keeps its plan and its flags, and knows it is not alone.
LEMMA DisturbedSyncs ==
    ASSUME FlagsInv
    PROVE  /\ Disturbed \in [Syncs -> SyncType]
           /\ \A q \in Syncs : /\ Disturbed[q].pc = sync[q].pc /\ Disturbed[q].slug = sync[q].slug
                               /\ Disturbed[q].todo = sync[q].todo
                               /\ sync[q].pc = "write" => ~Disturbed[q].alone
<1>1. sync \in [Syncs -> SyncType]
  BY DEF FlagsInv, FlagsTyped
<1>2. ASSUME NEW q \in Syncs
      PROVE  /\ Disturbed[q] \in SyncType
             /\ Disturbed[q].pc = sync[q].pc /\ Disturbed[q].slug = sync[q].slug
             /\ Disturbed[q].todo = sync[q].todo
             /\ sync[q].pc = "write" => ~Disturbed[q].alone
  BY <1>1 DEF Disturbed, SyncType
<1>3. Disturbed = [q \in Syncs |-> Disturbed[q]]
  BY DEF Disturbed
<1> QED
  BY <1>2, <1>3

\* What an administrator writes ends every claim of agreement.
LEMMA AdminKeeps ==
    ASSUME FlagsInv,
           \/ \E f \in Flags, state \in States : SetForTenant(f, state)
           \/ \E f \in Flags : DeleteOverride(f)
           \/ \E s \in Slugs : ChangePlan(s)
    PROVE  FlagsInv'
<1>1. /\ sync' = Disturbed /\ synced' = FALSE /\ waffle' = waffle
      /\ slug' \in Slugs
  BY DEF SetForTenant, DeleteOverride, ChangePlan, FlagsInv, FlagsTyped
<1>2. SyncsSound'
  BY <1>1, DisturbedSyncs DEF FlagsInv, SyncsSound
<1>3. /\ override' \in [Flags -> States \cup {"none"}]
      /\ reader' \in [Readers -> ReaderType] /\ ReadersSound'
  <2>1. ASSUME NEW f \in Flags, NEW state \in States, SetForTenant(f, state)
      PROVE  /\ override' \in [Flags -> States \cup {"none"}]
             /\ reader' \in [Readers -> ReaderType] /\ ReadersSound'
    BY <1>1, <2>1, SetOverrideKeeps DEF SetForTenant, FlagsInv
  <2>2. ASSUME NEW f \in Flags, DeleteOverride(f)
      PROVE  /\ override' \in [Flags -> States \cup {"none"}]
             /\ reader' \in [Readers -> ReaderType] /\ ReadersSound'
    BY <1>1, <2>2, SetOverrideKeeps DEF DeleteOverride, FlagsInv
  <2>3. ASSUME NEW s \in Slugs, ChangePlan(s)
      PROVE  /\ override' \in [Flags -> States \cup {"none"}]
             /\ reader' \in [Readers -> ReaderType] /\ ReadersSound'
    BY <1>1, <2>3 DEF ChangePlan, FlagsInv, FlagsTyped, ReadersSound
  <2> QED
    BY <2>1, <2>2, <2>3
<1> QED
  BY <1>1, <1>2, <1>3, DisturbedSyncs DEF FlagsInv, FlagsTyped

\* waffle is global: no plan speaks of it.
LEMMA WaffleKeeps ==
    ASSUME FlagsInv, NEW f \in Flags, NEW state \in States \cup {"none"}, SetWaffle(f, state)
    PROVE  FlagsInv'
<1>1. /\ waffle' = [waffle EXCEPT ![f] = state]
      /\ reader' = Seen(f, "waffle", Between, override, waffle')
      /\ UNCHANGED <<override, slug, sync, synced>>
  BY DEF SetWaffle
<1>2. /\ override \in [Flags -> States \cup {"none"}] /\ waffle \in [Flags -> States \cup {"none"}]
      /\ reader \in [Readers -> ReaderType]
  BY DEF FlagsInv, FlagsTyped
<1>3. ASSUME NEW r \in Readers
      PROVE  reader'[r] \in ReaderType /\ ReaderSound(reader'[r], override, waffle')
  <2>1. reader[r] \in ReaderType /\ ReaderSound(reader[r], override, waffle)
    BY <1>2 DEF FlagsInv, ReadersSound
  <2>2. reader'[r] = AfterWrite(reader[r], f, "waffle", Between, override, waffle')
    BY <1>1 DEF Seen, AfterWrite
  <2>3. PICK new \in FlagMap : new = waffle' /\ SameBut(new, waffle, f)
    BY <1>1, <1>2 DEF FlagMap, SameBut
  <2>4. PICK x \in ReaderType : x = reader[r] /\ ReaderSound(x, override, waffle)
    BY <2>1
  <2>5. PICK y : y = AfterWrite(x, f, "waffle", Between, override, new)
    OBVIOUS
  <2>6. PICK ov \in FlagMap, wf \in FlagMap : ov = override /\ wf = waffle
    BY <1>2 DEF FlagMap
  <2>7. y \in ReaderType /\ ReaderSound(y, ov, new)
    BY <2>3, <2>4, <2>5, <2>6, WaffleSeen
  <2> QED
    BY <2>2, <2>3, <2>4, <2>5, <2>6, <2>7
<1>4. reader' \in [Readers -> ReaderType]
  <2>1. reader' = [r \in Readers |-> reader'[r]]
    BY <1>1 DEF Seen
  <2> QED
    BY <1>3, <2>1
<1>5. FlagsTyped'
  BY <1>1, <1>2, <1>4 DEF FlagsInv, FlagsTyped
<1>6. ReadersSound'
  BY <1>1, <1>3 DEF ReadersSound
<1>7. SyncsSound'
  BY <1>1 DEF FlagsInv, SyncsSound, Agrees
<1> QED
  BY <1>5, <1>6, <1>7 DEF FlagsInv

\* A sync begins, or dies: no flag is written.
LEMMA SyncEnds ==
    ASSUME FlagsInv, NEW s \in Syncs, SyncRead(s) \/ SyncDies(s)
    PROVE  FlagsInv'
<1>1. UNCHANGED <<override, waffle, slug, reader, synced>>
  BY DEF SyncRead, SyncDies
<1>2. sync \in [Syncs -> SyncType] /\ slug \in Slugs
  BY DEF FlagsInv, FlagsTyped
<1>3. sync' \in [Syncs -> SyncType] /\ SyncsSound'
  <2>1. CASE SyncRead(s)
    <3> DEFINE x == [pc |-> "write", slug |-> slug, todo |-> FlagsOf(slug),
                     alone |-> \A q \in Syncs : sync[q].pc = "idle"]
    <3>1. FlagsOf(slug) \subseteq Flags /\ slug \in DOMAIN PlanFlags
      BY <2>1, PlanStates DEF SyncRead
    <3>2. x \in SyncType /\ x.slug = slug /\ x.todo = FlagsOf(slug)
      BY <1>2, <3>1 DEF SyncType
    <3>3. sync' = [Disturbed EXCEPT ![s] = x]
      BY <2>1 DEF SyncRead
    <3> HIDE DEF x
    <3>4. sync'[s] = x /\ \A q \in Syncs \ {s} : sync'[q] = Disturbed[q]
      BY <3>3, DisturbedSyncs
    <3> QED
      BY <1>1, <3>1, <3>2, <3>3, <3>4, DisturbedSyncs DEF FlagsInv, SyncsSound, Agrees
  <2>2. CASE SyncDies(s)
    <3>1. SyncIdle \in SyncType /\ SyncIdle.pc = "idle"
      BY DEF SyncIdle, SyncType
    <3>2. sync' = [sync EXCEPT ![s] = SyncIdle]
      BY <2>2 DEF SyncDies
    <3>3. sync'[s] = SyncIdle /\ \A q \in Syncs \ {s} : sync'[q] = sync[q]
      BY <1>2, <3>2
    <3> QED
      BY <1>1, <1>2, <3>1, <3>2, <3>3 DEF FlagsInv, SyncsSound, Agrees
  <2> QED
    BY <2>1, <2>2
<1> QED
  BY <1>1, <1>3 DEF FlagsInv, FlagsTyped, ReadersSound

\* A sync writes the next flag as its plan has it, and the plan is still that of the
\* tenant if nothing has disturbed it.
LEMMA SyncWriteKeeps ==
    ASSUME FlagsInv, NEW s \in Syncs, NEW f \in Flags, SyncWrite(s, f)
    PROVE  FlagsInv'
<1> DEFINE p == sync[s].slug
           left == sync[s].todo \ {f}
<1>1. /\ sync[s].pc = "write" /\ f \in sync[s].todo
      /\ SetOverride(f, AsState(PlanFlags[p][f]))
      /\ sync' = [Disturbed EXCEPT ![s] = IF left = {} THEN SyncIdle
                                          ELSE [sync[s] EXCEPT !.todo = left]]
      /\ synced' = (left = {} /\ sync[s].alone)
      /\ UNCHANGED <<waffle, slug>>
  BY DEF SyncWrite, Written
<1>2. /\ p \in DOMAIN PlanFlags /\ sync[s].todo \subseteq FlagsOf(p)
      /\ sync[s].alone => p = slug /\ Agrees(slug, sync[s].todo)
      /\ sync[s] \in SyncType
  BY <1>1 DEF FlagsInv, FlagsTyped, SyncsSound
<1>3. AsState(PlanFlags[p][f]) \in States
  BY <1>1, <1>2, PlanStates
<1>4. /\ override' \in [Flags -> States \cup {"none"}]
      /\ override'[f] = AsState(PlanFlags[p][f])
      /\ \A g \in Flags \ {f} : override'[g] = override[g]
      /\ reader' \in [Readers -> ReaderType] /\ ReadersSound'
  BY <1>1, <1>3, SetOverrideKeeps DEF FlagsInv
<1>5. sync[s].alone => \A g \in FlagsOf(slug) \ left : override'[g] = AsState(PlanFlags[slug][g])
  <2> SUFFICES ASSUME sync[s].alone, NEW g \in FlagsOf(slug) \ left
               PROVE  override'[g] = AsState(PlanFlags[slug][g])
    OBVIOUS
  <2>1. CASE g = f
    BY <1>2, <1>4, <2>1
  <2>2. CASE g # f
    <3>1. g \in FlagsOf(slug) \ sync[s].todo
      BY <2>2
    <3>2. g \in Flags
      BY PlanStates
    <3> QED
      BY <1>2, <1>4, <2>2, <3>1, <3>2 DEF Agrees
  <2> QED
    BY <2>1, <2>2
<1> DEFINE x == [sync[s] EXCEPT !.todo = left]
<1>6. /\ x \in SyncType
      /\ x.pc = "write" /\ x.slug = p /\ x.todo = left /\ x.alone = sync[s].alone
  BY <1>1, <1>2 DEF SyncType
<1>7. SyncIdle \in SyncType /\ SyncIdle.pc = "idle"
  BY DEF SyncIdle, SyncType
<1>8. sync' = [Disturbed EXCEPT ![s] = IF left = {} THEN SyncIdle ELSE x]
  BY <1>1
<1> HIDE DEF x
<1>9. /\ sync'[s] = IF left = {} THEN SyncIdle ELSE x
      /\ \A q \in Syncs \ {s} : sync'[q] = Disturbed[q]
      /\ sync' \in [Syncs -> SyncType]
  BY <1>6, <1>7, <1>8, DisturbedSyncs
<1>10. FlagsTyped'
  <2>1. synced' \in BOOLEAN
    BY <1>1
  <2> QED
    BY <1>1, <1>4, <1>9, <2>1 DEF FlagsInv, FlagsTyped
<1>11. ASSUME NEW q \in Syncs, sync'[q].pc = "write"
       PROVE  /\ sync'[q].slug \in DOMAIN PlanFlags
              /\ sync'[q].todo \subseteq FlagsOf(sync'[q].slug)
              /\ sync'[q].alone => sync'[q].slug = slug
                                   /\ \A g \in FlagsOf(slug) \ sync'[q].todo :
                                         override'[g] = AsState(PlanFlags[slug][g])
  <2>1. CASE q = s
    <3>1. sync'[q] = x
      BY <1>7, <1>9, <1>11, <2>1
    <3> QED
      BY <1>2, <1>5, <1>6, <3>1
  <2>2. CASE q # s
    <3>1. sync'[q] = Disturbed[q]
      BY <1>9, <2>2
    <3>2. sync[q].pc = "write" /\ ~sync'[q].alone
      BY <1>11, <3>1, DisturbedSyncs
    <3> QED
      BY <3>1, <3>2, DisturbedSyncs DEF FlagsInv, SyncsSound
  <2> QED
    BY <2>1, <2>2
<1>12. synced' => \A g \in FlagsOf(slug) \ {} : override'[g] = AsState(PlanFlags[slug][g])
  BY <1>1, <1>5
<1>13. SyncsSound'
  BY <1>1, <1>11, <1>12 DEF SyncsSound, Agrees
<1> QED
  BY <1>4, <1>10, <1>13 DEF FlagsInv

\* FlagsInv is inductive.
LEMMA FlagsInvStep == FlagsInv /\ [FeatureFlagsNext]_ffVars => FlagsInv'
<1> SUFFICES ASSUME FlagsInv, [FeatureFlagsNext]_ffVars PROVE FlagsInv'
  OBVIOUS
<1>1. CASE UNCHANGED ffVars
  BY <1>1 DEF ffVars, FlagsInv, FlagsTyped, ReadersSound, SyncsSound, Agrees
<1>2. CASE FeatureFlagsNext
  BY <1>2, ListKeeps, DetailKeeps, EndsKeep, AdminKeeps, WaffleKeeps, SyncEnds, SyncWriteKeeps
     DEF FeatureFlagsNext
<1> QED
  BY <1>1, <1>2

\* So it holds throughout.
LEMMA FlagsInvHolds == FeatureFlagsSpec => []FlagsInv
<1>1. FfInit => FlagsInv
  <2> SUFFICES ASSUME FfInit PROVE FlagsInv
    OBVIOUS
  <2>1. FfIdle \in ReaderType /\ FfIdle.pc = "idle" /\ SyncIdle \in SyncType /\ SyncIdle.pc = "idle"
    BY DEF FfIdle, SyncIdle, ReaderType, SyncType
  <2>2. FlagsTyped
    BY <2>1 DEF FfInit, FlagsTyped
  <2>3. ReadersSound
    BY <2>1 DEF FfInit, ReadersSound, ReaderSound
  <2>4. SyncsSound
    BY <2>1 DEF FfInit, SyncsSound
  <2> QED
    BY <2>2, <2>3, <2>4 DEF FlagsInv
<1> QED
  BY <1>1, FlagsInvStep, PTL DEF FeatureFlagsSpec

\* The type invariant of the flags.
THEOREM FlagsAreTyped == FeatureFlagsSpec => []FeatureFlagsTypeOK
<1>1. FlagsInv => FeatureFlagsTypeOK
  BY DEF FlagsInv, FlagsTyped, ReaderType, SyncType, FeatureFlagsTypeOK
<1> QED
  BY <1>1, FlagsInvHolds, PTL

\* Whatever order a request reads the two halves of a flag in, its answer is a state
\* that the flag had meanwhile, unless both halves were changed or a query failed.
THEOREM AnswersAreTrue == FeatureFlagsSpec => []AnswersWereTrue
<1>1. FlagsInv => AnswersWereTrue
  BY DEF FlagsInv, ReadersSound, ReaderSound, Unsure, AnswersWereTrue
<1> QED
  BY <1>1, FlagsInvHolds, PTL

\* A sync that nothing has disturbed leaves the overrides as the plan has them.
THEOREM SyncAgrees == FeatureFlagsSpec => []SyncedAgrees
<1>1. FlagsInv => SyncedAgrees
  BY DEF FlagsInv, SyncsSound, Agrees, SyncedAgrees
<1> QED
  BY <1>1, FlagsInvHolds, PTL

-----------------------------------------------------------------------------
(* Notifications *)

HistoryType == [before : SUBSET Notes, got : SUBSET Notes, pushed : SUBSET Notes,
                lost : SUBSET Notes, shifted : BOOLEAN]

CreatorType == [pc : {"idle", "commit", "send"}, note : 0..MaxNotes]

ListType == [pc : {"none", "count", "slice", "done"}, unread : BOOLEAN,
             page : 0..MaxNotes + 1, count : 0..MaxNotes]

NotesTyped ==
    /\ clock \in 0..MaxNotes
    /\ read \subseteq store /\ store \subseteq Notes
    /\ owner \in {"there", "deleted"}
    /\ creator \in [Creators -> CreatorType]
    /\ marker \in [Markers -> 0..MaxNotes]
    /\ socket \in {"closed", "joining", "open"} /\ inGroup \in BOOLEAN
    /\ inbox \subseteq Notes
    /\ list \in ListType
    /\ nf \in HistoryType

\* A notification is committed once, by the one creator that holds it.
CommitsOnce ==
    /\ store \cup nf.before \subseteq 1..clock
    /\ \A c \in Creators : creator[c].pc # "idle" => creator[c].note \in 1..clock
    /\ \A c \in Creators : creator[c].pc = "commit" => creator[c].note \notin store \cup nf.before
    /\ \A c, d \in Creators : creator[c].pc # "idle" /\ creator[d].pc # "idle" /\ c # d
          => creator[c].note # creator[d].note

\* Only a client that is connected walks, and its channel is in the group.
Connected ==
    /\ inGroup <=> socket # "closed"
    /\ list.pc # "none" => socket = "open"
    /\ list.pc = "none" => list = NoList

\* How many notifications of s are newer than n.
Newer(n, s) == {k \in s : k > n}

\* What the walk is still to find lies on the pages still to be read: those before
\* are only pushed back. The last page is the last one by its count.
WalkSound ==
    ~nf.shifted =>
        /\ list.pc \in {"count", "slice"} =>
              \A n \in nf.before \cap Listed(list.unread) :
                 n \in nf.got \/ Cardinality(Newer(n, Listed(list.unread))) >= list.page - 1
        /\ list.pc = "slice" /\ list.page >= list.count =>
              Cardinality(Listed(list.unread)) <= list.count
        /\ list.pc \in {"count", "slice"} => list.page >= 1

NotesInv == NotesTyped /\ CommitsOnce /\ Connected /\ NoGap /\ WalkSound /\ ListMissesNothing

\* What the code has of an idle creator and of a walk not begun.
LEMMA NoteRecords ==
    /\ NfIdle \in CreatorType /\ NfIdle.pc = "idle"
    /\ NoList \in ListType /\ NoList.pc = "none"
    /\ NoHistory \in HistoryType /\ NoHistory.before = {}
    /\ MaxNotes \in Nat
<1>1. MaxNotes \in Nat
  BY NotificationsAssumption
<1>2. 0 \in 0..MaxNotes /\ 0 \in 0..MaxNotes + 1
  BY <1>1
<1> QED
  BY <1>1, <1>2 DEF NfIdle, CreatorType, NoList, ListType, NoHistory, HistoryType

\* Sets of notifications can be counted.
LEMMA CountNotes ==
    ASSUME NEW s \in SUBSET Notes
    PROVE  IsFiniteSet(s) /\ Cardinality(s) \in 0..MaxNotes
<1>1. MaxNotes \in Nat /\ 1 \in Int
  BY NotificationsAssumption
<1>2. IsFiniteSet(Notes) /\ Cardinality(Notes) = MaxNotes
  <2>1. /\ IsFiniteSet(1..MaxNotes)
        /\ Cardinality(1..MaxNotes) = IF 1 > MaxNotes THEN 0 ELSE MaxNotes - 1 + 1
    BY <1>1, FS_Interval
  <2> QED
    BY <1>1, <2>1 DEF Notes
<1>3. IsFiniteSet(s) /\ Cardinality(s) <= MaxNotes
  BY <1>2, FS_Subset
<1>4. Cardinality(s) \in Nat
  BY <1>3, FS_CardinalityType
<1> QED
  BY <1>1, <1>3, <1>4

\* The newer notifications of a larger set are at least as many.
LEMMA NewerGrow ==
    ASSUME NEW t \in SUBSET Notes, NEW s \in SUBSET t, NEW n \in Notes
    PROVE  /\ Cardinality(Newer(n, s)) \in Nat
           /\ Cardinality(Newer(n, t)) \in Nat
           /\ Cardinality(Newer(n, s)) <= Cardinality(Newer(n, t))
<1>1. Newer(n, t) \in SUBSET Notes /\ Newer(n, s) \in SUBSET Newer(n, t)
  BY DEF Newer
<1>2. Newer(n, s) \in SUBSET Notes
  BY <1>1
<1>3. Cardinality(Newer(n, s)) \in Nat /\ Cardinality(Newer(n, t)) \in Nat
  BY <1>1, <1>2, CountNotes
<1>4. Cardinality(Newer(n, s)) <= Cardinality(Newer(n, t))
  BY <1>1, CountNotes, FS_Subset
<1> QED
  BY <1>3, <1>4

\* A notification of a set is not newer than itself.
LEMMA NewerFewer ==
    ASSUME NEW s \in SUBSET Notes, NEW n \in s
    PROVE  /\ Cardinality(Newer(n, s)) \in Nat /\ Cardinality(s) \in Nat
           /\ Cardinality(Newer(n, s)) < Cardinality(s)
<1>1. Newer(n, s) \in SUBSET s /\ Newer(n, s) \in SUBSET Notes /\ n \notin Newer(n, s)
  <2>1. n \in Int
    BY NotificationsAssumption DEF Notes
  <2>2. ~(n > n)
    BY <2>1
  <2> QED
    BY <2>2 DEF Newer
<1>2. Cardinality(Newer(n, s)) \in Nat /\ Cardinality(s) \in Nat
  BY <1>1, CountNotes
<1>3. /\ Cardinality(Newer(n, s)) <= Cardinality(s)
      /\ Cardinality(s) = Cardinality(Newer(n, s)) => s = Newer(n, s)
  BY <1>1, CountNotes, FS_Subset
<1>4. Cardinality(s) # Cardinality(Newer(n, s))
  BY <1>1, <1>3
<1> QED
  BY <1>2, <1>3, <1>4

\* The walk, when nothing that it goes by has changed.
LEMMA WalkStays ==
    ASSUME NotesInv, UNCHANGED <<store, read, list>>,
           nf'.before = nf.before, nf'.got = nf.got, nf'.shifted = nf.shifted
    PROVE  WalkSound' /\ ListMissesNothing'
<1>1. \A unread \in BOOLEAN : Listed(unread)' = Listed(unread)
  BY DEF Listed
<1>2. Listed(list.unread)' = Listed(list.unread)
  BY DEF Listed
<1> QED
  BY <1>2 DEF NotesInv, WalkSound, ListMissesNothing

\* A creator takes the next number.
LEMMA StampKeeps ==
    ASSUME NotesInv, NEW c \in Creators, CreateStamp(c)
    PROVE  NotesInv'
<1> DEFINE x == [pc |-> "commit", note |-> clock + 1]
<1>1. /\ creator[c].pc = "idle" /\ clock' = clock + 1
      /\ creator' = [creator EXCEPT ![c] = x]
      /\ UNCHANGED <<store, read, owner, marker, socket, inGroup, inbox, list, nf>>
  BY DEF CreateStamp, clientVars
<1>2. /\ clock \in Nat /\ clock + 1 \in 0..MaxNotes
      /\ creator \in [Creators -> CreatorType]
  BY NoteRecords DEF NotesInv, NotesTyped, CreateStamp
<1>3. x \in CreatorType /\ x.pc = "commit" /\ x.note = clock + 1
  BY <1>2 DEF CreatorType
<1> HIDE DEF x
<1>4. creator'[c] = x /\ \A d \in Creators \ {c} : creator'[d] = creator[d]
  BY <1>1, <1>2
<1>5. NotesTyped'
  BY <1>1, <1>2, <1>3 DEF NotesInv, NotesTyped
<1>6. CommitsOnce'
  <2>1. \A n \in 1..clock : n \in 1..(clock + 1) /\ n # clock + 1
    BY <1>2
  <2>2. clock + 1 \in 1..(clock + 1)
    BY <1>2
  <2> QED
    BY <1>1, <1>2, <1>3, <1>4, <2>1, <2>2 DEF NotesInv, CommitsOnce
<1>7. Connected'
  BY <1>1 DEF NotesInv, Connected
<1>8. NoGap'
  <2>1. \A d \in Creators, n \in Notes :
           creator[d] = [pc |-> "send", note |-> n] => creator'[d] = [pc |-> "send", note |-> n]
    BY <1>1, <1>4
  <2>2. store \subseteq Notes
    BY DEF NotesInv, NotesTyped
  <2>3. NoGap
    BY DEF NotesInv
  <2> SUFFICES ASSUME socket = "open", list.pc # "none", ~list.unread,
                      NEW k \in store, k \notin nf.before
               PROVE  \/ k \in nf.pushed \cup inbox \cup nf.lost
                      \/ \E d \in Creators : creator'[d] = [pc |-> "send", note |-> k]
    BY <1>1 DEF NoGap
  <2> QED
    BY <2>1, <2>2, <2>3 DEF NoGap
<1> QED
  BY <1>1, <1>5, <1>6, <1>7, <1>8, WalkStays DEF NotesInv

\* A creator ends: before its row is stored, because its push has gone to the group,
\* or after that was lost.
LEMMA CreatorEnds ==
    ASSUME NotesInv, NEW c \in Creators,
           creator' = [creator EXCEPT ![c] = NfIdle],
           UNCHANGED <<clock, store, read, owner, marker, socket, inGroup, list>>,
           \/ creator[c].pc = "commit" /\ UNCHANGED <<inbox, nf>>
           \/ /\ creator[c].pc = "send" /\ UNCHANGED nf
              /\ inbox' = IF inGroup THEN inbox \cup {creator[c].note} ELSE inbox
           \/ /\ creator[c].pc # "idle" /\ UNCHANGED inbox
              /\ nf' = [nf EXCEPT !.lost = @ \cup {creator[c].note}]
    PROVE  NotesInv'
<1> DEFINE n == creator[c].note
<1>1. /\ creator \in [Creators -> CreatorType] /\ nf \in HistoryType /\ inbox \subseteq Notes
      /\ store \subseteq Notes
  BY DEF NotesInv, NotesTyped
<1>2. creator'[c] = NfIdle /\ \A d \in Creators \ {c} : creator'[d] = creator[d]
  BY <1>1
<1>3. creator[c].pc # "idle" /\ n \in Notes
  BY NoteRecords DEF NotesInv, CommitsOnce, NotesTyped, Notes
<1> HIDE DEF n
<1>4. /\ nf' \in HistoryType /\ inbox' \subseteq Notes
      /\ nf'.before = nf.before /\ nf'.got = nf.got /\ nf'.shifted = nf.shifted
      /\ nf'.pushed = nf.pushed /\ nf.lost \subseteq nf'.lost /\ inbox \subseteq inbox'
      /\ creator[c].pc = "send" /\ inGroup => n \in inbox' \cup nf'.lost
  <2>1. CASE nf' = nf
    BY <1>1, <1>3, <2>1 DEF n, HistoryType
  <2>2. CASE nf' = [nf EXCEPT !.lost = @ \cup {n}] /\ inbox' = inbox
    BY <1>1, <1>3, <2>2 DEF HistoryType
  <2> QED
    BY <2>1, <2>2 DEF n
<1>5. NotesTyped'
  BY <1>1, <1>4, NoteRecords DEF NotesInv, NotesTyped
<1>6. CommitsOnce'
  BY <1>2, <1>4, NoteRecords DEF NotesInv, CommitsOnce
<1>7. Connected'
  BY DEF NotesInv, Connected
<1>8. NoGap'
  <2> SUFFICES ASSUME socket = "open", list.pc # "none", ~list.unread,
                      NEW k \in store, k \notin nf.before
               PROVE  \/ k \in nf'.pushed \cup inbox' \cup nf'.lost
                      \/ \E d \in Creators : creator'[d] = [pc |-> "send", note |-> k]
    BY <1>4 DEF NoGap
  <2>1. inGroup
    BY DEF NotesInv, Connected
  <2>2. CASE k \in nf.pushed \cup inbox \cup nf.lost
    BY <1>4, <2>2
  <2>3. ASSUME NEW d \in Creators, creator[d] = [pc |-> "send", note |-> k], d = c
        PROVE  k \in inbox' \cup nf'.lost
    <3>1. creator[c].pc = "send" /\ n = k
      BY <2>3 DEF n
    <3> QED
      BY <1>4, <2>1, <3>1
  <2>4. ASSUME NEW d \in Creators, creator[d] = [pc |-> "send", note |-> k], d # c
        PROVE  creator'[d] = [pc |-> "send", note |-> k]
    BY <1>2, <2>4
  <2>5. \/ k \in nf.pushed \cup inbox \cup nf.lost
        \/ \E d \in Creators : creator[d] = [pc |-> "send", note |-> k]
    BY DEF NotesInv, NoGap
  <2> QED
    BY <2>2, <2>3, <2>4, <2>5
<1> QED
  BY <1>4, <1>5, <1>6, <1>7, <1>8, WalkStays DEF NotesInv

\* A row is stored: it is new to the walk, which only finds its pages pushed back,
\* unless it reads the last one.
LEMMA CommitKeeps ==
    ASSUME NotesInv, NEW c \in Creators, CreateCommit(c)
    PROVE  NotesInv'
<1>1. CASE owner = "deleted"
  BY <1>1, CreatorEnds DEF CreateCommit, clientVars
<1>2. CASE owner # "deleted"
  <2> DEFINE n == creator[c].note
             x == [creator[c] EXCEPT !.pc = "send"]
  <2>1. /\ creator[c].pc = "commit" /\ store' = store \cup {n}
        /\ creator' = [creator EXCEPT ![c].pc = "send"]
        /\ nf' = IF list.pc = "slice" /\ list.page >= list.count
                 THEN [nf EXCEPT !.shifted = TRUE] ELSE nf
        /\ UNCHANGED <<clock, read, owner, marker, socket, inGroup, inbox, list>>
    BY <1>2 DEF CreateCommit, clientVars
  <2>2. /\ creator \in [Creators -> CreatorType] /\ creator[c] \in CreatorType
        /\ nf \in HistoryType /\ store \subseteq Notes
    BY DEF NotesInv, NotesTyped
  <2>3. n \in 1..clock /\ n \in Notes /\ n \notin store \cup nf.before
    BY <2>1, NoteRecords DEF NotesInv, CommitsOnce, NotesTyped, Notes
  <2>4. /\ x \in CreatorType /\ x.pc = "send" /\ x.note = n
        /\ x = [pc |-> "send", note |-> n]
    BY <2>2 DEF CreatorType
  <2>5. creator' = [creator EXCEPT ![c] = x]
    BY <2>1, <2>2
  <2> HIDE DEF n, x
  <2>6. creator'[c] = x /\ \A d \in Creators \ {c} : creator'[d] = creator[d]
    BY <2>2, <2>5
  <2>7. /\ nf' \in HistoryType
        /\ nf'.before = nf.before /\ nf'.got = nf.got
        /\ nf'.pushed = nf.pushed /\ nf'.lost = nf.lost
        /\ ~nf'.shifted => ~nf.shifted /\ ~(list.pc = "slice" /\ list.page >= list.count)
        /\ nf.shifted => nf'.shifted
    <3>1. CASE list.pc = "slice" /\ list.page >= list.count
      <4>1. nf' = [nf EXCEPT !.shifted = TRUE]
        BY <2>1, <3>1
      <4> QED
        BY <2>2, <4>1 DEF HistoryType
    <3>2. CASE ~(list.pc = "slice" /\ list.page >= list.count)
      BY <2>1, <2>2, <3>2
    <3> QED
      BY <3>1, <3>2
  <2>8. NotesTyped'
    BY <2>1, <2>2, <2>3, <2>4, <2>5, <2>7 DEF NotesInv, NotesTyped
  <2>9. CommitsOnce'
    BY <2>1, <2>3, <2>4, <2>6, <2>7 DEF NotesInv, CommitsOnce, n
  <2>10. Connected'
    BY <2>1 DEF NotesInv, Connected
  <2>11. NoGap'
    <3> SUFFICES ASSUME socket = "open", list.pc # "none", ~list.unread,
                        NEW k \in store', k \notin nf.before
                 PROVE  \/ k \in nf.pushed \cup inbox \cup nf.lost
                        \/ \E d \in Creators : creator'[d] = [pc |-> "send", note |-> k]
      BY <2>1, <2>7 DEF NoGap
    <3>1. CASE k = n
      BY <2>4, <2>6, <3>1
    <3>2. CASE k # n
      <4>1. k \in store
        BY <2>1, <3>2
      <4>2. \/ k \in nf.pushed \cup inbox \cup nf.lost
            \/ \E d \in Creators : creator[d] = [pc |-> "send", note |-> k]
        BY <4>1 DEF NotesInv, NoGap
      <4>3. ASSUME NEW d \in Creators, creator[d] = [pc |-> "send", note |-> k]
            PROVE  creator'[d] = [pc |-> "send", note |-> k]
        BY <2>1, <2>6, <4>3
      <4> QED
        BY <4>2, <4>3
    <3> QED
      BY <3>1, <3>2
  <2> DEFINE old == Listed(list.unread)
             now == Listed(list.unread)'
  <2>12. /\ old \in SUBSET Notes /\ now \in SUBSET Notes /\ old \subseteq now
         /\ nf.before \cap now \subseteq old
    BY <2>1, <2>2, <2>3 DEF Listed
  <2> HIDE DEF old, now
  <2>13. WalkSound'
    <3> SUFFICES ASSUME ~nf'.shifted
                 PROVE  /\ list.pc \in {"count", "slice"} =>
                             \A k \in nf.before \cap now :
                                k \in nf.got \/ Cardinality(Newer(k, now)) >= list.page - 1
                        /\ list.pc = "slice" /\ list.page >= list.count =>
                             Cardinality(now) <= list.count
                        /\ list.pc \in {"count", "slice"} => list.page >= 1
      BY <2>1, <2>7 DEF WalkSound, now, Listed, Newer
    <3>1. ASSUME list.pc \in {"count", "slice"}, NEW k \in nf.before \cap now, k \notin nf.got
          PROVE  Cardinality(Newer(k, now)) >= list.page - 1
      <4>1. k \in nf.before \cap old /\ k \in Notes
        BY <2>12, <3>1
      <4>2. Cardinality(Newer(k, old)) >= list.page - 1
        BY <2>7, <3>1, <4>1 DEF NotesInv, WalkSound, old
      <4>3. /\ Cardinality(Newer(k, old)) \in Nat /\ Cardinality(Newer(k, now)) \in Nat
            /\ Cardinality(Newer(k, old)) <= Cardinality(Newer(k, now))
        BY <2>12, <4>1, NewerGrow
      <4>4. list.page \in Int
        BY NoteRecords DEF NotesInv, NotesTyped, ListType
      <4> QED
        BY <4>2, <4>3, <4>4
    <3> QED
      BY <2>7, <3>1 DEF NotesInv, WalkSound
  <2>14. ListMissesNothing'
    BY <2>1, <2>7, <2>12 DEF NotesInv, ListMissesNothing, old, now
  <2> QED
    BY <2>8, <2>9, <2>10, <2>11, <2>13, <2>14 DEF NotesInv
<1> QED
  BY <1>1, <1>2

\* A notification is marked read: a list of the unread is shorter then, which a walk
\* through it does not know.
LEMMA MarkKeeps ==
    ASSUME NotesInv, NEW m \in Markers, MarkSave(m) \/ \E n \in Notes : MarkGet(m, n)
    PROVE  NotesInv'
<1>1. /\ UNCHANGED <<clock, store, owner, creator, socket, inGroup, inbox, list>>
      /\ marker' \in [Markers -> 0..MaxNotes]
      /\ read \subseteq read' /\ read' \subseteq store
  BY NoteRecords DEF MarkSave, MarkGet, clientVars, NotesInv, NotesTyped, Notes
<1>2. nf \in HistoryType
  BY DEF NotesInv, NotesTyped
<1>3. /\ nf' \in HistoryType
      /\ nf'.before = nf.before /\ nf'.got = nf.got
      /\ nf'.pushed = nf.pushed /\ nf'.lost = nf.lost
      /\ nf.shifted => nf'.shifted
      /\ ~nf'.shifted => read' = read \/ ~(list.pc \in {"count", "slice"} /\ list.unread)
  <2>1. CASE nf' = [nf EXCEPT !.shifted = TRUE]
    BY <1>2, <2>1 DEF HistoryType
  <2>2. CASE nf' = nf /\ (read' = read \/ ~(list.pc \in {"count", "slice"} /\ list.unread))
    BY <1>2, <2>2
  <2> QED
    BY <2>1, <2>2 DEF MarkSave, MarkGet
<1>4. NotesTyped'
  BY <1>1, <1>3 DEF NotesInv, NotesTyped
<1>5. CommitsOnce' /\ Connected' /\ NoGap'
  BY <1>1, <1>3 DEF NotesInv, CommitsOnce, Connected, NoGap
<1> DEFINE old == Listed(list.unread)
           now == Listed(list.unread)'
<1>6. now \subseteq old /\ (read' = read \/ ~list.unread => now = old)
  BY <1>1 DEF Listed
<1>7. ListMissesNothing'
  BY <1>1, <1>3, <1>6 DEF NotesInv, ListMissesNothing
<1>8. WalkSound'
  <2> HIDE DEF old, now
  <2> SUFFICES ASSUME ~nf'.shifted
               PROVE  /\ list.pc \in {"count", "slice"} =>
                           \A k \in nf.before \cap now :
                              k \in nf.got \/ Cardinality(Newer(k, now)) >= list.page - 1
                      /\ list.pc = "slice" /\ list.page >= list.count =>
                           Cardinality(now) <= list.count
                      /\ list.pc \in {"count", "slice"} => list.page >= 1
    BY <1>1, <1>3 DEF WalkSound, now, Listed, Newer
  <2>1. ~nf.shifted /\ (list.pc \in {"count", "slice"} => now = old)
    BY <1>3, <1>6
  <2> QED
    BY <2>1 DEF NotesInv, WalkSound, old
<1> QED
  BY <1>4, <1>5, <1>7, <1>8 DEF NotesInv

\* The connection: its channel is in the group before it is open.
LEMMA SocketKeeps ==
    ASSUME NotesInv, Connect \/ Disconnect \/ \E n \in Notes : Push(n)
    PROVE  NotesInv'
<1>1. UNCHANGED <<clock, store, read, owner, creator, marker>>
  BY DEF Connect, ConnectJoin, ConnectAccept, Disconnect, Push, rowVars
<1>2. nf \in HistoryType /\ inbox \subseteq Notes
  BY DEF NotesInv, NotesTyped
<1>3. CASE Connect
  <2>1. UNCHANGED <<inbox, list, nf>> /\ inGroup' = TRUE /\ socket' \in {"joining", "open"}
    BY <1>3 DEF Connect, ConnectJoin, ConnectAccept, NotesInv, Connected
  <2>2. list.pc = "none" /\ list = NoList
    BY <1>3 DEF Connect, ConnectJoin, ConnectAccept, NotesInv, Connected
  <2>3. NotesTyped'
    BY <1>1, <2>1 DEF NotesInv, NotesTyped
  <2>4. CommitsOnce' /\ Connected' /\ NoGap'
    BY <1>1, <2>1, <2>2 DEF NotesInv, CommitsOnce, Connected, NoGap
  <2> QED
    BY <1>1, <2>1, <2>3, <2>4, WalkStays DEF NotesInv
<1>4. CASE Disconnect
  <2>1. socket' = "closed" /\ inGroup' = FALSE /\ inbox' = {} /\ list' = NoList /\ nf' = NoHistory
    BY <1>4 DEF Disconnect
  <2>2. NotesTyped'
    BY <1>1, <2>1, NoteRecords DEF NotesInv, NotesTyped
  <2>3. CommitsOnce' /\ Connected' /\ NoGap'
    BY <1>1, <2>1, NoteRecords DEF NotesInv, CommitsOnce, Connected, NoGap
  <2>4. WalkSound' /\ ListMissesNothing'
    BY <2>1, NoteRecords DEF WalkSound, ListMissesNothing
  <2> QED
    BY <2>2, <2>3, <2>4 DEF NotesInv
<1>5. ASSUME NEW n \in Notes, Push(n)
      PROVE  NotesInv'
  <2>1. /\ n \in inbox /\ inbox' = inbox \ {n} /\ nf' = [nf EXCEPT !.pushed = @ \cup {n}]
        /\ UNCHANGED <<socket, inGroup, list>>
    BY <1>5 DEF Push
  <2>2. /\ nf' \in HistoryType
        /\ nf'.before = nf.before /\ nf'.got = nf.got /\ nf'.shifted = nf.shifted
        /\ nf'.pushed = nf.pushed \cup {n} /\ nf'.lost = nf.lost
    BY <1>2, <2>1 DEF HistoryType
  <2>3. NotesTyped'
    BY <1>1, <1>2, <2>1, <2>2 DEF NotesInv, NotesTyped
  <2>4. CommitsOnce' /\ Connected'
    BY <1>1, <2>1, <2>2 DEF NotesInv, CommitsOnce, Connected
  <2>5. NoGap'
    BY <1>1, <2>1, <2>2 DEF NotesInv, NoGap
  <2> QED
    BY <1>1, <2>1, <2>2, <2>3, <2>4, <2>5, WalkStays DEF NotesInv
<1> QED
  BY <1>3, <1>4, <1>5

\* A walk begins: all that it should find is on the pages to come.
LEMMA ListBeginKeeps ==
    ASSUME NotesInv, NEW unread \in BOOLEAN, ListBegin(unread)
    PROVE  NotesInv'
<1> DEFINE x == [pc |-> "count", unread |-> unread, page |-> 1, count |-> 0]
<1>1. /\ socket = "open" /\ list' = x
      /\ nf' = [nf EXCEPT !.before = Listed(unread)]
      /\ UNCHANGED <<clock, store, read, owner, creator, marker, socket, inGroup, inbox>>
  BY DEF ListBegin, rowVars
<1>2. /\ x \in ListType
      /\ x.pc = "count" /\ x.unread = unread /\ x.page = 1
  <2>1. 1 \in 0..MaxNotes + 1 /\ 0 \in 0..MaxNotes
    BY NoteRecords
  <2> QED
    BY <2>1 DEF ListType
<1> HIDE DEF x
<1>3. nf \in HistoryType /\ store \subseteq Notes /\ Listed(unread) \subseteq store
  BY DEF NotesInv, NotesTyped, Listed
<1>4. /\ nf' \in HistoryType
      /\ nf'.before = Listed(unread)
  BY <1>1, <1>3 DEF HistoryType
<1>5. NotesTyped'
  BY <1>1, <1>2, <1>4 DEF NotesInv, NotesTyped
<1>6. CommitsOnce'
  BY <1>1, <1>3, <1>4 DEF NotesInv, CommitsOnce
<1>7. Connected'
  BY <1>1, <1>2 DEF NotesInv, Connected
<1>8. NoGap'
  <2>1. ~unread => Listed(unread) = store
    BY DEF Listed
  <2> QED
    BY <1>1, <1>2, <1>4, <2>1 DEF NoGap
<1>9. WalkSound'
  <2>1. \A k \in Listed(unread)' : Cardinality(Newer(k, Listed(unread)')) >= 0
    <3>1. Listed(unread)' \in SUBSET Notes
      BY <1>1, <1>3 DEF Listed
    <3> QED
      BY <3>1, NewerFewer
  <2>2. list'.unread = unread /\ list'.page = 1 /\ list'.pc = "count"
    BY <1>1, <1>2
  <2> QED
    BY <2>1, <2>2 DEF WalkSound, Newer, Listed
<1>10. ListMissesNothing'
  BY <1>1, <1>2 DEF ListMissesNothing
<1> QED
  BY <1>5, <1>6, <1>7, <1>8, <1>9, <1>10 DEF NotesInv

\* The paginator counts: beyond the last page nothing is left to find.
LEMMA ListCountKeeps ==
    ASSUME NotesInv, ListCount
    PROVE  NotesInv'
<1> DEFINE s == Listed(list.unread)
           n == Cardinality(s)
<1>1. /\ list.pc = "count"
      /\ list' = IF list.page > n THEN [list EXCEPT !.pc = "done"]
                 ELSE [list EXCEPT !.pc = "slice", !.count = n]
      /\ UNCHANGED <<clock, store, read, owner, creator, marker, socket, inGroup, inbox, nf>>
  BY DEF ListCount, rowVars
<1>2. list \in ListType /\ s \in SUBSET Notes
  BY DEF NotesInv, NotesTyped, Listed
<1>3. n \in 0..MaxNotes
  BY <1>2, CountNotes
<1> HIDE DEF s, n
<1>4. /\ list' \in ListType
      /\ list'.unread = list.unread /\ list'.page = list.page
      /\ \/ list.page > n /\ list'.pc = "done"
         \/ list.page <= n /\ list'.pc = "slice" /\ list'.count = n
  <2>1. list.page \in Int /\ n \in Int
    BY <1>2, <1>3, NoteRecords DEF ListType
  <2>2. CASE list.page > n
    BY <1>1, <1>2, <2>2 DEF ListType
  <2>3. CASE ~(list.page > n)
    <3>1. list.page <= n
      BY <2>1, <2>3
    <3>2. list' = [list EXCEPT !.pc = "slice", !.count = n]
      BY <1>1, <2>3
    <3>3. /\ list' \in ListType
          /\ list'.unread = list.unread /\ list'.page = list.page
          /\ list'.pc = "slice" /\ list'.count = n
      BY <1>2, <1>3, <3>2 DEF ListType
    <3> QED
      BY <3>1, <3>3
  <2> QED
    BY <2>2, <2>3
<1>5. NotesTyped' /\ CommitsOnce'
  BY <1>1, <1>4 DEF NotesInv, NotesTyped, CommitsOnce
<1>6. Connected' /\ NoGap'
  BY <1>1, <1>4 DEF NotesInv, Connected, NoGap
<1>7. WalkSound'
  <2> SUFFICES ASSUME ~nf.shifted, list'.pc = "slice"
               PROVE  /\ \A k \in nf.before \cap s :
                            k \in nf.got \/ Cardinality(Newer(k, s)) >= list.page - 1
                      /\ Cardinality(s) <= list'.count
                      /\ list.page >= 1
    BY <1>1, <1>4 DEF WalkSound, s, Listed, Newer
  <2>1. /\ \A k \in nf.before \cap s :
              k \in nf.got \/ Cardinality(Newer(k, s)) >= list.page - 1
        /\ list.page >= 1
    BY <1>1 DEF NotesInv, WalkSound, s
  <2>2. list'.count = n /\ n <= n
    BY <1>3, <1>4, NoteRecords
  <2> QED
    BY <2>1, <2>2 DEF n
<1>8. ListMissesNothing'
  <2> SUFFICES ASSUME list'.pc = "done", ~nf.shifted, NEW k \in nf.before \cap s, k \notin nf.got
               PROVE  FALSE
    BY <1>1, <1>4 DEF ListMissesNothing, s, Listed
  <2>1. Cardinality(Newer(k, s)) >= list.page - 1 /\ list.page > n
    BY <1>1, <1>4 DEF NotesInv, WalkSound, s
  <2>2. /\ Cardinality(Newer(k, s)) \in Nat /\ n \in Nat
        /\ Cardinality(Newer(k, s)) < n
    BY <1>2, NewerFewer DEF n
  <2>3. list.page \in Int
    BY <1>2, NoteRecords DEF ListType
  <2> QED
    BY <2>1, <2>2, <2>3
<1> QED
  BY <1>5, <1>6, <1>7, <1>8 DEF NotesInv

\* A page is read: the ones to find that are not on it are on later pages, and after
\* the last page there are none.
LEMMA ListSliceKeeps ==
    ASSUME NotesInv, ListSlice
    PROVE  NotesInv'
<1> DEFINE s == Listed(list.unread)
           p == Page(s, list.page)
<1>1. /\ list.pc = "slice"
      /\ nf' = [nf EXCEPT !.got = @ \cup p]
      /\ list' = IF list.page < list.count THEN [list EXCEPT !.pc = "count", !.page = @ + 1]
                 ELSE [list EXCEPT !.pc = "done"]
      /\ UNCHANGED <<clock, store, read, owner, creator, marker, socket, inGroup, inbox>>
  BY DEF ListSlice, rowVars
<1>2. list \in ListType /\ s \in SUBSET Notes /\ nf \in HistoryType
  BY DEF NotesInv, NotesTyped, Listed
<1>3. p \subseteq Notes /\ \A k \in s : k \in p <=> Cardinality(Newer(k, s)) = list.page - 1
  BY <1>2 DEF Page, Newer
<1>4. list.page \in Nat /\ list.count \in 0..MaxNotes
  BY <1>2, NoteRecords DEF ListType
<1> HIDE DEF s, p
<1>5. /\ nf' \in HistoryType
      /\ nf'.before = nf.before /\ nf'.got = nf.got \cup p /\ nf'.shifted = nf.shifted
      /\ nf'.pushed = nf.pushed /\ nf'.lost = nf.lost
  BY <1>1, <1>2, <1>3 DEF HistoryType
<1>6. /\ list' \in ListType
      /\ list'.unread = list.unread
      /\ \/ list.page < list.count /\ list'.pc = "count" /\ list'.page = list.page + 1
         \/ list.page >= list.count /\ list'.pc = "done"
  <2>1. CASE list.page < list.count
    <3>1. list.page + 1 \in 0..MaxNotes + 1
      BY <1>4, <2>1, NoteRecords
    <3> QED
      BY <1>1, <1>2, <2>1, <3>1 DEF ListType
  <2>2. CASE ~(list.page < list.count)
    <3>1. list.page >= list.count
      BY <1>4, <2>2, NoteRecords
    <3> QED
      BY <1>1, <1>2, <2>2, <3>1 DEF ListType
  <2> QED
    BY <2>1, <2>2
<1>7. NotesTyped' /\ CommitsOnce'
  BY <1>1, <1>5, <1>6 DEF NotesInv, NotesTyped, CommitsOnce
<1>8. Connected' /\ NoGap'
  BY <1>1, <1>5, <1>6 DEF NotesInv, Connected, NoGap
<1>9. ASSUME ~nf.shifted, NEW k \in nf.before \cap s, k \notin nf'.got
      PROVE  /\ Cardinality(Newer(k, s)) \in Nat
             /\ Cardinality(Newer(k, s)) >= list.page
             /\ Cardinality(Newer(k, s)) < Cardinality(s) /\ Cardinality(s) \in Nat
  <2>1. Cardinality(Newer(k, s)) >= list.page - 1
    BY <1>1, <1>5, <1>9 DEF NotesInv, WalkSound, s
  <2>2. Cardinality(Newer(k, s)) # list.page - 1
    BY <1>3, <1>5, <1>9
  <2>3. /\ Cardinality(Newer(k, s)) \in Nat /\ Cardinality(s) \in Nat
        /\ Cardinality(Newer(k, s)) < Cardinality(s)
    BY <1>2, NewerFewer
  <2> QED
    BY <1>4, <2>1, <2>2, <2>3
<1>10. WalkSound'
  <2> SUFFICES ASSUME ~nf.shifted, list'.pc = "count"
               PROVE  /\ \A k \in nf.before \cap s :
                            k \in nf'.got \/ Cardinality(Newer(k, s)) >= list'.page - 1
                      /\ list'.page >= 1
    BY <1>1, <1>5, <1>6 DEF WalkSound, s, Listed, Newer
  <2>1. list'.page = list.page + 1
    BY <1>6
  <2>2. list'.page - 1 = list.page /\ list'.page >= 1
    BY <1>4, <2>1
  <2> QED
    BY <1>9, <2>2
<1>11. ListMissesNothing'
  <2> SUFFICES ASSUME list'.pc = "done", ~nf.shifted, NEW k \in nf.before \cap s, k \notin nf'.got
               PROVE  FALSE
    BY <1>1, <1>5, <1>6 DEF ListMissesNothing, s, Listed
  <2>1. Cardinality(s) <= list.count /\ list.page >= list.count
    BY <1>1, <1>6 DEF NotesInv, WalkSound, s
  <2>2. list.count \in Nat
    BY <1>4, NoteRecords
  <2> QED
    BY <1>4, <1>9, <2>1, <2>2
<1> QED
  BY <1>7, <1>8, <1>10, <1>11 DEF NotesInv

\* Erasure leaves nothing to find.
LEMMA EraseKeeps ==
    ASSUME NotesInv, NEW mode \in {"anonymize", "hard_delete"}, EraseNotifications(mode)
    PROVE  NotesInv'
<1>1. /\ store' = {} /\ read' = {} /\ owner' \in {"there", "deleted"}
      /\ UNCHANGED <<clock, creator, marker, socket, inGroup, inbox, list, nf>>
  BY DEF EraseNotifications, clientVars
<1>2. NotesTyped' /\ CommitsOnce'
  BY <1>1 DEF NotesInv, NotesTyped, CommitsOnce
<1>3. Connected' /\ NoGap'
  BY <1>1 DEF NotesInv, Connected, NoGap
<1>4. Listed(list.unread)' = {}
  BY <1>1 DEF Listed
<1>5. ListMissesNothing'
  BY <1>1, <1>4 DEF ListMissesNothing
<1>6. WalkSound'
  <2>1. list.count \in Nat /\ Cardinality({}) = 0
    BY NoteRecords, FS_EmptySet DEF NotesInv, NotesTyped, ListType
  <2>2. ~nf.shifted /\ list.pc \in {"count", "slice"} => list.page >= 1
    BY DEF NotesInv, WalkSound
  <2> SUFFICES ASSUME ~nf.shifted
               PROVE  /\ Cardinality({}) <= list.count
                      /\ list.pc \in {"count", "slice"} => list.page >= 1
    BY <1>1, <1>4 DEF WalkSound
  <2> QED
    BY <2>1, <2>2
<1> QED
  BY <1>2, <1>3, <1>5, <1>6 DEF NotesInv

\* NotesInv is inductive.
LEMMA NotesInvStep == NotesInv /\ [NotificationsNext]_nfVars => NotesInv'
<1> SUFFICES ASSUME NotesInv, [NotificationsNext]_nfVars PROVE NotesInv'
  OBVIOUS
<1>1. ASSUME NEW c \in Creators, CreateSend(c) \/ CreatorDies(c)
      PROVE  NotesInv'
  BY <1>1, CreatorEnds DEF CreateSend, CreatorDies, clientVars
<1>2. CASE UNCHANGED nfVars
  <2>1. NotesTyped' /\ CommitsOnce' /\ Connected' /\ NoGap'
    BY <1>2 DEF nfVars, NotesInv, NotesTyped, CommitsOnce, Connected, NoGap
  <2> QED
    BY <1>2, <2>1, WalkStays DEF nfVars, NotesInv
<1>3. CASE NotificationsNext
  BY <1>1, <1>3, StampKeeps, CommitKeeps, MarkKeeps, SocketKeeps, ListBeginKeeps,
     ListCountKeeps, ListSliceKeeps, EraseKeeps
     DEF NotificationsNext
<1> QED
  BY <1>2, <1>3

\* So it holds throughout.
LEMMA NotesInvHolds == NotificationsSpec => []NotesInv
<1>1. NfInit => NotesInv
  <2> SUFFICES ASSUME NfInit PROVE NotesInv
    OBVIOUS
  <2>1. NotesTyped
    <3>1. 0 \in 0..MaxNotes
      BY NoteRecords
    <3> QED
      BY <3>1, NoteRecords DEF NfInit, NotesTyped
  <2>2. CommitsOnce /\ Connected /\ NoGap
    BY NoteRecords DEF NfInit, CommitsOnce, Connected, NoGap
  <2>3. WalkSound /\ ListMissesNothing
    BY NoteRecords DEF NfInit, WalkSound, ListMissesNothing
  <2> QED
    BY <2>1, <2>2, <2>3 DEF NotesInv
<1> QED
  BY <1>1, NotesInvStep, PTL DEF NotificationsSpec

\* The type invariant of the notifications.
THEOREM NotificationsAreTyped == NotificationsSpec => []NotificationsTypeOK
<1>1. NotesInv => NotificationsTypeOK
  BY DEF NotesInv, NotesTyped, NotificationsTypeOK, CreatorType, ListType, HistoryType
<1> QED
  BY <1>1, NotesInvHolds, PTL

\* A client that connects before it asks for the list misses nothing: what is not
\* in the list comes over the socket, or its push has failed.
THEOREM NothingIsMissed == NotificationsSpec => []NoGap
<1>1. NotesInv => NoGap
  BY DEF NotesInv
<1> QED
  BY <1>1, NotesInvHolds, PTL

\* A walk through the pages finds all that was there and stays, however many rows are
\* stored meanwhile: they only push the rest back, except on the last page.
THEOREM WalkIsComplete == NotificationsSpec => []ListMissesNothing
<1>1. NotesInv => ListMissesNothing
  BY DEF NotesInv
<1> QED
  BY <1>1, NotesInvHolds, PTL

-----------------------------------------------------------------------------
(* Throttling *)

EntryType == [times : Seq(Int), until : Int]

ThRequest == [pc : {"idle", "ask", "write"}, todo : Seq(Scopes),
              who : Members \cup Guests \cup {""}, tenant : ThTenants \cup {"no_tenant"},
              now : Int, per : Nat \ {0}, times : Seq(Int)]

ThHistory == [let : [Keys -> Seq(Int)], per : [Keys -> Nat], excused : SUBSET Keys,
              wrong : SUBSET Keys]

ThTyped ==
    /\ tick \in Int /\ load \in Loads
    /\ entry \in [Keys -> EntryType]
    /\ thReq \in [ThRequests -> ThRequest]
    /\ th \in ThHistory

\* A request under way asks one throttle after another, each with a key.
Queued ==
    \A r \in ThRequests : thReq[r].pc # "idle" =>
        /\ Len(thReq[r].todo) >= 1
        /\ \A i \in DOMAIN thReq[r].todo :
              KeyOf(thReq[r].todo[i], thReq[r].who, thReq[r].tenant) \in Keys

\* Times are in the order in which they were let through, none of them after now.
Ordered(lets, now) ==
    /\ \A i, j \in DOMAIN lets : i <= j => lets[i] <= lets[j]
    /\ \A i \in DOMAIN lets : lets[i] <= now

\* A list, newest first, holds the last of the times that were let through; those
\* that it does not hold are not after old.
Covers(lets, times, old) ==
    /\ Len(times) <= Len(lets)
    /\ \A j \in DOMAIN times : times[j] = lets[Len(lets) + 1 - j]
    /\ \A i \in 1..(Len(lets) - Len(times)) : lets[i] <= old

\* The entry of a key covers what its throttle has let through within the duration
\* last in use, and is kept until the last of that is too old.
EntrySound(k) ==
    /\ Ordered(th.let[k], tick)
    /\ th.per[k] = 0 => th.let[k] = <<>>
    /\ Covers(th.let[k], entry[k].times, tick - th.per[k])
    /\ \A i \in DOMAIN th.let[k] : th.let[k][i] + th.per[k] <= entry[k].until

\* So does what a request has read and is to write back, and it alone holds the key.
HeldSound(k) ==
    \A r \in ThRequests : thReq[r].pc = "write" /\ MyKey(r) = k =>
        /\ thReq[r].now <= tick /\ thReq[r].per = th.per[k]
        /\ Ordered(th.let[k], thReq[r].now)
        /\ Covers(th.let[k], thReq[r].times, thReq[r].now - thReq[r].per)
        /\ Holding(k, r) = {}

EntriesSound == \A k \in Keys \ th.excused : EntrySound(k) /\ HeldSound(k)

ThInv == ThTyped /\ Queued /\ EntriesSound /\ WindowIsExact

\* A list of times by its places.
LEMMA TimesList ==
    ASSUME NEW s \in Seq(Int)
    PROVE  Len(s) \in Nat /\ DOMAIN s = 1..Len(s) /\ \A i \in 1..Len(s) : s[i] \in Int
BY LenProperties, ElementOfSeq

\* The first n numbers.
LEMMA FirstNumbers ==
    ASSUME NEW n \in Nat
    PROVE  IsFiniteSet(1..n) /\ Cardinality(1..n) = n
<1>1. /\ IsFiniteSet(1..n)
      /\ Cardinality(1..n) = IF 1 > n THEN 0 ELSE n - 1 + 1
  BY FS_Interval
<1> QED
  BY <1>1

\* What covers the times up to a moment covers them up to a later one.
LEMMA CoversLater ==
    ASSUME NEW lets \in Seq(Int), NEW times \in Seq(Int), NEW old \in Int, NEW later \in Int,
           old <= later, Covers(lets, times, old)
    PROVE  Covers(lets, times, later)
<1>1. /\ Len(lets) \in Nat /\ Len(times) \in Nat
      /\ \A i \in 1..Len(lets) : lets[i] \in Int
  BY TimesList
<1>2. \A i \in 1..(Len(lets) - Len(times)) : i \in 1..Len(lets) /\ lets[i] <= old
  BY <1>1 DEF Covers
<1>3. \A i \in 1..(Len(lets) - Len(times)) : lets[i] <= later
  BY <1>1, <1>2
<1> QED
  BY <1>3 DEF Covers

\* Times that are in order now are in order later.
LEMMA OrderedLater ==
    ASSUME NEW lets \in Seq(Int), NEW now \in Int, NEW later \in Int, now <= later,
           Ordered(lets, now)
    PROVE  Ordered(lets, later)
<1>1. \A i \in DOMAIN lets : lets[i] \in Int
  BY TimesList
<1> QED
  BY <1>1 DEF Ordered

\* What is pruned holds exactly the times within the duration, and still covers them.
LEMMA PrunedCovers ==
    ASSUME NEW lets \in Seq(Int), NEW times \in Seq(Int), NEW now \in Int, NEW per \in Int,
           tick \in Int, Ordered(lets, now), Covers(lets, times, tick - per)
    PROVE  /\ Within(times, per) \in Seq(Int)
           /\ Len(Within(times, per)) = Cardinality({i \in DOMAIN lets : lets[i] > tick - per})
           /\ Covers(lets, Within(times, per), tick - per)
<1> DEFINE l == Len(lets)
           m == Len(times)
           old == tick - per
           fresh == {i \in DOMAIN times : times[i] > tick - per}
           n == Cardinality(fresh)
           kept == Within(times, per)
<1>1. /\ l \in Nat /\ m \in Nat /\ m <= l /\ old \in Int
      /\ DOMAIN times = 1..m /\ DOMAIN lets = 1..l
      /\ \A i \in 1..l : lets[i] \in Int
      /\ \A i \in 1..m : times[i] \in Int
  BY TimesList DEF Covers
<1>2. \A j \in 1..m : l + 1 - j \in 1..l /\ times[j] = lets[l + 1 - j]
  <2>1. \A j \in 1..m : times[j] = lets[l + 1 - j]
    BY <1>1 DEF Covers
  <2> HIDE DEF l, m
  <2>2. \A j \in 1..m : l + 1 - j \in 1..l
    BY <1>1
  <2> QED
    BY <2>1, <2>2
<1>3. \A i \in 1..(l - m) : lets[i] <= old
  BY DEF Covers
<1>4. \A i, j \in 1..l : i <= j => lets[i] <= lets[j]
  BY <1>1 DEF Ordered
<1>5. kept = SubSeq(times, 1, n)
  BY DEF Within
<1>6. \A i : i \in fresh <=> i \in 1..m /\ times[i] > old
  BY <1>1
<1> HIDE DEF l, m, old, fresh, kept
<1>7. IsFiniteSet(fresh) /\ n \in Nat /\ n <= m
  <2>1. fresh \in SUBSET (1..m) /\ IsFiniteSet(1..m) /\ Cardinality(1..m) = m
    BY <1>1, <1>6, FirstNumbers
  <2>2. IsFiniteSet(fresh) /\ n <= m
    BY <2>1, FS_Subset
  <2> QED
    BY <2>2, FS_CardinalityType
<1> HIDE DEF n
<1>8. \A j \in fresh : j <= n
  <2> SUFFICES ASSUME NEW j \in fresh PROVE j <= n
    OBVIOUS
  <2>1. j \in 1..m /\ j \in Nat /\ times[j] > old
    BY <1>1, <1>6
  <2>2. ASSUME NEW i \in 1..j  PROVE i \in fresh
    <3>1. i \in 1..m /\ i <= j
      BY <1>1, <2>1
    <3>2. l + 1 - j <= l + 1 - i
      BY <1>1, <2>1, <3>1
    <3>3. times[j] <= times[i]
      BY <1>2, <1>4, <2>1, <3>1, <3>2
    <3>4. times[i] > old
      BY <1>1, <2>1, <3>1, <3>3
    <3> QED
      BY <1>6, <3>1, <3>4
  <2>3. 1..j \in SUBSET fresh /\ Cardinality(1..j) = j
    BY <2>1, <2>2, FirstNumbers
  <2>4. Cardinality(1..j) <= Cardinality(fresh)
    BY <1>7, <2>3, FS_Subset
  <2> QED
    BY <2>3, <2>4 DEF n
<1>9. fresh = 1..n
  <2>1. fresh \in SUBSET (1..n)
    BY <1>1, <1>6, <1>7, <1>8
  <2>2. IsFiniteSet(1..n) /\ Cardinality(1..n) = Cardinality(fresh)
    BY <1>7, FirstNumbers DEF n
  <2> QED
    BY <2>1, <2>2, FS_Subset
<1>10. kept \in Seq(Int) /\ Len(kept) = n /\ \A j \in 1..n : kept[j] = times[j]
  <2>1. \A i \in 1..n : times[i] \in Int
    BY <1>1, <1>7
  <2>2. /\ SubSeq(times, 1, n) \in Seq(Int)
        /\ Len(SubSeq(times, 1, n)) = IF 1 <= n THEN n - 1 + 1 ELSE 0
        /\ \A i \in 1..(n - 1 + 1) : SubSeq(times, 1, n)[i] = times[1 + i - 1]
    BY <1>7, <2>1, SubSeqProperties
  <2>3. n - 1 + 1 = n /\ \A i \in 1..n : 1 + i - 1 = i
    BY <1>7
  <2> QED
    BY <1>5, <1>7, <2>2, <2>3
<1>11. ASSUME NEW i \in 1..l
       PROVE  lets[i] > old <=> i \in (l - n + 1)..l
  <2>1. CASE i \in 1..(l - m)
    <3>1. ~(lets[i] > old)
      BY <1>1, <1>3, <2>1
    <3>2. i \notin (l - n + 1)..l
      BY <1>1, <1>7, <2>1
    <3> QED
      BY <3>1, <3>2
  <2>2. CASE i \notin 1..(l - m)
    <3> DEFINE j == l + 1 - i
    <3>1. j \in 1..m /\ l + 1 - j = i
      BY <1>1, <2>2
    <3>2. times[j] = lets[i]
      BY <1>2, <3>1
    <3>3. j \in 1..n <=> i \in (l - n + 1)..l
      BY <1>1, <1>7
    <3> HIDE DEF j
    <3>4. lets[i] > old <=> j \in 1..n
      BY <1>6, <1>9, <3>1, <3>2
    <3> QED
      BY <3>3, <3>4
  <2> QED
    BY <2>1, <2>2
<1>12. Cardinality({i \in DOMAIN lets : lets[i] > tick - per}) = n
  <2>1. {i \in DOMAIN lets : lets[i] > tick - per} = (l - n + 1)..l
    <3>1. \A i : i \in (l - n + 1)..l => i \in 1..l
      BY <1>1, <1>7
    <3>2. \A i : i \in {k \in DOMAIN lets : lets[k] > tick - per} <=> i \in 1..l /\ lets[i] > old
      BY <1>1 DEF old
    <3> QED
      BY <1>11, <3>1, <3>2
  <2>2. Cardinality((l - n + 1)..l) = IF l - n + 1 > l THEN 0 ELSE l - (l - n + 1) + 1
    BY <1>1, <1>7, FS_Interval
  <2>3. (IF l - n + 1 > l THEN 0 ELSE l - (l - n + 1) + 1) = n
    BY <1>1, <1>7
  <2> QED
    BY <2>1, <2>2, <2>3
<1>13. Covers(lets, kept, old)
  <2>1. n <= l
    BY <1>1, <1>7
  <2>2. DOMAIN kept = 1..n
    BY <1>10, TimesList
  <2>3. \A j \in 1..n : kept[j] = lets[l + 1 - j]
    <3>1. \A j \in 1..n : j \in 1..m
      BY <1>1, <1>7
    <3> QED
      BY <1>2, <1>10, <3>1
  <2>4. \A i \in 1..(l - n) : lets[i] <= old
    <3> SUFFICES ASSUME NEW i \in 1..(l - n) PROVE lets[i] <= old
      OBVIOUS
    <3>1. i \in 1..l /\ i \notin (l - n + 1)..l
      BY <1>1, <1>7
    <3>2. ~(lets[i] > old) /\ lets[i] \in Int
      BY <1>1, <1>11, <3>1
    <3> QED
      BY <1>1, <3>2
  <2> QED
    BY <1>10, <2>1, <2>2, <2>3, <2>4 DEF Covers, l
<1> QED
  BY <1>10, <1>12, <1>13 DEF kept, old

\* A time let through now goes in front of the list, and after all the others.
LEMMA CountedCovers ==
    ASSUME NEW lets \in Seq(Int), NEW times \in Seq(Int), NEW now \in Int, NEW old \in Int,
           Ordered(lets, now), Covers(lets, times, old)
    PROVE  /\ Append(lets, now) \in Seq(Int) /\ <<now>> \o times \in Seq(Int)
           /\ Ordered(Append(lets, now), now)
           /\ Covers(Append(lets, now), <<now>> \o times, old)
<1> DEFINE l == Len(lets)
           m == Len(times)
           a == Append(lets, now)
           b == <<now>> \o times
<1>1. /\ l \in Nat /\ m \in Nat /\ m <= l
      /\ DOMAIN times = 1..m /\ DOMAIN lets = 1..l
      /\ \A i \in 1..l : lets[i] \in Int
  BY TimesList DEF Covers
<1>2. /\ a \in Seq(Int) /\ Len(a) = l + 1
      /\ \A i \in 1..l : a[i] = lets[i]
      /\ a[l + 1] = now
  <2>1. /\ a \in Seq(Int) /\ Len(a) = Len(lets) + 1
        /\ \A i \in 1..Len(lets) : a[i] = lets[i]
        /\ a[Len(lets) + 1] = now
    OBVIOUS
  <2> QED
    BY <2>1
<1>3. /\ b \in Seq(Int) /\ Len(b) = m + 1
      /\ b[1] = now /\ \A j \in 2..(m + 1) : b[j] = times[j - 1]
  <2>1. <<now>> \in Seq(Int) /\ Len(<<now>>) = 1 /\ <<now>>[1] = now
    OBVIOUS
  <2> HIDE DEF m
  <2>2. /\ b \in Seq(Int) /\ Len(b) = 1 + m
        /\ \A i \in 1..(1 + m) : b[i] = IF i <= 1 THEN <<now>>[i] ELSE times[i - 1]
    BY <2>1, ConcatProperties DEF m
  <2> QED
    BY <1>1, <2>1, <2>2
<1>4. DOMAIN a = 1..(l + 1) /\ DOMAIN b = 1..(m + 1)
  BY <1>2, <1>3, TimesList
<1>5. \A i, j \in 1..l : i <= j => lets[i] <= lets[j]
  BY <1>1 DEF Ordered
<1>6. \A i \in 1..l : lets[i] <= now
  BY <1>1 DEF Ordered
<1>7. \A j \in 1..m : times[j] = lets[l + 1 - j]
  BY <1>1 DEF Covers
<1>8. \A i \in 1..(l - m) : lets[i] <= old
  BY DEF Covers
<1> HIDE DEF a, b, l, m
<1>9. \A i \in 1..(l + 1) : i \in 1..l \/ i = l + 1
  BY <1>1
<1>10. Ordered(a, now)
  <2>1. \A i \in 1..(l + 1) : a[i] <= now
    <3>1. now <= now
      OBVIOUS
    <3>2. \A i \in 1..l : a[i] <= now
      BY <1>2, <1>6
    <3> QED
      BY <1>2, <1>9, <3>1, <3>2
  <2>2. ASSUME NEW i \in 1..(l + 1), NEW j \in 1..(l + 1), i <= j
        PROVE  a[i] <= a[j]
    <3>1. CASE j = l + 1
      BY <1>2, <2>1, <3>1
    <3>2. CASE j # l + 1
      <4>1. i \in 1..l /\ j \in 1..l
        BY <1>1, <2>2, <3>2
      <4> QED
        BY <1>2, <1>5, <2>2, <4>1
    <3> QED
      BY <3>1, <3>2
  <2> QED
    BY <1>4, <2>1, <2>2 DEF Ordered
<1>11. Covers(a, b, old)
  <2>1. Len(b) <= Len(a)
    BY <1>1, <1>2, <1>3
  <2>2. ASSUME NEW j \in 1..(m + 1)
        PROVE  b[j] = a[(l + 1) + 1 - j]
    <3>1. CASE j = 1
      BY <1>1, <1>2, <1>3, <3>1
    <3>2. CASE j # 1
      <4>1. j \in 2..(m + 1) /\ j - 1 \in 1..m /\ l + 1 - (j - 1) = (l + 1) + 1 - j
        BY <1>1, <3>2
      <4>2. (l + 1) + 1 - j \in 1..l
        BY <1>1, <4>1
      <4>3. times[j - 1] = lets[l + 1 - (j - 1)]
        BY <1>7, <4>1
      <4> QED
        BY <1>2, <1>3, <4>1, <4>2, <4>3
    <3> QED
      BY <3>1, <3>2
  <2>3. \A i \in 1..((l + 1) - (m + 1)) : a[i] <= old
    <3>1. \A i \in 1..((l + 1) - (m + 1)) : i \in 1..(l - m) /\ i \in 1..l
      BY <1>1
    <3> QED
      BY <1>2, <1>8, <3>1
  <2> QED
    BY <1>2, <1>3, <1>4, <2>1, <2>2, <2>3 DEF Covers
<1> QED
  BY <1>2, <1>3, <1>10, <1>11 DEF a, b

\* Every throttle has a rate, whatever the plan of the moment.
LEMMA RatesArePositive ==
    ASSUME NEW scope \in Scopes, NEW tenant
    PROVE  RateOf(scope, tenant).num \in Nat \ {0} /\ RateOf(scope, tenant).per \in Nat \ {0}
<1>1. "user" \in Scopes \ {"plan"}
  BY DEF Scopes
<1>2. RateOf(scope, tenant) \in Rate
  BY <1>1, ThrottlingAssumption DEF RateOf
<1> QED
  BY <1>2 DEF Rate

\* The throttles of a request and the keys that they use.
LEMMA ChecksHaveKeys ==
    ASSUME NEW l \in Loads, NEW q \in l
    PROVE  /\ Checks(q.view, q.who) \in Seq(Scopes)
           /\ \A i \in DOMAIN Checks(q.view, q.who) :
                 KeyOf(Checks(q.view, q.who)[i], q.who, q.tenant) \in Keys
<1>1. /\ <<"user">> \in Seq(Scopes) /\ <<"anon", "user">> \in Seq(Scopes)
      /\ <<"anon", "user", "login">> \in Seq(Scopes) /\ <<"register">> \in Seq(Scopes)
      /\ <<"plan">> \in Seq(Scopes) /\ <<>> \in Seq(Scopes)
  BY DEF Scopes
<1>2. Checks(q.view, q.who) \in Seq(Scopes)
  BY <1>1 DEF Checks
<1>3. q \in UNION Loads
  OBVIOUS
<1> QED
  BY <1>2, <1>3 DEF Keys

\* A key that a step has nothing to do with.
LEMMA OtherKey ==
    ASSUME ThInv, NEW k \in Keys \ th.excused,
           tick' = tick, entry'[k] = entry[k],
           th'.let[k] = th.let[k], th'.per[k] = th.per[k],
           \A q \in ThRequests : thReq'[q].pc = "write" /\ MyKey(q)' = k =>
              thReq'[q] = thReq[q] /\ MyKey(q) = k
    PROVE  EntrySound(k)' /\ HeldSound(k)'
<1>1. EntrySound(k) /\ HeldSound(k)
  BY DEF ThInv, EntriesSound
<1>2. EntrySound(k)'
  BY <1>1 DEF EntrySound
<1>3. \A q \in ThRequests : Holding(k, q)' \subseteq Holding(k, q)
  BY DEF Holding
<1>4. HeldSound(k)'
  <2> SUFFICES ASSUME NEW q \in ThRequests, thReq'[q].pc = "write", MyKey(q)' = k
               PROVE  /\ thReq[q].now <= tick /\ thReq[q].per = th.per[k]
                      /\ Ordered(th.let[k], thReq[q].now)
                      /\ Covers(th.let[k], thReq[q].times, thReq[q].now - thReq[q].per)
                      /\ Holding(k, q)' = {}
    BY DEF HeldSound
  <2> QED
    BY <1>1, <1>3 DEF HeldSound
<1> QED
  BY <1>2, <1>4

\* A request that does not write frees the key it held, if any, and nothing else changes.
LEMMA ReleaseKeeps ==
    ASSUME ThInv, NEW r \in ThRequests, NEW x \in ThRequest,
           x.pc # "write",
           x.pc # "idle" => /\ Len(x.todo) >= 1
                            /\ \A i \in DOMAIN x.todo : KeyOf(x.todo[i], x.who, x.tenant) \in Keys,
           thReq' = [thReq EXCEPT ![r] = x],
           UNCHANGED <<tick, entry, load, th>>
    PROVE  ThInv'
<1>1. thReq'[r] = x /\ \A q \in ThRequests \ {r} : thReq'[q] = thReq[q]
  BY DEF ThInv, ThTyped
<1>2. ThTyped'
  BY DEF ThInv, ThTyped
<1>3. Queued'
  BY <1>1 DEF ThInv, Queued
<1>4. \A q \in ThRequests : thReq'[q].pc = "write" => q # r /\ thReq'[q] = thReq[q] /\ MyKey(q)' = MyKey(q)
  BY <1>1 DEF MyKey
<1>5. EntriesSound'
  <2> SUFFICES ASSUME NEW k \in Keys \ th.excused PROVE EntrySound(k)' /\ HeldSound(k)'
    BY DEF EntriesSound
  <2>1. \A q \in ThRequests : thReq'[q].pc = "write" /\ MyKey(q)' = k =>
           thReq'[q] = thReq[q] /\ MyKey(q) = k
    BY <1>4
  <2> QED
    BY <2>1, OtherKey
<1>6. WindowIsExact'
  BY DEF ThInv, WindowIsExact
<1> QED
  BY <1>2, <1>3, <1>5, <1>6 DEF ThInv

\* A request under way has a throttle to ask, and a key.
LEMMA RequestKey ==
    ASSUME ThInv, NEW r \in ThRequests, thReq[r].pc # "idle"
    PROVE  MyKey(r) \in Keys /\ Head(thReq[r].todo) \in Scopes
<1>1. thReq[r].todo \in Seq(Scopes) /\ Len(thReq[r].todo) >= 1
  BY DEF ThInv, ThTyped, ThRequest, Queued
<1>2. Head(thReq[r].todo) = thReq[r].todo[1] /\ 1 \in DOMAIN thReq[r].todo
  BY <1>1
<1>3. KeyOf(thReq[r].todo[1], thReq[r].who, thReq[r].tenant) \in Keys
  BY <1>2 DEF ThInv, Queued
<1> QED
  BY <1>1, <1>2, <1>3 DEF MyKey

\* The throttles left to ask after one.
LEMMA NextRequest ==
    ASSUME ThInv, NEW r \in ThRequests, thReq[r].pc # "idle", NextCheck(r)
    PROVE  \E x \in ThRequest :
              /\ x.pc # "write"
              /\ x.pc # "idle" => /\ Len(x.todo) >= 1
                                  /\ \A i \in DOMAIN x.todo : KeyOf(x.todo[i], x.who, x.tenant) \in Keys
              /\ thReq' = [thReq EXCEPT ![r] = x]
<1> DEFINE y == thReq[r]
<1>1. /\ thReq \in [ThRequests -> ThRequest] /\ y \in ThRequest
      /\ y.todo \in Seq(Scopes) /\ Len(y.todo) >= 1
      /\ \A i \in DOMAIN y.todo : KeyOf(y.todo[i], y.who, y.tenant) \in Keys
  BY DEF ThInv, ThTyped, ThRequest, Queued
<1>2. CASE Len(y.todo) = 1
  <2>1. thReq' = [thReq EXCEPT ![r] = ThIdle]
    BY <1>1, <1>2 DEF NextCheck
  <2>2. ThIdle \in ThRequest /\ ThIdle.pc = "idle"
    BY EmptySeq DEF ThIdle, ThRequest
  <2> QED
    BY <2>1, <2>2
<1>3. CASE Len(y.todo) # 1
  <2> DEFINE rest == Tail(y.todo)
             x == [ThIdle EXCEPT !.pc = "ask", !.todo = rest, !.who = y.who, !.tenant = y.tenant]
  <2>1. thReq' = [thReq EXCEPT ![r] = x]
    BY <1>1, <1>3 DEF NextCheck
  <2>2. y.todo # <<>>
    BY <1>1
  <2>3. /\ rest \in Seq(Scopes) /\ Len(rest) = Len(y.todo) - 1
        /\ \A i \in 1..Len(rest) : rest[i] = y.todo[i + 1]
    BY <1>1, <2>2, HeadTailProperties
  <2> HIDE DEF rest
  <2>4. DOMAIN rest = 1..Len(rest) /\ DOMAIN y.todo = 1..Len(y.todo) /\ Len(y.todo) \in Nat
    BY <1>1, <2>3
  <2>5. \A i \in DOMAIN rest : i + 1 \in DOMAIN y.todo /\ rest[i] = y.todo[i + 1]
    BY <2>3, <2>4
  <2>6. Len(rest) >= 1
    <3> DEFINE n == Len(y.todo)
    <3>1. n \in Nat /\ n >= 1 /\ n # 1 /\ Len(rest) = n - 1
      BY <1>1, <1>3, <2>3, <2>4
    <3> HIDE DEF n
    <3>2. n - 1 >= 1
      BY <3>1
    <3> QED
      BY <3>1, <3>2
  <2>7. /\ x \in ThRequest
        /\ x.pc = "ask" /\ x.todo = rest /\ x.who = y.who /\ x.tenant = y.tenant
    <3>1. ThIdle \in ThRequest
      BY EmptySeq DEF ThIdle, ThRequest
    <3>2. y.who \in Members \cup Guests \cup {""} /\ y.tenant \in ThTenants \cup {"no_tenant"}
      BY <1>1 DEF ThRequest
    <3> HIDE DEF y
    <3> QED
      BY <2>3, <3>1, <3>2 DEF ThRequest
  <2> HIDE DEF x
  <2>8. \A i \in DOMAIN x.todo : KeyOf(x.todo[i], x.who, x.tenant) \in Keys
    BY <1>1, <2>5, <2>7
  <2> QED
    BY <2>1, <2>6, <2>7, <2>8
<1> QED
  BY <1>2, <1>3

\* Of a key that is not given up, a request that asks finds what its throttle has let
\* through within the duration: all of that, and nothing else.
LEMMA AskFinds ==
    ASSUME ThInv, NEW r \in ThRequests, thReq[r].pc = "ask",
           NEW k \in Keys \ th.excused, MyKey(r) = k,
           NEW per \in Nat \ {0}, th.per[k] \notin 1..(per - 1)
    PROVE  /\ Within(Current(k), per) \in Seq(Int)
           /\ Len(Within(Current(k), per)) =
                 Cardinality({i \in DOMAIN th.let[k] : th.let[k][i] > tick - per})
           /\ Covers(th.let[k], Within(Current(k), per), tick - per)
<1>1. /\ tick \in Int /\ th.let[k] \in Seq(Int) /\ th.per[k] \in Nat
      /\ entry[k].times \in Seq(Int) /\ entry[k].until \in Int
  BY DEF ThInv, ThTyped, ThHistory, EntryType
<1>2. EntrySound(k)
  BY DEF ThInv, EntriesSound
<1> DEFINE lets == th.let[k]
<1>3. Len(lets) \in Nat /\ DOMAIN lets = 1..Len(lets) /\ \A i \in 1..Len(lets) : lets[i] \in Int
  BY <1>1, TimesList
<1>4. Current(k) \in Seq(Int)
  BY <1>1, EmptySeq DEF Current
<1>5. Covers(lets, Current(k), tick - per)
  <2>1. CASE entry[k].until > tick
    <3>1. Current(k) = entry[k].times /\ Covers(lets, entry[k].times, tick - th.per[k])
      BY <1>2, <2>1 DEF Current, EntrySound
    <3>2. CASE th.per[k] = 0
      <4>1. Len(lets) = 0
        BY <1>2, <3>2, EmptySeq DEF EntrySound
      <4>2. Len(entry[k].times) \in Nat
        BY <1>1, TimesList
      <4> HIDE DEF lets
      <4>3. 1..(Len(lets) - Len(entry[k].times)) = {}
        BY <4>1, <4>2
      <4> QED
        BY <3>1, <4>3 DEF Covers
    <3>3. CASE th.per[k] # 0
      <4>1. per <= th.per[k]
        BY <1>1, <3>3
      <4>2. tick - th.per[k] <= tick - per /\ tick - per \in Int /\ tick - th.per[k] \in Int
        BY <1>1, <4>1
      <4> QED
        BY <1>1, <3>1, <4>2, CoversLater
    <3> QED
      BY <3>2, <3>3
  <2>2. CASE ~(entry[k].until > tick)
    <3>1. Current(k) = <<>> /\ Len(<<>>) = 0 /\ DOMAIN <<>> = {}
      BY <2>2 DEF Current
    <3>2. ASSUME NEW i \in 1..Len(lets)  PROVE lets[i] <= tick - per
      <4>1. lets[i] + th.per[k] <= entry[k].until
        BY <1>2, <1>3 DEF EntrySound
      <4>2. th.per[k] # 0
        <5>1. Len(lets) # 0
          BY <1>3
        <5> QED
          BY <1>2, <5>1, EmptySeq DEF EntrySound
      <4>3. per <= th.per[k]
        BY <1>1, <4>2
      <4>4. lets[i] \in Int
        BY <1>3
      <4> HIDE DEF lets
      <4> QED
        BY <1>1, <2>2, <4>1, <4>3, <4>4
    <3> HIDE DEF lets
    <3>3. Len(lets) - 0 = Len(lets) /\ 0 <= Len(lets)
      BY <1>3
    <3> QED
      BY <3>1, <3>2, <3>3 DEF Covers
  <2> QED
    BY <2>1, <2>2
<1>6. Ordered(lets, tick) /\ lets \in Seq(Int) /\ per \in Int
  BY <1>1, <1>2 DEF EntrySound
<1>7. /\ Within(Current(k), per) \in Seq(Int)
      /\ Len(Within(Current(k), per)) = Cardinality({i \in DOMAIN lets : lets[i] > tick - per})
      /\ Covers(lets, Within(Current(k), per), tick - per)
  <2> HIDE DEF lets
  <2> QED
    BY <1>1, <1>4, <1>5, <1>6, PrunedCovers
<1> QED
  BY <1>7

\* A request asks a throttle: one key is looked at, and given up if another request
\* holds it or its duration has grown.
LEMMA AskKeeps ==
    ASSUME ThInv, NEW r \in ThRequests, Ask(r)
    PROVE  ThInv'
<1>0. PICK k \in Keys : k = MyKey(r)
  BY RequestKey DEF Ask
<1> DEFINE rate == RateOf(Head(thReq[r].todo), thReq[r].tenant)
           per == rate.per
           times == Within(Current(k), per)
           full == Len(times) >= rate.num
           due == Cardinality({i \in DOMAIN th.let[k] : th.let[k][i] > tick - per}) >= rate.num
           excused == Holding(k, r) # {} \/ th.per[k] \in 1..(per - 1)
           x == [thReq[r] EXCEPT !.pc = "write", !.now = tick, !.per = per, !.times = times]
<1>1. /\ thReq[r].pc = "ask"
      /\ IF full THEN NextCheck(r)
         ELSE thReq' = [thReq EXCEPT ![r].pc = "write", ![r].now = tick, ![r].per = per,
                                     ![r].times = times]
      /\ th' = [th EXCEPT !.wrong = IF full # due THEN @ \cup {k} ELSE @,
                          !.excused = IF excused THEN @ \cup {k} ELSE @,
                          !.let[k] = IF excused THEN <<>> ELSE @,
                          !.per[k] = per]
      /\ UNCHANGED <<tick, entry, load>>
  BY <1>0 DEF Ask
<1>2. /\ k \in Keys /\ Head(thReq[r].todo) \in Scopes
      /\ per \in Nat \ {0} /\ rate.num \in Nat \ {0}
  BY <1>1, RequestKey, RatesArePositive
<1>3. /\ tick \in Int /\ entry \in [Keys -> EntryType] /\ th \in ThHistory
      /\ thReq \in [ThRequests -> ThRequest] /\ thReq[r] \in ThRequest
      /\ th.let[k] \in Seq(Int) /\ th.per[k] \in Nat
  BY <1>2 DEF ThInv, ThTyped, ThHistory
<1>4. Current(k) \in Seq(Int)
  BY <1>2, <1>3, EmptySeq DEF Current, EntryType
<1>5. times \in Seq(Int)
  <2> DEFINE n == Cardinality({i \in DOMAIN Current(k) : Current(k)[i] > tick - per})
  <2>1. /\ Len(Current(k)) \in Nat /\ DOMAIN Current(k) = 1..Len(Current(k))
        /\ \A i \in 1..Len(Current(k)) : Current(k)[i] \in Int
    BY <1>4, TimesList
  <2>2. n \in Nat /\ n <= Len(Current(k))
    <3> DEFINE s == {i \in DOMAIN Current(k) : Current(k)[i] > tick - per}
               m == Len(Current(k))
    <3>1. s \in SUBSET (1..m) /\ IsFiniteSet(1..m) /\ Cardinality(1..m) = m
      BY <2>1, FirstNumbers
    <3> HIDE DEF s, m
    <3>2. IsFiniteSet(s) /\ Cardinality(s) <= m
      BY <3>1, FS_Subset
    <3>3. Cardinality(s) \in Nat
      BY <3>2, FS_CardinalityType
    <3> QED
      BY <3>2, <3>3 DEF s, m
  <2>3. times = SubSeq(Current(k), 1, n)
    BY DEF Within
  <2> HIDE DEF n
  <2>4. \A i \in 1..n : Current(k)[i] \in Int
    BY <2>1, <2>2
  <2> HIDE DEF times, per
  <2> QED
    BY <2>2, <2>3, <2>4, SubSeqProperties
<1>6. k \notin th.excused /\ ~excused =>
         full = due /\ Covers(th.let[k], times, tick - per)
  <2> SUFFICES ASSUME k \notin th.excused, ~excused
               PROVE  full = due /\ Covers(th.let[k], times, tick - per)
    OBVIOUS
  <2>1. /\ th.per[k] \notin 1..(per - 1) /\ per \in Nat \ {0}
        /\ k \in Keys \ th.excused /\ MyKey(r) = k /\ thReq[r].pc = "ask"
    BY <1>0, <1>1, <1>2
  <2> HIDE DEF per, rate
  <2>2. /\ Len(times) = Cardinality({i \in DOMAIN th.let[k] : th.let[k][i] > tick - per})
        /\ Covers(th.let[k], times, tick - per)
    BY ONLY ThInv, r \in ThRequests, <2>1, AskFinds
  <2> QED
    BY <2>2
<1> HIDE DEF per, full, due, excused, times, rate
<1>7. /\ th' \in ThHistory
      /\ th'.wrong = IF full # due THEN th.wrong \cup {k} ELSE th.wrong
      /\ th'.excused = IF excused THEN th.excused \cup {k} ELSE th.excused
      /\ \A j \in Keys \ {k} : th'.let[j] = th.let[j] /\ th'.per[j] = th.per[j]
      /\ th'.per[k] = per
      /\ ~excused => th'.let[k] = th.let[k]
  <2> DEFINE l == IF excused THEN <<>> ELSE th.let[k]
             let2 == [th.let EXCEPT ![k] = l]
             per2 == [th.per EXCEPT ![k] = per]
             wrong2 == IF full # due THEN th.wrong \cup {k} ELSE th.wrong
             excused2 == IF excused THEN th.excused \cup {k} ELSE th.excused
  <2>1. l \in Seq(Int) /\ (~excused => l = th.let[k])
    BY <1>3, EmptySeq
  <2>2. /\ wrong2 \in SUBSET Keys /\ excused2 \in SUBSET Keys
        /\ th.let \in [Keys -> Seq(Int)] /\ th.per \in [Keys -> Nat]
    BY <1>2, <1>3 DEF ThHistory
  <2>3. th' = [th EXCEPT !.wrong = wrong2, !.excused = excused2, !.let = let2, !.per = per2]
    BY <1>1, <1>3 DEF ThHistory
  <2> HIDE DEF l, wrong2, excused2
  <2>4. /\ let2 \in [Keys -> Seq(Int)] /\ let2[k] = l /\ \A j \in Keys \ {k} : let2[j] = th.let[j]
        /\ per2 \in [Keys -> Nat] /\ per2[k] = per /\ \A j \in Keys \ {k} : per2[j] = th.per[j]
    BY <1>2, <2>1, <2>2
  <2> HIDE DEF let2, per2
  <2>5. /\ th' \in ThHistory
        /\ th'.wrong = wrong2 /\ th'.excused = excused2 /\ th'.let = let2 /\ th'.per = per2
    BY <1>3, <2>2, <2>3, <2>4 DEF ThHistory
  <2> QED
    BY <2>1, <2>4, <2>5 DEF wrong2, excused2
<1>8. WindowIsExact'
  <2>1. th.wrong \subseteq th.excused
    BY DEF ThInv, WindowIsExact
  <2> QED
    BY <1>6, <1>7, <2>1 DEF WindowIsExact
<1>9. /\ x \in ThRequest
      /\ x.pc = "write" /\ x.now = tick /\ x.per = per /\ x.times = times
      /\ x.todo = thReq[r].todo /\ x.who = thReq[r].who /\ x.tenant = thReq[r].tenant
  BY <1>2, <1>3, <1>5 DEF ThRequest
<1> HIDE DEF x
<1>10. \E y \in ThRequest :
          /\ y = x \/ y.pc # "write"
          /\ y.pc # "idle" => /\ Len(y.todo) >= 1
                              /\ \A i \in DOMAIN y.todo : KeyOf(y.todo[i], y.who, y.tenant) \in Keys
          /\ thReq' = [thReq EXCEPT ![r] = y]
  <2>1. CASE full
    BY <1>1, <2>1, NextRequest
  <2>2. CASE ~full
    <3>1. thReq' = [thReq EXCEPT ![r] = x]
      BY <1>1, <1>3, <2>2 DEF x
    <3>2. /\ Len(thReq[r].todo) >= 1
          /\ \A i \in DOMAIN thReq[r].todo :
                KeyOf(thReq[r].todo[i], thReq[r].who, thReq[r].tenant) \in Keys
      BY <1>1 DEF ThInv, Queued
    <3> QED
      BY <1>9, <3>1, <3>2
  <2> QED
    BY <2>1, <2>2
<1>11. PICK y \in ThRequest :
          /\ y = x \/ y.pc # "write"
          /\ y.pc # "idle" => /\ Len(y.todo) >= 1
                              /\ \A i \in DOMAIN y.todo : KeyOf(y.todo[i], y.who, y.tenant) \in Keys
          /\ thReq' = [thReq EXCEPT ![r] = y]
  BY <1>10
<1>12. thReq'[r] = y /\ \A q \in ThRequests \ {r} : thReq'[q] = thReq[q]
  BY <1>3, <1>11
<1>13. ThTyped'
  BY <1>1, <1>3, <1>7, <1>11 DEF ThInv, ThTyped
<1>14. Queued'
  BY <1>11, <1>12 DEF ThInv, Queued
<1>15. \A q \in ThRequests \ {r} : MyKey(q)' = MyKey(q)
  BY <1>12 DEF MyKey
<1>16. thReq'[r].pc = "write" => thReq'[r] = x /\ MyKey(r)' = k
  BY <1>9, <1>11, <1>0, <1>12 DEF MyKey
<1>17. ASSUME NEW j \in Keys, j \notin th'.excused, j # k
       PROVE  EntrySound(j)' /\ HeldSound(j)'
  <2>1. j \notin th.excused /\ th'.let[j] = th.let[j] /\ th'.per[j] = th.per[j]
    BY <1>7, <1>17
  <2>2. \A q \in ThRequests : thReq'[q].pc = "write" /\ MyKey(q)' = j =>
           thReq'[q] = thReq[q] /\ MyKey(q) = j
    BY <1>12, <1>15, <1>16, <1>17
  <2> QED
    BY <1>1, <2>1, <2>2, OtherKey
<1>18. ASSUME k \notin th'.excused
       PROVE  EntrySound(k)' /\ HeldSound(k)'
  <2>1. /\ k \notin th.excused /\ ~excused
        /\ th'.let[k] = th.let[k] /\ th'.per[k] = per
    BY <1>7, <1>18
  <2>2. EntrySound(k) /\ Holding(k, r) = {}
    BY <1>2, <2>1 DEF ThInv, EntriesSound, excused
  <2>3. per <= th.per[k] \/ th.per[k] = 0
    BY <1>2, <1>3, <2>1 DEF excused
  <2> DEFINE lets == th.let[k]
  <2>4. lets \in Seq(Int) /\ DOMAIN lets = 1..Len(lets) /\ Len(lets) \in Nat
    BY <1>3, TimesList
  <2>5. th.per[k] = 0 => Len(lets) = 0
    BY <2>2, EmptySeq DEF EntrySound
  <2>6. entry[k].times \in Seq(Int) /\ entry[k].until \in Int /\ Len(entry[k].times) \in Nat
    BY <1>2, <1>3, TimesList DEF EntryType
  <2>7. Covers(lets, entry[k].times, tick - per)
    <3>1. Covers(lets, entry[k].times, tick - th.per[k])
      BY <2>2 DEF EntrySound
    <3>2. CASE th.per[k] = 0
      <4> HIDE DEF lets
      <4>1. 1..(Len(lets) - Len(entry[k].times)) = {}
        BY <2>5, <2>6, <3>2
      <4> QED
        BY <3>1, <4>1 DEF Covers
    <3>3. CASE per <= th.per[k]
      <4>1. tick - th.per[k] \in Int /\ tick - per \in Int /\ tick - th.per[k] <= tick - per
        BY <1>2, <1>3, <3>3
      <4> HIDE DEF lets
      <4> QED
        BY <2>4, <2>6, <3>1, <4>1, CoversLater
    <3> QED
      BY <2>3, <3>2, <3>3
  <2>8. \A i \in DOMAIN lets : lets[i] + per <= entry[k].until
    <3> SUFFICES ASSUME NEW i \in DOMAIN lets PROVE lets[i] + per <= entry[k].until
      OBVIOUS
    <3>1. lets[i] + th.per[k] <= entry[k].until /\ lets[i] \in Int
      BY <1>3, <2>2, <2>4, TimesList DEF EntrySound
    <3>2. per <= th.per[k]
      BY <2>3, <2>4, <2>5
    <3> HIDE DEF lets
    <3> QED
      BY <1>2, <1>3, <2>6, <3>1, <3>2
  <2>9. EntrySound(k)'
    <3>1. Ordered(lets, tick)
      BY <2>2 DEF EntrySound
    <3> QED
      BY <1>1, <1>2, <2>1, <2>7, <2>8, <3>1 DEF EntrySound
  <2>10. \A q \in ThRequests : thReq'[q].pc = "write" /\ MyKey(q)' = k => q = r
    BY <1>12, <1>15, <2>2 DEF Holding
  <2>11. HeldSound(k)'
    <3> SUFFICES ASSUME thReq'[r].pc = "write", MyKey(r)' = k
                 PROVE  /\ thReq'[r].now <= tick' /\ thReq'[r].per = th'.per[k]
                        /\ Ordered(th.let[k], thReq'[r].now)
                        /\ Covers(th.let[k], thReq'[r].times, thReq'[r].now - thReq'[r].per)
                        /\ Holding(k, r)' = {}
      BY <2>1, <2>10 DEF HeldSound
    <3>1. thReq'[r] = x
      BY <1>16
    <3>2. Holding(k, r)' = {}
      BY <2>10 DEF Holding
    <3>3. Covers(th.let[k], times, tick - per)
      BY <1>6, <2>1
    <3>4. Ordered(th.let[k], tick) /\ tick <= tick
      BY <1>3, <2>2 DEF EntrySound
    <3> QED
      BY <1>1, <1>9, <2>1, <3>1, <3>2, <3>3, <3>4
  <2> QED
    BY <2>9, <2>11
<1>19. EntriesSound'
  <2>1. \A j \in Keys : j \notin th'.excused => EntrySound(j)' /\ HeldSound(j)'
    BY <1>17, <1>18
  <2> QED
    BY <2>1 DEF EntriesSound
<1> QED
  BY <1>8, <1>13, <1>14, <1>19 DEF ThInv

\* A request that was let through is counted.
LEMMA CountKeeps ==
    ASSUME ThInv, NEW r \in ThRequests, Count(r)
    PROVE  ThInv'
<1>1. PICK k \in Keys : k = MyKey(r)
  BY RequestKey DEF Count
<1> DEFINE y == thReq[r]
           lets == th.let[k]
           lets2 == IF k \in th.excused THEN lets ELSE Append(lets, y.now)
           times2 == <<y.now>> \o y.times
           e == [times |-> times2, until |-> tick + y.per]
<1>2. /\ y.pc = "write" /\ NextCheck(r)
      /\ entry' = [entry EXCEPT ![k] = e]
      /\ th' = [th EXCEPT !.let[k] = lets2]
      /\ UNCHANGED <<tick, load>>
  BY <1>1 DEF Count
<1>3. /\ tick \in Int /\ entry \in [Keys -> EntryType] /\ th \in ThHistory
      /\ thReq \in [ThRequests -> ThRequest]
      /\ lets \in Seq(Int) /\ th.per[k] \in Nat
      /\ y.now \in Int /\ y.per \in Nat \ {0} /\ y.times \in Seq(Int)
  BY DEF ThInv, ThTyped, ThHistory, ThRequest
<1>4. lets2 \in Seq(Int)
  BY <1>3, AppendProperties
<1>5. times2 \in Seq(Int)
  <2>1. <<y.now>> \in Seq(Int)
    BY <1>3
  <2> HIDE DEF y
  <2> QED
    BY <1>3, <2>1, ConcatProperties
<1> HIDE DEF lets2, times2
<1>6. /\ e \in EntryType
      /\ e.times = times2 /\ e.until = tick + y.per
  BY <1>3, <1>5 DEF EntryType
<1> HIDE DEF e
<1>7. entry' \in [Keys -> EntryType] /\ entry'[k] = e /\ \A j \in Keys \ {k} : entry'[j] = entry[j]
  BY <1>2, <1>3, <1>6
<1>8. /\ th' \in ThHistory
      /\ th'.wrong = th.wrong /\ th'.excused = th.excused /\ th'.per = th.per
      /\ th'.let[k] = lets2 /\ \A j \in Keys \ {k} : th'.let[j] = th.let[j]
  <2> DEFINE let2 == [th.let EXCEPT ![k] = lets2]
  <2>1. th.let \in [Keys -> Seq(Int)]
    BY <1>3 DEF ThHistory
  <2>2. /\ let2 \in [Keys -> Seq(Int)] /\ let2[k] = lets2
        /\ \A j \in Keys \ {k} : let2[j] = th.let[j]
    BY <1>4, <2>1
  <2>3. th' = [th EXCEPT !.let = let2]
    BY <1>2, <1>3 DEF ThHistory
  <2> HIDE DEF let2
  <2>4. th' \in ThHistory /\ th'.let = let2
        /\ th'.wrong = th.wrong /\ th'.excused = th.excused /\ th'.per = th.per
    BY <1>3, <2>2, <2>3 DEF ThHistory
  <2> QED
    BY <2>2, <2>4
<1>9. PICK x \in ThRequest :
         /\ x.pc # "write"
         /\ x.pc # "idle" => /\ Len(x.todo) >= 1
                             /\ \A i \in DOMAIN x.todo : KeyOf(x.todo[i], x.who, x.tenant) \in Keys
         /\ thReq' = [thReq EXCEPT ![r] = x]
  BY <1>2, NextRequest
<1>10. thReq'[r] = x /\ \A q \in ThRequests \ {r} : thReq'[q] = thReq[q]
  BY <1>3, <1>9
<1>11. ThTyped'
  BY <1>2, <1>3, <1>7, <1>8, <1>9 DEF ThInv, ThTyped
<1>12. Queued'
  BY <1>9, <1>10 DEF ThInv, Queued
<1>13. WindowIsExact'
  BY <1>8 DEF ThInv, WindowIsExact
<1>14. \A q \in ThRequests : thReq'[q].pc = "write" =>
          q # r /\ thReq'[q] = thReq[q] /\ MyKey(q)' = MyKey(q)
  BY <1>9, <1>10 DEF MyKey
<1>15. ASSUME NEW j \in Keys, j \notin th.excused, j # k
       PROVE  EntrySound(j)' /\ HeldSound(j)'
  <2>1. j \in Keys \ th.excused
    BY <1>15
  <2>2. \A q \in ThRequests : thReq'[q].pc = "write" /\ MyKey(q)' = j =>
           thReq'[q] = thReq[q] /\ MyKey(q) = j
    BY <1>14
  <2>3. /\ tick' = tick /\ entry'[j] = entry[j]
        /\ th'.let[j] = th.let[j] /\ th'.per[j] = th.per[j]
    BY <1>2, <1>7, <1>8, <1>15
  <2> QED
    BY <2>1, <2>2, <2>3, OtherKey
<1>16. ASSUME k \notin th.excused
       PROVE  EntrySound(k)' /\ HeldSound(k)'
  <2>1. /\ y.now <= tick /\ y.per = th.per[k]
        /\ Ordered(lets, y.now)
        /\ Covers(lets, y.times, y.now - y.per)
        /\ Holding(k, r) = {}
    BY <1>1, <1>2, <1>16 DEF ThInv, EntriesSound, HeldSound
  <2>2. lets2 = Append(lets, y.now)
    BY <1>16 DEF lets2
  <2>3. /\ lets2 \in Seq(Int) /\ Ordered(lets2, y.now) /\ Covers(lets2, times2, y.now - y.per)
    <3>1. y.now - y.per \in Int
      BY <1>3
    <3> HIDE DEF y, lets
    <3> QED
      BY <1>3, <2>1, <2>2, <3>1, CountedCovers DEF times2
  <2>4. Ordered(lets2, tick) /\ Covers(lets2, times2, tick - th.per[k])
    <3>1. /\ y.now - y.per \in Int /\ tick - th.per[k] \in Int
          /\ y.now - y.per <= tick - th.per[k]
      BY <1>3, <2>1
    <3> HIDE DEF y
    <3> QED
      BY <1>3, <1>5, <2>1, <2>3, <3>1, OrderedLater, CoversLater
  <2>5. \A i \in DOMAIN lets2 : lets2[i] + th.per[k] <= e.until
    <3> SUFFICES ASSUME NEW i \in DOMAIN lets2 PROVE lets2[i] + th.per[k] <= e.until
      OBVIOUS
    <3>1. lets2[i] <= tick /\ lets2[i] \in Int
      BY <2>3, <2>4, TimesList DEF Ordered
    <3> HIDE DEF y
    <3> QED
      BY <1>3, <1>6, <2>1, <3>1
  <2>6. th.per[k] # 0
    BY <1>3, <2>1
  <2>7. EntrySound(k)'
    BY <1>2, <1>6, <1>7, <1>8, <2>4, <2>5, <2>6 DEF EntrySound
  <2>8. ASSUME NEW q \in ThRequests, thReq'[q].pc = "write", MyKey(q)' = k
        PROVE  FALSE
    <3>1. q # r /\ thReq[q].pc = "write" /\ MyKey(q) = k
      BY <1>14, <2>8
    <3> QED
      BY <2>1, <3>1 DEF Holding
  <2>9. HeldSound(k)'
    BY <2>8 DEF HeldSound
  <2> QED
    BY <2>7, <2>9
<1>17. EntriesSound'
  <2>1. \A j \in Keys : j \notin th.excused => EntrySound(j)' /\ HeldSound(j)'
    BY <1>15, <1>16
  <2> QED
    BY <1>8, <2>1 DEF EntriesSound
<1> QED
  BY <1>11, <1>12, <1>13, <1>17 DEF ThInv

\* Time goes by: what was too old stays too old.
LEMMA TickKeeps ==
    ASSUME ThInv, Tick
    PROVE  ThInv'
<1>1. tick' = tick + 1 /\ tick \in Int /\ tick' \in Int /\ UNCHANGED <<entry, load, thReq, th>>
  BY DEF Tick, ThInv, ThTyped
<1>2. ThTyped' /\ Queued' /\ WindowIsExact'
  BY <1>1 DEF ThInv, ThTyped, Queued, WindowIsExact
<1>3. \A q \in ThRequests : MyKey(q)' = MyKey(q)
  BY <1>1 DEF MyKey
<1>4. ASSUME NEW k \in Keys, k \notin th.excused
      PROVE  EntrySound(k)' /\ HeldSound(k)'
  <2>1. EntrySound(k) /\ HeldSound(k)
    BY <1>4 DEF ThInv, EntriesSound
  <2>2. /\ th.let[k] \in Seq(Int) /\ entry[k].times \in Seq(Int) /\ th.per[k] \in Nat
    BY DEF ThInv, ThTyped, ThHistory, EntryType
  <2>3. Ordered(th.let[k], tick')
    BY <1>1, <2>1, <2>2, OrderedLater DEF EntrySound
  <2>4. Covers(th.let[k], entry[k].times, tick' - th.per[k])
    <3>1. /\ tick - th.per[k] \in Int /\ tick' - th.per[k] \in Int
          /\ tick - th.per[k] <= tick' - th.per[k]
      BY <1>1, <2>2
    <3>2. Covers(th.let[k], entry[k].times, tick - th.per[k])
      BY <2>1 DEF EntrySound
    <3> QED
      BY <2>2, <3>1, <3>2, CoversLater
  <2>5. EntrySound(k)'
    BY <1>1, <2>1, <2>3, <2>4 DEF EntrySound
  <2>6. \A q \in ThRequests : thReq[q].now \in Int
    BY DEF ThInv, ThTyped, ThRequest
  <2>7. \A q \in ThRequests : Holding(k, q)' = Holding(k, q)
    BY <1>1, <1>3 DEF Holding
  <2>8. \A q \in ThRequests : thReq[q].now <= tick => thReq[q].now <= tick'
    BY <1>1, <2>6
  <2>9. HeldSound(k)'
    BY <1>1, <1>3, <2>1, <2>7, <2>8 DEF HeldSound
  <2> QED
    BY <2>5, <2>9
<1>5. EntriesSound'
  <2>1. \A k \in Keys : k \notin th.excused => EntrySound(k)' /\ HeldSound(k)'
    BY <1>4
  <2> QED
    BY <1>1, <2>1 DEF EntriesSound
<1> QED
  BY <1>2, <1>5 DEF ThInv

\* A request arrives or is killed.
LEMMA ArriveKeeps ==
    ASSUME ThInv, NEW r \in ThRequests, ThCrash(r) \/ \E q \in load : ThArrive(r, q)
    PROVE  ThInv'
<1>1. ThIdle \in ThRequest /\ ThIdle.pc = "idle"
  BY EmptySeq DEF ThIdle, ThRequest
<1>2. CASE ThCrash(r)
  BY <1>1, <1>2, ReleaseKeeps DEF ThCrash
<1>3. ASSUME NEW q \in load, ThArrive(r, q)
      PROVE  ThInv'
  <2> DEFINE todo == Checks(q.view, q.who)
             x == [ThIdle EXCEPT !.pc = "ask", !.todo = todo, !.who = q.who, !.tenant = q.tenant]
  <2>1. load \in Loads
    BY DEF ThInv, ThTyped
  <2>2. /\ todo \in Seq(Scopes) /\ todo # <<>>
        /\ \A i \in DOMAIN todo : KeyOf(todo[i], q.who, q.tenant) \in Keys
    BY <1>3, <2>1, ChecksHaveKeys DEF ThArrive
  <2>3. q.who \in Members \cup Guests /\ q.tenant \in ThTenants \cup {"no_tenant"}
    BY <2>1, ThrottlingAssumption
  <2>4. thReq' = [thReq EXCEPT ![r] = x] /\ UNCHANGED <<tick, entry, load, th>>
    BY <1>3 DEF ThArrive
  <2>5. Len(todo) >= 1
    BY <2>2, EmptySeq
  <2> HIDE DEF todo
  <2>6. /\ x \in ThRequest
        /\ x.pc = "ask" /\ x.todo = todo /\ x.who = q.who /\ x.tenant = q.tenant
    BY <1>1, <2>2, <2>3 DEF ThRequest
  <2> HIDE DEF x
  <2> QED
    BY <2>2, <2>4, <2>5, <2>6, ReleaseKeeps
<1> QED
  BY <1>2, <1>3

\* ThInv is inductive.
LEMMA ThInvStep == ThInv /\ [ThrottlingNext]_thVars => ThInv'
<1> SUFFICES ASSUME ThInv, [ThrottlingNext]_thVars PROVE ThInv'
  OBVIOUS
<1>1. CASE UNCHANGED <<tick, entry, load, thReq, th>>
  BY <1>1 DEF ThInv, ThTyped, Queued, EntriesSound, EntrySound, HeldSound, Holding, MyKey,
              Ordered, Covers, WindowIsExact
<1>2. ASSUME NEW t \in ThTenants, NEW s \in Plans, ChangeTenantPlan(t, s)
      PROVE  ThInv'
  BY <1>1, <1>2 DEF ChangeTenantPlan
<1>3. CASE ThrottlingNext
  BY <1>2, <1>3, ArriveKeeps, AskKeeps, CountKeeps, TickKeeps DEF ThrottlingNext
<1>4. CASE UNCHANGED thVars
  BY <1>1, <1>4 DEF thVars
<1> QED
  BY <1>3, <1>4

\* So it holds throughout.
LEMMA ThInvHolds == ThrottlingSpec => []ThInv
<1>1. ThInit => ThInv
  <2> SUFFICES ASSUME ThInit PROVE ThInv
    OBVIOUS
  <2>1. /\ <<>> \in Seq(Int) /\ <<>> \in Seq(Scopes) /\ Len(<<>>) = 0 /\ DOMAIN <<>> = {}
        /\ 1..(0 - 0) = {} /\ 0 <= 0
    BY EmptySeq
  <2>2. NoEntry \in EntryType /\ NoEntry.times = <<>>
    BY <2>1 DEF NoEntry, EntryType
  <2>3. ThIdle \in ThRequest /\ ThIdle.pc = "idle"
    BY <2>1 DEF ThIdle, ThRequest
  <2>4. /\ th \in ThHistory
        /\ th.wrong = {} /\ \A k \in Keys : th.let[k] = <<>>
    BY <2>1 DEF ThInit, ThHistory
  <2>5. ThTyped
    BY <2>2, <2>3, <2>4 DEF ThInit, ThTyped
  <2>6. Queued /\ WindowIsExact
    BY <2>3, <2>4 DEF ThInit, Queued, WindowIsExact
  <2>7. EntriesSound
    <3>1. \A k \in Keys : entry[k].times = <<>>
      BY <2>2 DEF ThInit
    <3>2. \A r \in ThRequests : thReq[r].pc = "idle"
      BY <2>3 DEF ThInit
    <3> QED
      BY <2>1, <2>4, <3>1, <3>2 DEF EntriesSound, EntrySound, HeldSound, Ordered, Covers
  <2> QED
    BY <2>5, <2>6, <2>7 DEF ThInv
<1> QED
  BY <1>1, ThInvStep, PTL DEF ThrottlingSpec

\* The list that a throttle keeps in the cache, read and written in two steps and
\* dropped when its time is up, answers as the window does: however many requests
\* there are and whatever becomes of the plan's rate, unless two of one key cross or
\* the duration grows.
THEOREM ThrottleIsExact == ThrottlingSpec => []WindowIsExact
<1>1. ThInv => WindowIsExact
  BY DEF ThInv
<1> QED
  BY <1>1, ThInvHolds, PTL

-----------------------------------------------------------------------------
\* Times and the clock stay within the bound, and a request that has ended asks nothing.
Bounded(x) ==
    /\ x.now \in 0..MaxTick /\ x.times \in Seq(0..MaxTick)
    /\ x.pc = "idle" => x.todo = <<>>

ThBounded ==
    /\ tick \in 0..MaxTick /\ plan \in [ThTenants -> Plans]
    /\ \A k \in Keys : entry[k].times \in Seq(0..MaxTick) /\ entry[k].until \in Nat
    /\ \A r \in ThRequests : Bounded(thReq[r])

\* A request that has ended, or is about to ask, holds no times.
LEMMA RestBounded ==
    ASSUME NEW todo, NEW who, NEW tenant
    PROVE  /\ Bounded(ThIdle)
           /\ Bounded([ThIdle EXCEPT !.pc = "ask", !.todo = todo, !.who = who, !.tenant = tenant])
<1>1. 0 \in 0..MaxTick /\ <<>> \in Seq(0..MaxTick)
  BY ThrottlingAssumption, EmptySeq
<1> QED
  BY <1>1 DEF Bounded, ThIdle

\* So does one that goes on to its next throttle.
LEMMA NextBounded ==
    ASSUME ThInv, NEW r \in ThRequests, NextCheck(r), \A q \in ThRequests : Bounded(thReq[q])
    PROVE  \A q \in ThRequests : Bounded(thReq'[q])
<1> DEFINE x == thReq'[r]
<1>1. \A q \in ThRequests : q # r => thReq'[q] = thReq[q]
  BY DEF ThInv, ThTyped, NextCheck
<1>2. \/ x = ThIdle
      \/ x = [ThIdle EXCEPT !.pc = "ask", !.todo = Tail(thReq[r].todo), !.who = thReq[r].who,
                            !.tenant = thReq[r].tenant]
  BY DEF ThInv, ThTyped, NextCheck
<1> DEFINE next == [ThIdle EXCEPT !.pc = "ask", !.todo = Tail(thReq[r].todo), !.who = thReq[r].who,
                                  !.tenant = thReq[r].tenant]
<1>3. Bounded(ThIdle) /\ Bounded(next)
  BY RestBounded
<1> HIDE DEF x
<1>4. Bounded(x)
  BY <1>2, <1>3
<1> QED
  BY <1>1, <1>4 DEF x

\* What is left of a list of times is a list of them.
LEMMA PrunedBounded ==
    ASSUME NEW times \in Seq(0..MaxTick), NEW per
    PROVE  Within(times, per) \in Seq(0..MaxTick)
<1> DEFINE m == Len(times)
           fresh == {i \in DOMAIN times : times[i] > tick - per}
           n == Cardinality(fresh)
<1>1. m \in Nat /\ DOMAIN times = 1..m /\ \A i \in 1..m : times[i] \in 0..MaxTick
  BY LenProperties, ElementOfSeq
<1>2. fresh \in SUBSET (1..m)
  BY <1>1
<1>3. Within(times, per) = SubSeq(times, 1, n)
  BY DEF Within
<1> HIDE DEF m, fresh
<1>4. IsFiniteSet(fresh) /\ n <= m
  <2>1. IsFiniteSet(1..m) /\ Cardinality(1..m) = m
    BY <1>1, FirstNumbers
  <2>2. IsFiniteSet(fresh) /\ Cardinality(fresh) <= Cardinality(1..m)
    BY <1>2, <2>1, FS_Subset
  <2> QED
    BY <2>1, <2>2
<1>5. n \in Nat
  BY <1>4, FS_CardinalityType
<1> HIDE DEF n
<1>6. \A i \in 1..n : times[i] \in 0..MaxTick
  BY <1>1, <1>4, <1>5
<1> QED
  BY <1>3, <1>5, <1>6, SubSeqProperties

\* What a request reads is within the bound, and so is the moment.
LEMMA AskBounded ==
    ASSUME ThInv, ThBounded, NEW r \in ThRequests, Ask(r)
    PROVE  \A q \in ThRequests : Bounded(thReq'[q])
<1> DEFINE k == MyKey(r)
           rate == RateOf(Head(thReq[r].todo), thReq[r].tenant)
           times == Within(Current(k), rate.per)
<1>1. k \in Keys
  BY RequestKey DEF Ask
<1>2. Current(k) \in Seq(0..MaxTick)
  BY <1>1, EmptySeq DEF Current, ThBounded
<1>3. times \in Seq(0..MaxTick)
  BY <1>2, PrunedBounded
<1>4. \/ NextCheck(r)
      \/ thReq' = [thReq EXCEPT ![r].pc = "write", ![r].now = tick, ![r].per = rate.per,
                                ![r].times = times]
  BY DEF Ask
<1> HIDE DEF times, rate, k
<1>5. CASE NextCheck(r)
  BY <1>5, NextBounded DEF ThBounded
<1>6. CASE thReq' = [thReq EXCEPT ![r].pc = "write", ![r].now = tick, ![r].per = rate.per,
                                  ![r].times = times]
  <2>1. thReq \in [ThRequests -> ThRequest]
    BY DEF ThInv, ThTyped
  <2> DEFINE old == thReq[r]
             new == [old EXCEPT !.pc = "write", !.now = tick, !.per = rate.per, !.times = times]
  <2>2. thReq' = [thReq EXCEPT ![r] = new]
    BY <1>6
  <2>3. old \in ThRequest
    BY <2>1
  <2> HIDE DEF old
  <2>4. new.pc = "write" /\ new.now = tick /\ new.times = times
    BY <2>3 DEF ThRequest
  <2> HIDE DEF new
  <2>5. Bounded(new)
    BY <1>3, <2>4 DEF Bounded, ThBounded
  <2>6. \A q \in ThRequests : thReq'[q] = IF q = r THEN new ELSE thReq[q]
    BY <2>1, <2>2
  <2> QED
    BY <2>5, <2>6 DEF ThBounded
<1> QED
  BY <1>4, <1>5, <1>6

\* What it writes back is, too.
LEMMA CountBounded ==
    ASSUME ThInv, ThBounded, NEW r \in ThRequests, Count(r), NEW k \in Keys
    PROVE  entry'[k].times \in Seq(0..MaxTick) /\ entry'[k].until \in Nat
<1> DEFINE x == thReq[r]
           new == [times |-> <<x.now>> \o x.times, until |-> tick + x.per]
<1>1. x.now \in 0..MaxTick /\ x.times \in Seq(0..MaxTick) /\ tick \in Nat /\ x.per \in Nat
  <2>1. thReq[r] \in ThRequest /\ Bounded(thReq[r]) /\ tick \in 0..MaxTick
    BY DEF ThInv, ThTyped, ThBounded
  <2>2. tick \in Nat
    BY <2>1, ThrottlingAssumption
  <2> QED
    BY <2>1, <2>2 DEF Bounded, ThRequest
<1>2. entry' = [entry EXCEPT ![MyKey(r)] = new]
  BY DEF Count
<1> HIDE DEF x
<1>3. <<x.now>> \in Seq(0..MaxTick)
  BY <1>1
<1>4. <<x.now>> \o x.times \in Seq(0..MaxTick)
  BY <1>1, <1>3, ConcatProperties
<1>5. new.times \in Seq(0..MaxTick) /\ new.until \in Nat
  BY <1>1, <1>4
<1> HIDE DEF new
<1>6. entry'[k] = new \/ entry'[k] = entry[k]
  BY <1>2 DEF ThInv, ThTyped
<1> QED
  BY <1>5, <1>6 DEF ThBounded

\* Every step keeps to the bounds.
LEMMA ThBoundedStep == ThInv /\ ThBounded /\ [ThrottlingNext]_thVars => ThBounded'
<1> SUFFICES ASSUME ThInv, ThBounded, [ThrottlingNext]_thVars PROVE ThBounded'
  OBVIOUS
<1>1. ASSUME UNCHANGED <<tick, entry, plan>>, \A q \in ThRequests : Bounded(thReq'[q])
      PROVE  ThBounded'
  BY <1>1 DEF ThBounded, Bounded
<1>2. thReq \in [ThRequests -> ThRequest]
  BY DEF ThInv, ThTyped
<1>3. ASSUME NEW r \in ThRequests, NEW q \in load, ThArrive(r, q)  PROVE ThBounded'
  <2>1. \A p \in ThRequests :
           thReq'[p] = IF p = r THEN [ThIdle EXCEPT !.pc = "ask", !.todo = Checks(q.view, q.who),
                                                    !.who = q.who, !.tenant = q.tenant]
                       ELSE thReq[p]
    BY <1>2, <1>3 DEF ThArrive
  <2> DEFINE x == [ThIdle EXCEPT !.pc = "ask", !.todo = Checks(q.view, q.who),
                                 !.who = q.who, !.tenant = q.tenant]
  <2>2. Bounded(x)
    BY RestBounded
  <2> HIDE DEF x
  <2>3. \A p \in ThRequests : Bounded(thReq'[p])
    BY <2>1, <2>2 DEF ThBounded, x
  <2> QED
    BY <1>1, <1>3, <2>3 DEF ThArrive
<1>4. ASSUME NEW r \in ThRequests, Ask(r)  PROVE ThBounded'
  <2>1. \A q \in ThRequests : Bounded(thReq'[q])
    BY <1>4, AskBounded
  <2> QED
    BY <1>1, <1>4, <2>1 DEF Ask
<1>5. ASSUME NEW r \in ThRequests, Count(r)  PROVE ThBounded'
  <2>1. \A q \in ThRequests : Bounded(thReq'[q])
    BY <1>5, NextBounded DEF Count, ThBounded
  <2>2. \A k \in Keys : entry'[k].times \in Seq(0..MaxTick) /\ entry'[k].until \in Nat
    BY <1>5, CountBounded
  <2> QED
    BY <1>5, <2>1, <2>2 DEF Count, ThBounded, Bounded
<1>6. ASSUME NEW r \in ThRequests, ThCrash(r)  PROVE ThBounded'
  <2>1. \A q \in ThRequests : Bounded(thReq'[q])
    BY <1>2, <1>6, RestBounded DEF ThCrash, ThBounded
  <2> QED
    BY <1>1, <1>6, <2>1 DEF ThCrash
<1>7. ASSUME NEW t \in ThTenants, NEW s \in Plans, ChangeTenantPlan(t, s)  PROVE ThBounded'
  BY <1>7 DEF ChangeTenantPlan, ThBounded, Bounded
<1>8. CASE Tick
  <2>1. tick' \in 0..MaxTick
    BY <1>8, ThrottlingAssumption DEF Tick, ThBounded
  <2> QED
    BY <1>8, <2>1 DEF Tick, ThBounded, Bounded
<1>9. CASE UNCHANGED thVars
  BY <1>1, <1>9 DEF thVars, ThBounded
<1> QED
  BY <1>3, <1>4, <1>5, <1>6, <1>7, <1>8, <1>9 DEF ThrottlingNext

\* The variables of Throttling keep their types: the cache holds lists of past times,
\* and a request under way has throttles left to ask.
THEOREM ThrottlingIsTyped == ThrottlingSpec => []ThrottlingTypeOK
<1>1. ThInit => ThBounded
  <2> SUFFICES ASSUME ThInit PROVE ThBounded
    OBVIOUS
  <2>1. 0 \in 0..MaxTick /\ 0 \in Nat /\ <<>> \in Seq(0..MaxTick)
    BY ThrottlingAssumption, EmptySeq
  <2>2. (CHOOSE s \in Plans : TRUE) \in Plans
    BY ThrottlingAssumption
  <2>3. NoEntry.times = <<>> /\ NoEntry.until = 0
    BY DEF NoEntry
  <2>4. \A k \in Keys : entry[k] = NoEntry
    BY DEF ThInit
  <2>5. plan \in [ThTenants -> Plans]
    BY <2>2 DEF ThInit
  <2> QED
    BY <2>1, <2>3, <2>4, <2>5, RestBounded DEF ThInit, ThBounded
<1>2. ThInv /\ ThBounded => ThrottlingTypeOK
  <2> SUFFICES ASSUME ThInv, ThBounded PROVE ThrottlingTypeOK
    OBVIOUS
  <2>1. ASSUME NEW r \in ThRequests
        PROVE  /\ thReq[r].pc \in {"idle", "ask", "write"} /\ thReq[r].todo \in Seq(Scopes)
               /\ thReq[r].todo = <<>> <=> thReq[r].pc = "idle"
    <3>1. thReq[r].pc \in {"idle", "ask", "write"} /\ thReq[r].todo \in Seq(Scopes)
      BY DEF ThInv, ThTyped, ThRequest
    <3>2. thReq[r].pc = "idle" => thReq[r].todo = <<>>
      BY DEF ThBounded, Bounded
    <3>3. thReq[r].pc # "idle" => Len(thReq[r].todo) >= 1
      BY DEF ThInv, Queued
    <3>4. Len(<<>>) = 0 /\ ~(0 >= 1)
      BY EmptySeq
    <3> QED
      BY <3>1, <3>2, <3>3, <3>4
  <2>2. th.excused \cup th.wrong \subseteq Keys /\ load \in Loads
    BY DEF ThInv, ThTyped, ThHistory
  <2> QED
    BY <2>1, <2>2 DEF ThBounded, Bounded, ThrottlingTypeOK
<1> QED
  BY <1>1, <1>2, ThBoundedStep, ThInvHolds, PTL DEF ThrottlingSpec

-----------------------------------------------------------------------------
(* The components at work together *)

\* A step of the site is a step of each component, or leaves its variables alone.
LEMMA SiteSteps ==
    ASSUME [SiteNext]_siteVars
    PROVE  /\ [TwoFactorNext]_tfVars /\ [RegistrationNext]_rgVars /\ [PasswordResetNext]_prVars
           /\ [NotificationsNext]_nfVars /\ [FeatureFlagsNext]_ffVars /\ [ProfileNext]_pfVars
           /\ [ThrottlingNext]_thVars
<1>1. CASE UNCHANGED siteVars
  BY <1>1 DEF siteVars
<1>2. CASE TwoFactorActs
  BY <1>2 DEF TwoFactorActs
<1>3. CASE RegistrationActs
  BY <1>3 DEF RegistrationActs
<1>4. CASE PasswordResetActs
  BY <1>4 DEF PasswordResetActs
<1>5. CASE NotificationsActs
  BY <1>5 DEF NotificationsActs
<1>6. CASE FeatureFlagsActs
  BY <1>6 DEF FeatureFlagsActs
<1>7. CASE ProfileActs
  BY <1>7 DEF ProfileActs
<1>8. CASE ThrottlingActs
  BY <1>8 DEF ThrottlingActs
<1> QED
  BY <1>1, <1>2, <1>3, <1>4, <1>5, <1>6, <1>7, <1>8 DEF SiteNext

\* What the others do never makes a component leave its own specification: they share
\* no variable, and what one sees of another's rows is an action of its own.
LEMMA EachComponent ==
    SiteSpec => /\ TwoFactorSpec /\ RegistrationSpec /\ PasswordResetSpec /\ NotificationsSpec
                /\ FeatureFlagsSpec /\ ProfileSpec /\ ThrottlingSpec
<1>1. SiteInit => /\ TFInit /\ RgInit /\ PrInit /\ NfInit /\ FfInit /\ PfInit /\ ThInit
  BY DEF SiteInit
<1>2. [SiteNext]_siteVars =>
        /\ [TwoFactorNext]_tfVars /\ [RegistrationNext]_rgVars /\ [PasswordResetNext]_prVars
        /\ [NotificationsNext]_nfVars /\ [FeatureFlagsNext]_ffVars /\ [ProfileNext]_pfVars
        /\ [ThrottlingNext]_thVars
  BY SiteSteps
<1> QED
  BY <1>1, <1>2, PTL DEF SiteSpec, TwoFactorSpec, RegistrationSpec, PasswordResetSpec,
     NotificationsSpec, FeatureFlagsSpec, ProfileSpec, ThrottlingSpec

\* The variables of the whole site keep their types while all components act.
THEOREM SiteIsTyped == SiteSpec => []SiteTypeOK
<1>1. /\ TwoFactorTypeOK /\ RegistrationTypeOK /\ PasswordResetTypeOK /\ NotificationsTypeOK
      /\ FeatureFlagsTypeOK /\ ProfileTypeOK /\ ThrottlingTypeOK
      => SiteTypeOK
  BY DEF SiteTypeOK
<1> QED
  BY <1>1, EachComponent, TwoFactorIsTyped, AccountsAreTyped, ResetIsTyped, NotificationsAreTyped,
     FlagsAreTyped, ProfileIsTyped, ThrottlingIsTyped, PTL

\* What is promised of second factors, accounts, reset links, notifications, flags,
\* profiles and throttles holds while all of them are used and users are erased.
THEOREM SiteKeepsPromises ==
    SiteSpec => /\ [](CodesOnce /\ SecretVerified /\ NotOnPasswordAlone /\ KeysOnce) /\ FactorKept
                /\ [](OneAccountPerAddress /\ TokenOnce /\ ErasedStaysErased)
                /\ [](NoGap /\ ListMissesNothing /\ AnswersWereTrue /\ SyncedAgrees)
                /\ [](FieldsKept /\ AvatarHasFile /\ WindowIsExact)
BY EachComponent, BackupCodesAreSingleUse, SecretIsVerified, PasswordIsNotEnough,
   SessionKeysAreSingleUse, FactorIsKept, AccountsAreApart, TokenIsSingleUse, ErasureIsFinal,
   NothingIsMissed, WalkIsComplete, AnswersAreTrue, SyncAgrees, FieldsAreKept, AvatarIsStored,
   ThrottleIsExact, PTL
=============================================================================
