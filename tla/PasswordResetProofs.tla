------------------------- MODULE PasswordResetProofs -------------------------
(***************************************************************************)
(* Proofs about PasswordReset, for any users, requests, commands and bounds. *)
(***************************************************************************)
EXTENDS PasswordReset, TLAPS

Saving(r) == prReq[r].pc = "save"

\* Every token that has changed a password is out of date: the hash only grows,
\* and a row that is deleted never comes back.
UsedStale == \A t \in pr.used : row[t.user].there => t.hash < row[t.user].hash

\* A confirmation's copy has the hash of its token, and the row's is no smaller.
HeldFresh ==
    \A r \in PrRequests : Saving(r) =>
        /\ prReq[r].copy.hash = prReq[r].token.hash
        /\ row[prReq[r].token.user].there => prReq[r].token.hash <= row[prReq[r].token.user].hash

ResetInv == PasswordResetTypeOK /\ UsedStale /\ HeldFresh /\ TokenOnce /\ ErasedStaysErased

\* At the start no token was used.
LEMMA PrInitEstablishes == PrInit => ResetInv
<1> SUFFICES ASSUME PrInit PROVE ResetInv
  OBVIOUS
<1>2. \A a \in PrAddresses : Present(a) \in UserRow
  BY PasswordResetAssumption DEF Present, UserRow
<1>3. {Present(a) : a \in PrAddresses} \subseteq UserRow
  BY <1>2
<1>4. row \in [PrUsers -> UserRow]
  BY <1>3 DEF PrInit
<1>5. PasswordResetTypeOK
  <2>1. prReq \in [PrRequests -> {PrIdle} \cup [pc : {"save"}, token : Tokens, copy : UserRow]]
    BY DEF PrInit
  <2>2. cmd \in [Commands -> {PrIdle} \cup
            [pc : {"confirm"}, user : PrUsers, mode : {"anonymize", "hard_delete"}]]
    BY DEF PrInit
  <2>3. pr \in [used : SUBSET Tokens, twice : SUBSET Tokens, crossed : BOOLEAN, erased : SUBSET PrUsers]
    BY DEF PrInit
  <2> QED BY <1>4, <2>1, <2>2, <2>3 DEF PrInit, PasswordResetTypeOK
<1>6. UsedStale /\ HeldFresh /\ TokenOnce /\ ErasedStaysErased
  BY DEF PrInit, UsedStale, HeldFresh, Saving, TokenOnce, ErasedStaysErased, PrIdle
<1> QED BY <1>5, <1>6 DEF ResetInv

\* The actions that change neither a row nor the history.
LEMMA QuietStep ==
    ASSUME ResetInv,
           \/ \E a \in PrAddresses : RequestReset(a)
           \/ \E t \in outbox : SendResetMail(t) \/ ResetMailFails(t)
           \/ \E t \in links : LinkExpires(t)
           \/ \E r \in PrRequests : ConfirmFails(r)
           \/ \E c \in Commands :
                 \/ \E u \in PrUsers, mode \in {"anonymize", "hard_delete"} : CommandRead(c, u, mode)
                 \/ CommandAborts(c)
           \/ UNCHANGED prVars
    PROVE  ResetInv'
<1>1. row' = row /\ pr' = pr
  BY DEF RequestReset, SendResetMail, ResetMailFails, LinkExpires, ConfirmFails, CommandRead,
         CommandAborts, prVars
<1>2. UsedStale' /\ TokenOnce' /\ ErasedStaysErased'
  BY <1>1 DEF ResetInv, UsedStale, TokenOnce, ErasedStaysErased
<1>3. \A r \in PrRequests : prReq'[r] = prReq[r] \/ prReq'[r] = PrIdle
  BY DEF RequestReset, SendResetMail, ResetMailFails, LinkExpires, ConfirmFails, CommandRead,
         CommandAborts, prVars, PrDone, ResetInv, PasswordResetTypeOK
<1>4. HeldFresh'
  BY <1>1, <1>3 DEF ResetInv, HeldFresh, Saving, PrIdle
<1>5. \A u \in PrUsers : TokenOf(u) \in Tokens
  BY DEF ResetInv, PasswordResetTypeOK, TokenOf, Tokens, UserRow
<1>6. outbox' \subseteq Tokens /\ links' \subseteq Tokens
  BY <1>5 DEF RequestReset, EnqueueResetMail, SendResetMail, ResetMailFails, LinkExpires, ConfirmFails,
         CommandRead, CommandAborts, prVars, ResetInv, PasswordResetTypeOK
<1>7. /\ prReq' \in [PrRequests -> {PrIdle} \cup [pc : {"save"}, token : Tokens, copy : UserRow]]
      /\ cmd' \in [Commands -> {PrIdle} \cup
            [pc : {"confirm"}, user : PrUsers, mode : {"anonymize", "hard_delete"}]]
  BY DEF RequestReset, SendResetMail, ResetMailFails, LinkExpires, ConfirmFails, CommandRead,
         CommandAborts, prVars, PrDone, ResetInv, PasswordResetTypeOK
<1>8. PasswordResetTypeOK'
  BY <1>1, <1>6, <1>7 DEF ResetInv, PasswordResetTypeOK
<1> QED BY <1>2, <1>4, <1>8 DEF ResetInv

\* A confirmation goes on with a copy that has the hash of its token.
LEMMA PrReadStep ==
    ASSUME ResetInv, NEW r \in PrRequests, NEW t \in links, ConfirmRead(r, t)
    PROVE  ResetInv'
<1>1. row' = row /\ pr' = pr /\ UNCHANGED <<outbox, links, cmd>>
  BY DEF ConfirmRead
<1>2. UsedStale' /\ TokenOnce' /\ ErasedStaysErased'
  BY <1>1 DEF ResetInv, UsedStale, TokenOnce, ErasedStaysErased
<1>3. t \in Tokens /\ t.user \in PrUsers /\ row[t.user] \in UserRow
  BY DEF ResetInv, PasswordResetTypeOK, Tokens
<1>4. [pc |-> "save", token |-> t, copy |-> row[t.user]] \in [pc : {"save"}, token : Tokens, copy : UserRow]
  BY <1>3
<1>5. prReq' = [prReq EXCEPT ![r] = [pc |-> "save", token |-> t, copy |-> row[t.user]]]
  BY DEF ConfirmRead
<1>6. PasswordResetTypeOK'
  BY <1>1, <1>4, <1>5 DEF ResetInv, PasswordResetTypeOK
<1>7. t.hash = row[t.user].hash /\ t.hash \in Nat
  BY <1>3 DEF ConfirmRead, TokenOf, Tokens
<1>8. HeldFresh'
  BY <1>1, <1>5, <1>7 DEF ResetInv, HeldFresh, Saving, PasswordResetTypeOK
<1> QED BY <1>2, <1>6, <1>8 DEF ResetInv

\* A save raises the hash of the row, so that its token is out of date; one whose
\* token had been used finds a hash that it has not read.
LEMMA SaveStep ==
    ASSUME ResetInv, NEW r \in PrRequests, ConfirmSave(r)
    PROVE  ResetInv'
<1> DEFINE t == prReq[r].token
           u == t.user
<1>1. /\ prReq[r] \in [pc : {"save"}, token : Tokens, copy : UserRow]
      /\ prReq' = [prReq EXCEPT ![r] = PrIdle]
      /\ UNCHANGED <<outbox, links, cmd>>
  BY DEF ConfirmSave, PrDone, ResetInv, PasswordResetTypeOK, PrIdle
<1>2. /\ t \in Tokens /\ u \in PrUsers /\ t.hash \in Nat
      /\ row \in [PrUsers -> UserRow]
      /\ \A v \in PrUsers : row[v].hash \in 0..MaxHash
  BY <1>1 DEF Tokens, ResetInv, PasswordResetTypeOK, UserRow
<1>3. prReq' \in [PrRequests -> {PrIdle} \cup [pc : {"save"}, token : Tokens, copy : UserRow]]
  BY <1>1 DEF ResetInv, PasswordResetTypeOK
<1>4. CASE ~row[u].there
  <2>1. row' = row /\ pr' = pr
    BY <1>4 DEF ConfirmSave
  <2>2. HeldFresh'
    BY <1>1, <2>1 DEF ResetInv, HeldFresh, Saving, PrIdle, PasswordResetTypeOK
  <2> QED BY <1>1, <1>3, <2>1, <2>2 DEF ResetInv, PasswordResetTypeOK, UsedStale, TokenOnce, ErasedStaysErased
<1>5. CASE row[u].there
  <2>1. /\ row[u].hash < MaxHash
        /\ row' = [row EXCEPT ![u].hash = @ + 1, ![u].usable = TRUE]
        /\ Confirmed(r)
    BY <1>5 DEF ConfirmSave
  <2>2. /\ row'[u] = [row[u] EXCEPT !.hash = @ + 1, !.usable = TRUE]
        /\ \A v \in PrUsers : v # u => row'[v] = row[v]
    BY <1>2, <2>1
  <2>3. /\ row'[u].hash = row[u].hash + 1
        /\ row'[u].there = row[u].there /\ row'[u].email = row[u].email
        /\ row'[u].active = row[u].active
    BY <1>2, <2>2 DEF UserRow
  <2>4. row'[u] \in UserRow
    <3>1. row[u] \in UserRow
      BY <1>2
    <3>2. row[u].hash \in 0..MaxHash /\ MaxHash \in Nat
      BY <3>1, PasswordResetAssumption DEF UserRow
    <3>3. row[u].hash + 1 \in 0..MaxHash
      BY <2>1, <3>2
    <3> QED BY <2>2, <3>1, <3>3 DEF UserRow
  <2>5. row' \in [PrUsers -> UserRow]
    BY <1>2, <2>1, <2>2, <2>4
  <2>6. /\ pr'.used = pr.used \cup {t}
        /\ pr'.twice = IF t \in pr.used THEN pr.twice \cup {t} ELSE pr.twice
        /\ pr'.crossed = (pr.crossed \/ row[u].hash # prReq[r].copy.hash)
        /\ pr'.erased = pr.erased
        /\ pr' \in [used : SUBSET Tokens, twice : SUBSET Tokens, crossed : BOOLEAN, erased : SUBSET PrUsers]
    BY <1>2, <2>1 DEF Confirmed, ResetInv, PasswordResetTypeOK
  <2>7. PasswordResetTypeOK'
    BY <1>1, <1>3, <2>5, <2>6 DEF ResetInv, PasswordResetTypeOK
  <2>8. prReq[r].copy.hash = t.hash /\ t.hash <= row[u].hash
    BY <1>1, <1>5 DEF ResetInv, HeldFresh, Saving
  <2>9. UsedStale'
    <3>1. SUFFICES ASSUME NEW s \in pr'.used, row'[s.user].there PROVE s.hash < row'[s.user].hash
      BY DEF UsedStale
    <3>2. s \in Tokens /\ s.user \in PrUsers /\ s.hash \in Nat
      BY <1>2, <2>6 DEF ResetInv, PasswordResetTypeOK, Tokens
    <3>3. CASE s = t
      BY <1>2, <2>3, <2>8, <3>3
    <3>4. CASE s # t
      <4>1. s \in pr.used
        BY <2>6, <3>4
      <4>2. row[s.user].there /\ s.hash < row[s.user].hash
        BY <2>2, <2>3, <3>1, <3>2, <4>1 DEF ResetInv, UsedStale
      <4>3. CASE s.user = u
        <5>1. s.hash < row[u].hash /\ row'[s.user].hash = row[u].hash + 1 /\ row[u].hash \in Nat
          BY <1>2, <2>3, <4>2, <4>3
        <5> QED BY <3>2, <5>1
      <4>4. CASE s.user # u
        BY <2>2, <3>2, <4>2, <4>4
      <4> QED BY <4>3, <4>4
    <3> QED BY <3>3, <3>4
  <2>10. HeldFresh'
    <3>1. SUFFICES ASSUME NEW q \in PrRequests, Saving(q)'
                   PROVE  /\ prReq'[q].copy.hash = prReq'[q].token.hash
                          /\ row'[prReq'[q].token.user].there =>
                                prReq'[q].token.hash <= row'[prReq'[q].token.user].hash
      BY DEF HeldFresh
    <3>2. q # r /\ prReq'[q] = prReq[q] /\ Saving(q)
      BY <1>1, <3>1 DEF Saving, PrIdle, ResetInv, PasswordResetTypeOK
    <3>3. prReq[q] \in [pc : {"save"}, token : Tokens, copy : UserRow]
      BY <3>2 DEF ResetInv, PasswordResetTypeOK, Saving, PrIdle
    <3>4. prReq[q].token.user \in PrUsers /\ prReq[q].token.hash \in Nat
      BY <3>3 DEF Tokens
    <3>5. /\ prReq[q].copy.hash = prReq[q].token.hash
          /\ row[prReq[q].token.user].there =>
                prReq[q].token.hash <= row[prReq[q].token.user].hash
      BY <3>2 DEF ResetInv, HeldFresh
    <3>6. CASE prReq[q].token.user = u
      <4>1. prReq[q].token.hash <= row[u].hash
        BY <1>5, <3>5, <3>6
      <4>2. prReq[q].token.hash <= row[u].hash + 1
        BY <1>2, <3>4, <4>1
      <4> QED BY <2>3, <3>2, <3>5, <3>6, <4>2
    <3>7. CASE prReq[q].token.user # u
      BY <2>2, <3>2, <3>4, <3>5, <3>7
    <3> QED BY <3>6, <3>7
  <2>11. TokenOnce'
    <3>1. CASE t \in pr.used
      <4>1. t.hash < row[u].hash
        BY <1>5, <3>1 DEF ResetInv, UsedStale
      <4> QED BY <1>2, <2>6, <2>8, <4>1 DEF TokenOnce
    <3>2. CASE t \notin pr.used
      BY <2>6, <3>2 DEF ResetInv, TokenOnce
    <3> QED BY <3>1, <3>2
  <2>12. ErasedStaysErased'
    <3>1. SUFFICES ASSUME NEW v \in pr'.erased PROVE ~row'[v].active /\ row'[v].email = Placeholder
      BY DEF ErasedStaysErased
    <3>2. v \in PrUsers /\ ~row[v].active /\ row[v].email = Placeholder
      BY <2>6 DEF ResetInv, PasswordResetTypeOK, ErasedStaysErased
    <3> QED BY <2>2, <2>3, <3>2
  <2> QED BY <2>7, <2>9, <2>10, <2>11, <2>12 DEF ResetInv
<1> QED BY <1>4, <1>5

\* An erasure raises the hash or deletes the row.
LEMMA PrEraseStep ==
    ASSUME ResetInv, NEW c \in Commands, Anonymize(c) \/ HardDelete(c)
    PROVE  ResetInv'
<1> DEFINE u == cmd[c].user
<1>1. /\ cmd[c] \in [pc : {"confirm"}, user : PrUsers, mode : {"anonymize", "hard_delete"}]
      /\ cmd' = [cmd EXCEPT ![c] = PrIdle]
      /\ UNCHANGED <<outbox, links, prReq>>
  BY DEF Anonymize, HardDelete, ResetInv, PasswordResetTypeOK, PrIdle
<1>2. /\ u \in PrUsers /\ row \in [PrUsers -> UserRow]
      /\ \A v \in PrUsers : row[v].hash \in 0..MaxHash
  BY <1>1 DEF ResetInv, PasswordResetTypeOK, UserRow
<1>3. cmd' \in [Commands -> {PrIdle} \cup
         [pc : {"confirm"}, user : PrUsers, mode : {"anonymize", "hard_delete"}]]
  BY <1>1 DEF ResetInv, PasswordResetTypeOK
<1>4. CASE row' = row /\ pr' = pr
  BY <1>1, <1>3, <1>4 DEF ResetInv, PasswordResetTypeOK, UsedStale, HeldFresh, Saving, TokenOnce, ErasedStaysErased
<1>5. CASE ~(row' = row /\ pr' = pr)
  <2>1. /\ \A v \in PrUsers : v # u => row'[v] = row[v]
        /\ row' \in [PrUsers -> UserRow]
        /\ ~row'[u].active /\ row'[u].email = Placeholder
        /\ row'[u].there => row[u].there /\ row[u].hash < row'[u].hash
    <3>1. CASE Anonymize(c)
      <4>1. /\ row[u].there /\ row[u].hash < MaxHash
            /\ row' = [row EXCEPT ![u] = [there |-> TRUE, email |-> Placeholder, hash |-> row[u].hash + 1,
                                          usable |-> FALSE, active |-> FALSE]]
        BY <1>5, <3>1 DEF Anonymize
      <4>2. [there |-> TRUE, email |-> Placeholder, hash |-> row[u].hash + 1,
             usable |-> FALSE, active |-> FALSE] \in UserRow
        BY <1>2, <4>1, PasswordResetAssumption DEF UserRow
      <4> QED BY <1>2, <4>1, <4>2
    <3>2. CASE HardDelete(c)
      <4>1. row' = [row EXCEPT ![u] = Gone] /\ Gone \in UserRow
        BY <3>2, PasswordResetAssumption DEF HardDelete, Gone, UserRow
      <4> QED BY <1>2, <4>1 DEF Gone
    <3> QED BY <3>1, <3>2
  <2>2. /\ pr' = [pr EXCEPT !.erased = @ \cup {u}]
    BY <1>5 DEF Anonymize, HardDelete
  <2>3. /\ pr'.used = pr.used /\ pr'.twice = pr.twice /\ pr'.crossed = pr.crossed
        /\ pr'.erased = pr.erased \cup {u}
        /\ pr' \in [used : SUBSET Tokens, twice : SUBSET Tokens, crossed : BOOLEAN, erased : SUBSET PrUsers]
    BY <1>2, <2>2 DEF ResetInv, PasswordResetTypeOK
  <2>4. PasswordResetTypeOK'
    BY <1>1, <1>3, <2>1, <2>3 DEF ResetInv, PasswordResetTypeOK
  <2>5. UsedStale'
    <3>1. SUFFICES ASSUME NEW s \in pr.used, row'[s.user].there PROVE s.hash < row'[s.user].hash
      BY <2>3 DEF UsedStale
    <3>2. s.user \in PrUsers /\ s.hash \in Nat
      BY <1>2 DEF ResetInv, PasswordResetTypeOK, Tokens
    <3>3. row[s.user].there /\ (s.user = u => row[u].hash < row'[u].hash)
      BY <2>1, <3>1, <3>2
    <3>4. s.hash < row[s.user].hash
      BY <3>3 DEF ResetInv, UsedStale
    <3>5. row'[s.user].hash \in Nat
      BY <2>1, <3>2 DEF UserRow
    <3> QED BY <1>2, <2>1, <3>2, <3>3, <3>4, <3>5
  <2>6. HeldFresh'
    <3>1. SUFFICES ASSUME NEW q \in PrRequests, Saving(q)
                   PROVE  /\ prReq[q].copy.hash = prReq[q].token.hash
                          /\ row'[prReq[q].token.user].there =>
                                prReq[q].token.hash <= row'[prReq[q].token.user].hash
      BY <1>1 DEF HeldFresh, Saving
    <3>2. prReq[q] \in [pc : {"save"}, token : Tokens, copy : UserRow]
      BY <3>1 DEF ResetInv, PasswordResetTypeOK, Saving, PrIdle
    <3>3. prReq[q].token.user \in PrUsers /\ prReq[q].token.hash \in Nat
      BY <3>2 DEF Tokens
    <3>4. row'[prReq[q].token.user].hash \in Nat
      BY <2>1, <3>3 DEF UserRow
    <3> QED BY <1>2, <2>1, <3>1, <3>3, <3>4 DEF ResetInv, HeldFresh
  <2>7. TokenOnce'
    BY <2>3 DEF ResetInv, TokenOnce
  <2>8. ErasedStaysErased'
    BY <2>1, <2>3 DEF ResetInv, ErasedStaysErased, PasswordResetTypeOK
  <2> QED BY <2>4, <2>5, <2>6, <2>7, <2>8 DEF ResetInv
<1> QED BY <1>4, <1>5

\* Every step keeps the invariant.
LEMMA PrInvStep == ResetInv /\ [PasswordResetNext]_prVars => ResetInv'
  BY QuietStep, PrReadStep, SaveStep, PrEraseStep DEF PasswordResetNext

\* The inductive invariant of the password resets and erasures.
THEOREM ResetInvHolds == PasswordResetSpec => []ResetInv
  BY PrInitEstablishes, PrInvStep, PTL DEF PasswordResetSpec

\* "The token is single-use": confirm_reset changes a password twice with one token
\* only when two confirmations had crossed.
THEOREM TokenIsSingleUse == PasswordResetSpec => []TokenOnce
<1>1. ResetInv => TokenOnce
  BY DEF ResetInv
<1> QED BY <1>1, ResetInvHolds, PTL

\* No confirmation and no command brings back the address or the access of an
\* account that GDPRService has erased.
THEOREM ErasureIsFinal == PasswordResetSpec => []ErasedStaysErased
<1>1. ResetInv => ErasedStaysErased
  BY DEF ResetInv
<1> QED BY <1>1, ResetInvHolds, PTL

\* The variables of PasswordReset keep their types.
THEOREM ResetIsTyped == PasswordResetSpec => []PasswordResetTypeOK
<1>1. ResetInv => PasswordResetTypeOK
  BY DEF ResetInv
<1> QED BY <1>1, ResetInvHolds, PTL
=============================================================================
