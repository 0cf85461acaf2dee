---------------------------- MODULE ProfileProofs ----------------------------
(***************************************************************************)
(* Proofs about Profile, for any requests, texts and files.                 *)
(***************************************************************************)
EXTENDS Profile, TLAPS

\* A row is only ever given an avatar that was stored, and requests read rows.
AvatarsStored ==
    /\ profile.avatar \in uploaded \cup {NoFile}
    /\ \A r \in PfRequests : pfReq[r].copy.avatar \in uploaded \cup {NoFile}
    /\ \A r \in PfRequests : PfAt(r, "patch_store") => pfReq[r].avatar # NoFile

Pending(r) == PfAt(r, "patch_save") /\ pfReq[r].avatar # NoFile

\* An upload that is stored and not yet saved is in the storage, and neither the row
\* nor any other request knows of it.
PendingUnknown ==
    \A r \in PfRequests : Pending(r) =>
        /\ pfReq[r].avatar \in files
        /\ profile.avatar # pfReq[r].avatar
        /\ \A q \in PfRequests : pfReq[q].copy.avatar # pfReq[r].avatar
        /\ \A q \in PfRequests : Pending(q) /\ pfReq[q].avatar = pfReq[r].avatar => q = r

ProfileInv == ProfileTypeOK /\ AvatarsStored /\ PendingUnknown /\ FieldsKept /\ AvatarHasFile

PfRequest ==
    [pc : {"idle", "patch_store", "patch_save", "delete_file", "delete_save"},
     copy : ProfileRow, text : Texts \cup {NoText}, avatar : Files \cup {NoFile}]

\* The row that is not there, and a new one, name no file.
LEMMA RowFacts ==
    /\ NoProfile \in ProfileRow /\ NoProfile.text = NoText /\ NoProfile.avatar = NoFile /\ ~NoProfile.there
    /\ Fresh \in ProfileRow /\ Fresh.text = NoText /\ Fresh.avatar = NoFile /\ Fresh.there
  BY DEF NoProfile, Fresh, ProfileRow

\* A request that has ended names no file.
LEMMA PfIdleFacts ==
    /\ PfIdle \in PfRequest /\ PfIdle.pc = "idle" /\ PfIdle.copy = NoProfile /\ PfIdle.avatar = NoFile
    /\ PfIdle.text = NoText
  BY RowFacts DEF PfIdle, PfRequest

\* get_or_create changes neither field.
LEMMA GetOrCreateFacts ==
    ASSUME ProfileTypeOK
    PROVE  /\ GetOrCreate \in ProfileRow /\ GetOrCreate.there
           /\ GetOrCreate.text = profile.text /\ GetOrCreate.avatar = profile.avatar
  BY RowFacts DEF GetOrCreate, ProfileTypeOK

\* At the start there is no row and no file.
LEMMA PfInitEstablishes == PfInit => ProfileInv
  BY RowFacts, PfIdleFacts DEF PfInit, ProfileInv, ProfileTypeOK, PfRequest, AvatarsStored, PendingUnknown, Pending,
     PfAt, FieldsKept, AvatarHasFile

\* A request ends, or a row is read or removed, and files stay.
LEMMA PfStillStep ==
    ASSUME ProfileInv, GetProfile \/ AnonymizePerson \/ DeletePerson \/ UNCHANGED pfVars
    PROVE  ProfileInv'
<1>1. /\ UNCHANGED <<files, uploaded, pfReq>> /\ person' \in {"active", "anonymized", "deleted"}
      /\ profile' \in ProfileRow /\ (profile'.there \/ profile' = NoProfile)
      /\ \/ profile'.avatar = profile.avatar /\ profile'.text = profile.text /\ pf' = pf
         \/ profile' = NoProfile /\ pf' = [pf EXCEPT !.text = NoText, !.avatar = NoFile]
  BY RowFacts, GetOrCreateFacts DEF GetProfile, AnonymizePerson, DeletePerson, pfVars, ProfileInv, ProfileTypeOK
<1>2. /\ pf' \in [text : Texts \cup {NoText}, avatar : Files \cup {NoFile}, crossed : BOOLEAN, cut : BOOLEAN]
      /\ pf'.crossed = pf.crossed /\ pf'.cut = pf.cut
      /\ \/ profile'.avatar = profile.avatar /\ profile'.text = profile.text /\ pf' = pf
         \/ profile'.avatar = NoFile /\ profile'.text = NoText /\ pf'.text = NoText /\ pf'.avatar = NoFile
  BY <1>1, RowFacts DEF ProfileInv, ProfileTypeOK
<1>3. ProfileTypeOK' /\ AvatarsStored'
  BY <1>1, <1>2 DEF ProfileInv, ProfileTypeOK, AvatarsStored, PfAt
<1>4. PendingUnknown'
  BY <1>1, <1>2 DEF ProfileInv, PendingUnknown, Pending, PfAt
<1>5. FieldsKept' /\ AvatarHasFile'
  BY <1>1, <1>2 DEF ProfileInv, FieldsKept, AvatarHasFile, PfAt
<1> QED BY <1>3, <1>4, <1>5 DEF ProfileInv

\* A request that dies may leave its upload behind, which no row names.
LEMMA PfCrashStep == ASSUME ProfileInv, NEW r \in PfRequests, PfCrash(r) PROVE ProfileInv'
<1>1. /\ UNCHANGED <<profile, person, files, uploaded>> /\ pfReq' = [pfReq EXCEPT ![r] = PfIdle]
      /\ pf' = [pf EXCEPT !.cut = @ \/ PfAt(r, "delete_save")]
  BY DEF PfCrash, PfDone
<1>2. /\ pf' \in [text : Texts \cup {NoText}, avatar : Files \cup {NoFile}, crossed : BOOLEAN, cut : BOOLEAN]
      /\ pf'.crossed = pf.crossed /\ pf'.cut = (pf.cut \/ PfAt(r, "delete_save"))
      /\ pf'.text = pf.text /\ pf'.avatar = pf.avatar
  <2>1. PfAt(r, "delete_save") \in BOOLEAN
    BY DEF PfAt
  <2> QED BY <1>1, <2>1 DEF ProfileInv, ProfileTypeOK
<1>3. pfReq' \in [PfRequests -> PfRequest]
  BY <1>1, PfIdleFacts DEF ProfileInv, ProfileTypeOK, PfRequest
<1>4. \A q \in PfRequests : pfReq'[q] = IF q = r THEN PfIdle ELSE pfReq[q]
  BY <1>1 DEF ProfileInv, ProfileTypeOK
<1>5. ProfileTypeOK'
  BY <1>1, <1>2, <1>3 DEF ProfileInv, ProfileTypeOK, PfRequest
<1>6. AvatarsStored'
  BY <1>1, <1>4, PfIdleFacts, RowFacts DEF ProfileInv, AvatarsStored, PfAt
<1>7. PendingUnknown'
  BY <1>1, <1>4, PfIdleFacts, RowFacts DEF ProfileInv, PendingUnknown, Pending, PfAt
<1>8. FieldsKept'
  BY <1>1, <1>2 DEF ProfileInv, FieldsKept
<1>9. AvatarHasFile'
  BY <1>1, <1>2, <1>4 DEF ProfileInv, AvatarHasFile, PfAt
<1> QED BY <1>5, <1>6, <1>7, <1>8, <1>9 DEF ProfileInv

\* A request reads the row, which is made if there is none.
LEMMA PfReadStep ==
    ASSUME ProfileInv, NEW r \in PfRequests,
           \/ \E text \in Texts \cup {NoText}, avatar \in Files \cup {NoFile} : PatchRead(r, text, avatar)
           \/ DeleteRead(r)
    PROVE  ProfileInv'
<1>1. /\ UNCHANGED <<person, files, uploaded, pf>> /\ PfAt(r, "idle")
      /\ profile' = GetOrCreate
  BY DEF PatchRead, DeleteRead
<1>2. /\ profile' \in ProfileRow /\ profile'.there
      /\ profile'.text = profile.text /\ profile'.avatar = profile.avatar
  BY <1>1, GetOrCreateFacts DEF ProfileInv
<1>3. PICK new \in PfRequest :
        /\ pfReq' = [pfReq EXCEPT ![r] = new]
        /\ new.pc # "delete_save" /\ (new.pc = "patch_save" => new.avatar = NoFile)
        /\ (new.pc = "patch_store" => new.avatar # NoFile)
        /\ new.copy.avatar \in {profile.avatar, pfReq[r].copy.avatar}
  <2>1. ASSUME NEW text \in Texts \cup {NoText}, NEW avatar \in Files \cup {NoFile}, PatchRead(r, text, avatar)
        PROVE  \E new \in PfRequest :
                  /\ pfReq' = [pfReq EXCEPT ![r] = new]
                  /\ new.pc # "delete_save" /\ (new.pc = "patch_save" => new.avatar = NoFile)
                  /\ (new.pc = "patch_store" => new.avatar # NoFile)
                  /\ new.copy.avatar \in {profile.avatar, pfReq[r].copy.avatar}
    <3> DEFINE new == [pc |-> IF avatar = NoFile THEN "patch_save" ELSE "patch_store",
                       copy |-> GetOrCreate, text |-> text, avatar |-> avatar]
    <3>1. new \in PfRequest
      BY <1>1, <1>2 DEF PfRequest
    <3>2. pfReq' = [pfReq EXCEPT ![r] = new]
      BY <2>1 DEF PatchRead
    <3> QED BY <1>1, <1>2, <3>1, <3>2
  <2>2. ASSUME DeleteRead(r)
        PROVE  \E new \in PfRequest :
                  /\ pfReq' = [pfReq EXCEPT ![r] = new]
                  /\ new.pc # "delete_save" /\ (new.pc = "patch_save" => new.avatar = NoFile)
                  /\ (new.pc = "patch_store" => new.avatar # NoFile)
                  /\ new.copy.avatar \in {profile.avatar, pfReq[r].copy.avatar}
    <3>1. CASE pfReq' = pfReq
      <4>1. pfReq[r] \in PfRequest /\ pfReq' = [pfReq EXCEPT ![r] = pfReq[r]] /\ pfReq[r].pc = "idle"
        BY <1>1, <3>1 DEF ProfileInv, ProfileTypeOK, PfRequest, PfAt
      <4> QED BY <4>1
    <3>2. CASE pfReq' # pfReq
      <4> DEFINE new == [PfIdle EXCEPT !.pc = "delete_file", !.copy = profile]
      <4>1. pfReq' = [pfReq EXCEPT ![r] = new]
        BY <2>2, <3>2 DEF DeleteRead
      <4>2. new \in PfRequest /\ new.pc = "delete_file" /\ new.copy = profile
        BY PfIdleFacts DEF PfRequest, ProfileInv, ProfileTypeOK
      <4> QED BY <4>1, <4>2
    <3> QED BY <3>1, <3>2
  <2> QED BY <2>1, <2>2
<1>4. \A q \in PfRequests : pfReq'[q] = IF q = r THEN new ELSE pfReq[q]
  BY <1>3 DEF ProfileInv, ProfileTypeOK
<1>5. ProfileTypeOK'
  BY <1>1, <1>2, <1>3 DEF ProfileInv, ProfileTypeOK, PfRequest
<1>6. AvatarsStored'
  BY <1>1, <1>2, <1>3, <1>4 DEF ProfileInv, AvatarsStored, PfAt
<1>7. PendingUnknown'
  BY <1>1, <1>2, <1>3, <1>4 DEF ProfileInv, PendingUnknown, Pending, PfAt
<1>8. FieldsKept'
  BY <1>1, <1>2 DEF ProfileInv, FieldsKept
<1>9. AvatarHasFile'
  BY <1>1, <1>2, <1>4 DEF ProfileInv, AvatarHasFile, PfAt
<1> QED BY <1>5, <1>6, <1>7, <1>8, <1>9 DEF ProfileInv

\* An upload is stored under a name that nobody else knows.
LEMMA StoreStep == ASSUME ProfileInv, NEW r \in PfRequests, PatchStore(r) PROVE ProfileInv'
<1> DEFINE f == pfReq[r].avatar
<1>1. /\ UNCHANGED <<profile, person, pf>> /\ PfAt(r, "patch_store") /\ f \notin uploaded
      /\ files' = files \cup {f} /\ uploaded' = uploaded \cup {f}
      /\ pfReq' = [pfReq EXCEPT ![r].pc = "patch_save"]
  BY DEF PatchStore
<1>2. /\ pfReq' \in [PfRequests -> PfRequest]
      /\ pfReq'[r].pc = "patch_save" /\ pfReq'[r].copy = pfReq[r].copy /\ pfReq'[r].avatar = f
      /\ \A q \in PfRequests : q # r => pfReq'[q] = pfReq[q]
  BY <1>1 DEF ProfileInv, ProfileTypeOK, PfRequest
<1>3. f \in Files \cup {NoFile}
  BY DEF ProfileInv, ProfileTypeOK
<1>4. CASE f # NoFile
  <2>1. ProfileTypeOK'
    BY <1>1, <1>2, <1>3, <1>4 DEF ProfileInv, ProfileTypeOK, PfRequest
  <2>2. AvatarsStored'
    BY <1>1, <1>2 DEF ProfileInv, AvatarsStored, PfAt
  <2>3. PendingUnknown'
    <3>1. profile.avatar # f /\ \A q \in PfRequests : pfReq[q].copy.avatar # f
      BY <1>1, <1>4 DEF ProfileInv, AvatarsStored, PfAt
    <3>2. \A q \in PfRequests : Pending(q) => pfReq[q].avatar # f
      BY <1>1 DEF ProfileInv, PendingUnknown, ProfileTypeOK
    <3>3. ASSUME NEW q \in PfRequests
          PROVE  /\ pfReq'[q].copy = pfReq[q].copy /\ pfReq'[q].avatar = pfReq[q].avatar
                 /\ Pending(q)' => q = r \/ Pending(q)
      BY <1>1, <1>2 DEF Pending, PfAt
    <3>4. ASSUME NEW p \in PfRequests, Pending(p)'
          PROVE  /\ pfReq'[p].avatar \in files'
                 /\ profile'.avatar # pfReq'[p].avatar
                 /\ \A q \in PfRequests : pfReq'[q].copy.avatar # pfReq'[p].avatar
                 /\ \A q \in PfRequests : Pending(q)' /\ pfReq'[q].avatar = pfReq'[p].avatar => q = p
      <4>1. CASE p = r
        BY <1>1, <1>2, <3>1, <3>2, <3>3, <4>1
      <4>2. CASE p # r
        BY <1>1, <1>2, <3>2, <3>3, <3>4, <4>2 DEF ProfileInv, PendingUnknown
      <4> QED BY <4>1, <4>2
    <3> QED BY <3>4 DEF PendingUnknown
  <2>4. FieldsKept'
    BY <1>1 DEF ProfileInv, FieldsKept
  <2>5. AvatarHasFile'
    BY <1>1, <1>2 DEF ProfileInv, AvatarHasFile, PfAt
  <2> QED BY <2>1, <2>2, <2>3, <2>4, <2>5 DEF ProfileInv
<1>5. f # NoFile
  BY <1>1 DEF ProfileInv, AvatarsStored
<1> QED BY <1>4, <1>5

\* The whole row is saved; if it had not changed since it was read, only the fields
\* that the request names change.
LEMMA PatchSaveStep == ASSUME ProfileInv, NEW r \in PfRequests, PatchSave(r) PROVE ProfileInv'
<1> DEFINE x == pfReq[r]
<1>1. /\ UNCHANGED <<person, files, uploaded>> /\ pfReq' = [pfReq EXCEPT ![r] = PfIdle]
      /\ PfAt(r, "patch_save") /\ x \in PfRequest
  BY DEF PatchSave, PfDone, ProfileInv, ProfileTypeOK, PfRequest
<1>2. /\ pfReq' \in [PfRequests -> PfRequest]
      /\ \A q \in PfRequests : pfReq'[q] = IF q = r THEN PfIdle ELSE pfReq[q]
  BY <1>1, PfIdleFacts DEF ProfileInv, ProfileTypeOK, PfRequest
<1>3. \/ UNCHANGED <<profile, pf>>
      \/ /\ profile' \in ProfileRow /\ profile'.there
         /\ profile'.text = IF x.text = NoText THEN x.copy.text ELSE x.text
         /\ profile'.avatar = IF x.avatar = NoFile THEN x.copy.avatar ELSE x.avatar
         /\ pf' \in [text : Texts \cup {NoText}, avatar : Files \cup {NoFile}, crossed : BOOLEAN, cut : BOOLEAN]
         /\ pf'.text = IF x.text = NoText THEN pf.text ELSE x.text
         /\ pf'.avatar = IF x.avatar = NoFile THEN pf.avatar ELSE x.avatar
         /\ pf'.crossed = (pf.crossed \/ profile # x.copy) /\ pf'.cut = pf.cut
  <2>1. CASE person = "deleted"
    BY <2>1 DEF PatchSave
  <2>2. CASE person # "deleted"
    <3>1. /\ profile' = Patched(r)
          /\ pf' = [pf EXCEPT !.text = IF x.text = NoText THEN @ ELSE x.text,
                              !.avatar = IF x.avatar = NoFile THEN @ ELSE x.avatar,
                              !.crossed = @ \/ profile # x.copy]
      BY <2>2 DEF PatchSave
    <3>2. profile' \in ProfileRow /\ profile'.there
      BY <1>1, <3>1 DEF Patched, PfRequest, ProfileRow
    <3>3. /\ profile'.text = IF x.text = NoText THEN x.copy.text ELSE x.text
          /\ profile'.avatar = IF x.avatar = NoFile THEN x.copy.avatar ELSE x.avatar
      BY <3>1 DEF Patched
    <3>4. /\ pf' \in [text : Texts \cup {NoText}, avatar : Files \cup {NoFile}, crossed : BOOLEAN, cut : BOOLEAN]
          /\ pf'.text = IF x.text = NoText THEN pf.text ELSE x.text
          /\ pf'.avatar = IF x.avatar = NoFile THEN pf.avatar ELSE x.avatar
          /\ pf'.crossed = (pf.crossed \/ profile # x.copy) /\ pf'.cut = pf.cut
      BY <1>1, <3>1 DEF ProfileInv, ProfileTypeOK, PfRequest
    <3> QED BY <3>2, <3>3, <3>4
  <2> QED BY <2>1, <2>2
<1>4. ProfileTypeOK'
  BY <1>1, <1>2, <1>3 DEF ProfileInv, ProfileTypeOK, PfRequest
<1>5. x.avatar # NoFile => Pending(r) /\ x.avatar \in files /\ x.avatar \in uploaded
  BY <1>1 DEF Pending, ProfileInv, PendingUnknown, ProfileTypeOK
<1>6. profile'.avatar \in {profile.avatar, x.copy.avatar, x.avatar} /\ profile'.avatar \in uploaded' \cup {NoFile}
  BY <1>1, <1>3, <1>5 DEF ProfileInv, AvatarsStored
<1>7. AvatarsStored'
  BY <1>1, <1>2, <1>6, PfIdleFacts, RowFacts DEF ProfileInv, AvatarsStored, PfAt
<1>8. PendingUnknown'
  <2>1. \A q \in PfRequests : Pending(q)' => q # r /\ Pending(q) /\ pfReq'[q] = pfReq[q]
    BY <1>2, PfIdleFacts DEF Pending, PfAt
  <2>2. ASSUME NEW p \in PfRequests, Pending(p)'
        PROVE  /\ pfReq'[p].avatar \in files'
               /\ profile'.avatar # pfReq'[p].avatar
               /\ \A q \in PfRequests : pfReq'[q].copy.avatar # pfReq'[p].avatar
               /\ \A q \in PfRequests : Pending(q)' /\ pfReq'[q].avatar = pfReq'[p].avatar => q = p
    <3>1. p # r /\ Pending(p) /\ pfReq'[p] = pfReq[p] /\ pfReq[p].avatar # NoFile
      BY <2>1, <2>2 DEF Pending
    <3>2. /\ pfReq[p].avatar \in files /\ profile.avatar # pfReq[p].avatar
          /\ \A q \in PfRequests : pfReq[q].copy.avatar # pfReq[p].avatar
          /\ \A q \in PfRequests : Pending(q) /\ pfReq[q].avatar = pfReq[p].avatar => q = p
      BY <3>1 DEF ProfileInv, PendingUnknown
    <3>3. profile'.avatar # pfReq[p].avatar
      BY <1>3, <1>5, <3>1, <3>2
    <3> QED BY <1>1, <1>2, <2>1, <3>1, <3>2, <3>3, PfIdleFacts, RowFacts
  <2> QED BY <2>2 DEF PendingUnknown
<1>9. FieldsKept'
  BY <1>3 DEF ProfileInv, FieldsKept
<1>10. AvatarHasFile'
  <2>1. \A q \in PfRequests : PfAt(q, "delete_save") => PfAt(q, "delete_save")'
    BY <1>1, <1>2 DEF PfAt
  <2>2. CASE UNCHANGED <<profile, pf>>
    BY <1>1, <2>1, <2>2 DEF ProfileInv, AvatarHasFile
  <2>3. CASE ~UNCHANGED <<profile, pf>>
    BY <1>1, <1>3, <1>5, <2>1, <2>3 DEF ProfileInv, AvatarHasFile
  <2> QED BY <2>2, <2>3
<1> QED BY <1>4, <1>7, <1>8, <1>9, <1>10 DEF ProfileInv

\* The file deleted is the avatar of the request's copy.
LEMMA DeleteFileStep == ASSUME ProfileInv, NEW r \in PfRequests, DeleteFile(r) PROVE ProfileInv'
<1>1. /\ UNCHANGED <<profile, person, uploaded, pf>> /\ PfAt(r, "delete_file")
      /\ files' = files \ {pfReq[r].copy.avatar}
      /\ pfReq' = [pfReq EXCEPT ![r].pc = "delete_save"]
  BY DEF DeleteFile
<1>2. /\ pfReq' \in [PfRequests -> PfRequest]
      /\ pfReq'[r].pc = "delete_save" /\ pfReq'[r].copy = pfReq[r].copy /\ pfReq'[r].avatar = pfReq[r].avatar
      /\ \A q \in PfRequests : q # r => pfReq'[q] = pfReq[q]
  BY <1>1 DEF ProfileInv, ProfileTypeOK, PfRequest
<1>3. ProfileTypeOK'
  BY <1>1, <1>2 DEF ProfileInv, ProfileTypeOK, PfRequest
<1>4. AvatarsStored'
  BY <1>1, <1>2 DEF ProfileInv, AvatarsStored, PfAt
<1>5. PendingUnknown'
  BY <1>1, <1>2 DEF ProfileInv, PendingUnknown, Pending, PfAt
<1>6. FieldsKept' /\ AvatarHasFile'
  BY <1>1, <1>2 DEF ProfileInv, FieldsKept, AvatarHasFile, PfAt
<1> QED BY <1>3, <1>4, <1>5, <1>6 DEF ProfileInv

\* Saving the row without its avatar leaves no name without its file.
LEMMA DeleteSaveStep == ASSUME ProfileInv, NEW r \in PfRequests, DeleteSave(r) PROVE ProfileInv'
<1>1. /\ UNCHANGED <<person, files, uploaded>> /\ pfReq' = [pfReq EXCEPT ![r] = PfIdle]
      /\ profile \in ProfileRow /\ (profile.there \/ profile = NoProfile)
  BY DEF DeleteSave, PfDone, ProfileInv, ProfileTypeOK
<1>2. /\ pfReq' \in [PfRequests -> PfRequest]
      /\ \A q \in PfRequests : pfReq'[q] = IF q = r THEN PfIdle ELSE pfReq[q]
  BY <1>1, PfIdleFacts DEF ProfileInv, ProfileTypeOK, PfRequest
<1>3. /\ profile' \in ProfileRow /\ (profile'.there \/ profile' = NoProfile)
      /\ profile'.avatar = NoFile /\ profile'.text = profile.text
      /\ pf' \in [text : Texts \cup {NoText}, avatar : Files \cup {NoFile}, crossed : BOOLEAN, cut : BOOLEAN]
      /\ pf'.text = pf.text /\ (pf'.avatar = NoFile \/ UNCHANGED <<profile, pf>>)
      /\ pf.crossed => pf'.crossed
  <2>1. CASE profile.there
    <3>1. /\ profile' = [profile EXCEPT !.avatar = NoFile]
          /\ pf' = [pf EXCEPT !.avatar = NoFile, !.crossed = @ \/ profile.avatar # pfReq[r].copy.avatar]
      BY <2>1 DEF DeleteSave
    <3>2. /\ profile' \in ProfileRow /\ profile'.there
          /\ profile'.avatar = NoFile /\ profile'.text = profile.text
      BY <1>1, <2>1, <3>1 DEF ProfileRow
    <3>3. /\ pf' \in [text : Texts \cup {NoText}, avatar : Files \cup {NoFile}, crossed : BOOLEAN, cut : BOOLEAN]
          /\ pf'.text = pf.text /\ pf'.avatar = NoFile /\ (pf.crossed => pf'.crossed)
      BY <3>1 DEF ProfileInv, ProfileTypeOK
    <3> QED BY <3>2, <3>3
  <2>2. CASE ~profile.there
    BY <1>1, <2>2, RowFacts DEF DeleteSave, ProfileInv, ProfileTypeOK
  <2> QED BY <2>1, <2>2
<1>4. ProfileTypeOK'
  BY <1>1, <1>2, <1>3 DEF ProfileInv, ProfileTypeOK, PfRequest
<1>5. AvatarsStored'
  BY <1>1, <1>2, <1>3, PfIdleFacts, RowFacts DEF ProfileInv, AvatarsStored, PfAt
<1>6. PendingUnknown'
  BY <1>1, <1>2, <1>3, PfIdleFacts, RowFacts DEF ProfileInv, PendingUnknown, Pending, PfAt
<1>7. FieldsKept'
  BY <1>3 DEF ProfileInv, FieldsKept
<1>8. AvatarHasFile'
  BY <1>3 DEF AvatarHasFile
<1> QED BY <1>4, <1>5, <1>6, <1>7, <1>8 DEF ProfileInv

\* Every step keeps the invariant.
LEMMA PfInvStep == ProfileInv /\ [ProfileNext]_pfVars => ProfileInv'
  BY PfStillStep, PfCrashStep, PfReadStep, StoreStep, PatchSaveStep, DeleteFileStep, DeleteSaveStep DEF ProfileNext

\* The inductive invariant of the profile.
THEOREM ProfileInvHolds == ProfileSpec => []ProfileInv
  BY PfInitEstablishes, PfInvStep, PTL DEF ProfileSpec

\* The variables of Profile keep their types, and a file that is there was stored.
THEOREM ProfileIsTyped == ProfileSpec => []ProfileTypeOK
<1>1. ProfileInv => ProfileTypeOK
  BY DEF ProfileInv
<1> QED BY <1>1, ProfileInvHolds, PTL

\* PATCH and DELETE keep what others named, unless a row was saved over one changed
\* since it was read.
THEOREM FieldsAreKept == ProfileSpec => []FieldsKept
<1>1. ProfileInv => FieldsKept
  BY DEF ProfileInv
<1> QED BY <1>1, ProfileInvHolds, PTL

\* The avatar that the row names is in the storage, but for the windows of the
\* deletion and for requests that crossed.
THEOREM AvatarIsStored == ProfileSpec => []AvatarHasFile
<1>1. ProfileInv => AvatarHasFile
  BY DEF ProfileInv
<1> QED BY <1>1, ProfileInvHolds, PTL
=============================================================================
