------------------------------- MODULE Profile -------------------------------
(***************************************************************************)
(* The profile of one user: its UserProfile row and the avatar files in the *)
(* storage (apps/users/views.py, ProfileView and MeView; serializers.py;    *)
(* models.py), and what erasure (services/users/gdpr_service.py) leaves.    *)
(*                                                                          *)
(* PATCH and PUT read the row and save every field of it again, the avatar  *)
(* file first; other requests run between these steps.  bio, phone and      *)
(* timezone are one field here, text: they are only ever written alike.     *)
(***************************************************************************)
EXTENDS Integers, FiniteSets

CONSTANTS
    PfRequests,    \* request threads; each serves one request after another
    Texts,         \* bound: the texts that requests may send
    Files,         \* bound: the uploads, each stored under a name of its own
    NoText, NoFile

VARIABLES
    profile,    \* the UserProfile row, or NoProfile
    person,     \* the User row: active, anonymized or deleted
    files,      \* the storage
    uploaded,   \* the files stored so far
    pfReq,      \* each request: how far it is, its copy and its input
    pf          \* history, for the properties only

pfVars == <<profile, person, files, uploaded, pfReq, pf>>

ASSUME ProfileAssumption == NoText \notin Texts /\ NoFile \notin Files

NoProfile == [there |-> FALSE, text |-> NoText, avatar |-> NoFile]
Fresh == [there |-> TRUE, text |-> NoText, avatar |-> NoFile]

PfIdle == [pc |-> "idle", copy |-> NoProfile, text |-> NoText, avatar |-> NoFile]

PfInit ==
    /\ profile = NoProfile /\ person = "active"
    /\ files = {} /\ uploaded = {}
    /\ pfReq = [r \in PfRequests |-> PfIdle]
    /\ pf = [text |-> NoText,      \* what the last request to name the text sent
             avatar |-> NoFile,    \* what the last request to name the avatar sent
             crossed |-> FALSE,    \* a row was saved over one changed since it was read
             cut |-> FALSE]        \* a request died between the file and the row

PfAt(r, pc) == pfReq[r].pc = pc
PfDone(r) == pfReq' = [pfReq EXCEPT ![r] = PfIdle]

\* UserProfile.objects.get_or_create
GetOrCreate == IF profile.there THEN profile ELSE Fresh

-----------------------------------------------------------------------------
\* GET /users/me/ and GET /users/me/profile/ create the row.
GetProfile ==
    /\ person = "active"
    /\ profile' = GetOrCreate
    /\ UNCHANGED <<person, files, uploaded, pfReq, pf>>

-----------------------------------------------------------------------------
(* PATCH and PUT /users/me/profile/.  No field is required and none that is *)
(* left out has a value to fall back on, so that PUT does what PATCH does.  *)

PatchRead(r, text, avatar) ==
    /\ PfAt(r, "idle") /\ person = "active"
    /\ text # NoText \/ avatar # NoFile
    /\ avatar \notin uploaded
    /\ profile' = GetOrCreate
    /\ pfReq' = [pfReq EXCEPT ![r] = [pc |-> IF avatar = NoFile THEN "patch_save" ELSE "patch_store",
                                      copy |-> GetOrCreate, text |-> text, avatar |-> avatar]]
    /\ UNCHANGED <<person, files, uploaded, pf>>

\* ImageField.pre_save: the upload is stored; the file it replaces stays.
PatchStore(r) ==
    /\ PfAt(r, "patch_store") /\ pfReq[r].avatar \notin uploaded
    /\ files' = files \cup {pfReq[r].avatar}
    /\ uploaded' = uploaded \cup {pfReq[r].avatar}
    /\ pfReq' = [pfReq EXCEPT ![r].pc = "patch_save"]
    /\ UNCHANGED <<profile, person, pf>>

\* Mutant: PUT gives the text that is left out its default.
PatchedInFull(r) ==
    [there |-> TRUE, text |-> pfReq[r].text,
     avatar |-> IF pfReq[r].avatar = NoFile THEN pfReq[r].copy.avatar ELSE pfReq[r].avatar]

\* What a request makes of the row it read.
Patched(r) ==
    [there |-> TRUE,
     text |-> IF pfReq[r].text = NoText THEN pfReq[r].copy.text ELSE pfReq[r].text,
     avatar |-> IF pfReq[r].avatar = NoFile THEN pfReq[r].copy.avatar ELSE pfReq[r].avatar]

\* save(): every field is written.  The row of a deleted user is an error.
PatchSave(r) ==
    /\ PfAt(r, "patch_save")
    /\ IF person = "deleted" THEN UNCHANGED <<profile, pf>>
       ELSE /\ profile' = Patched(r)
            /\ pf' = [pf EXCEPT !.text = IF pfReq[r].text = NoText THEN @ ELSE pfReq[r].text,
                                !.avatar = IF pfReq[r].avatar = NoFile THEN @ ELSE pfReq[r].avatar,
                                !.crossed = @ \/ profile # pfReq[r].copy]
    /\ PfDone(r)
    /\ UNCHANGED <<person, files, uploaded>>

-----------------------------------------------------------------------------
(* DELETE /users/me/profile/avatar/ *)

\* Without an avatar there is nothing to do.
DeleteRead(r) ==
    /\ PfAt(r, "idle") /\ person = "active"
    /\ profile' = GetOrCreate
    /\ pfReq' = IF GetOrCreate.avatar = NoFile THEN pfReq
                ELSE [pfReq EXCEPT ![r] = [PfIdle EXCEPT !.pc = "delete_file", !.copy = profile]]
    /\ UNCHANGED <<person, files, uploaded, pf>>

\* profile.avatar.delete(save=False): the file of the copy.
DeleteFile(r) ==
    /\ PfAt(r, "delete_file")
    /\ files' = files \ {pfReq[r].copy.avatar}
    /\ pfReq' = [pfReq EXCEPT ![r].pc = "delete_save"]
    /\ UNCHANGED <<profile, person, uploaded, pf>>

\* Mutant: the avatar of the row is left as it was.
DeleteSaveNothing(r) ==
    /\ PfAt(r, "delete_save")
    /\ pf' = [pf EXCEPT !.avatar = NoFile]
    /\ PfDone(r)
    /\ UNCHANGED <<profile, person, files, uploaded>>

\* save(update_fields=["avatar", ...]); an error when the row is gone.
DeleteSave(r) ==
    /\ PfAt(r, "delete_save")
    /\ IF profile.there
       THEN /\ profile' = [profile EXCEPT !.avatar = NoFile]
            /\ pf' = [pf EXCEPT !.avatar = NoFile,
                                !.crossed = @ \/ profile.avatar # pfReq[r].copy.avatar]
       ELSE UNCHANGED <<profile, pf>>
    /\ PfDone(r)
    /\ UNCHANGED <<person, files, uploaded>>

-----------------------------------------------------------------------------
\* GDPRService.anonymize writes the User row and deletes tokens, notifications
\* and roles: the profile is not among them.
AnonymizePerson ==
    /\ person = "active"
    /\ person' = "anonymized"
    /\ UNCHANGED <<profile, files, uploaded, pfReq, pf>>

\* GDPRService.hard_delete: the row goes with the user, the file stays.
DeletePerson ==
    /\ person # "deleted"
    /\ person' = "deleted"
    /\ profile' = NoProfile
    /\ pf' = [pf EXCEPT !.text = NoText, !.avatar = NoFile]
    /\ UNCHANGED <<files, uploaded, pfReq>>

\* A request is killed, or a call raises.
PfCrash(r) ==
    /\ ~PfAt(r, "idle")
    /\ pf' = [pf EXCEPT !.cut = @ \/ PfAt(r, "delete_save")]
    /\ PfDone(r)
    /\ UNCHANGED <<profile, person, files, uploaded>>

ProfileNext ==
    \/ GetProfile \/ AnonymizePerson \/ DeletePerson
    \/ \E r \in PfRequests :
          \/ \E text \in Texts \cup {NoText}, avatar \in Files \cup {NoFile} : PatchRead(r, text, avatar)
          \/ PatchStore(r) \/ PatchSave(r)
          \/ DeleteRead(r) \/ DeleteFile(r) \/ DeleteSave(r)
          \/ PfCrash(r)

ProfileSpec == PfInit /\ [][ProfileNext]_pfVars

-----------------------------------------------------------------------------
(* Properties *)

ProfileRow == [there : BOOLEAN, text : Texts \cup {NoText}, avatar : Files \cup {NoFile}]

\* The types of the variables.
ProfileTypeOK ==
    /\ profile \in ProfileRow
    /\ person \in {"active", "anonymized", "deleted"}
    /\ files \subseteq uploaded /\ uploaded \subseteq Files
    /\ pfReq \in [PfRequests ->
          [pc : {"idle", "patch_store", "patch_save", "delete_file", "delete_save"},
           copy : ProfileRow, text : Texts \cup {NoText}, avatar : Files \cup {NoFile}]]
    /\ profile.there \/ profile = NoProfile
    /\ pf \in [text : Texts \cup {NoText}, avatar : Files \cup {NoFile}, crossed : BOOLEAN, cut : BOOLEAN]

\* Each field holds what the last request to name it sent, whatever requests have
\* named other fields since: unless a row was saved over one changed since it was
\* read, for then the fields not named are put back to what they were.
FieldsKept ==
    ~pf.crossed => profile.text = pf.text /\ profile.avatar = pf.avatar

\* The avatar that the row names is in the storage: unless a request is between
\* deleting the file and saving the row, or died there, or requests crossed.
AvatarHasFile ==
    profile.avatar # NoFile =>
        \/ profile.avatar \in files
        \/ \E r \in PfRequests : PfAt(r, "delete_save")
        \/ pf.cut \/ pf.crossed
=============================================================================
