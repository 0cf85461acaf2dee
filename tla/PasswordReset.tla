---------------------------- MODULE PasswordReset ----------------------------
(***************************************************************************)
(* Password resets (services/auth/password_reset_service.py) and the        *)
(* erasure of accounts (services/users/gdpr_service.py, run by the command  *)
(* delete_user_data), which write the same User rows.                       *)
(*                                                                          *)
(* A reset token is bound to the hash and the address that the row had when *)
(* it was made; nothing is stored.  Confirming and erasing read the row,    *)
(* work on that copy and save the fields that they name.                    *)
(***************************************************************************)
EXTENDS Integers, FiniteSets

CONSTANTS
    PrUsers,
    PrAddresses,   \* the addresses that accounts may start with
    PrRequests,    \* request threads; each serves one request after another
    Commands,      \* runs of delete_user_data, one after another
    MaxHash,       \* bound: how often set_password is called for a user
    MaxMails,      \* bound: how many tokens are enqueued or in date at once
    Placeholder    \* deleted_<tag>@deleted.invalid

VARIABLES
    row,        \* the User rows
    outbox,     \* the tokens whose mail task has not finished
    links,      \* the tokens in the e-mails that were sent and are in date
    prReq,      \* each confirmation: the token and the copy of the row
    cmd,        \* each command: the user and the mode it has read
    pr          \* history, for the properties only

prVars == <<row, outbox, links, prReq, cmd, pr>>

ASSUME PasswordResetAssumption ==
    /\ MaxHash \in Nat \ {0} /\ MaxMails \in Nat \ {0} /\ Placeholder \notin PrAddresses

\* hash numbers the values of the password field; no two calls of set_password
\* give the same one.  Not usable: set_unusable_password.
Present(email) == [there |-> TRUE, email |-> email, hash |-> 0, usable |-> TRUE, active |-> TRUE]
Gone == [there |-> FALSE, email |-> Placeholder, hash |-> 0, usable |-> FALSE, active |-> FALSE]

\* default_token_generator.make_token
TokenOf(u) == [user |-> u, hash |-> row[u].hash, email |-> row[u].email]
Tokens == [user : PrUsers, hash : 0..MaxHash, email : PrAddresses \cup {Placeholder}]

PrIdle == [pc |-> "idle"]

\* Two accounts may share an address: see Registration.
PrInit ==
    /\ row \in [PrUsers -> {Present(a) : a \in PrAddresses}]
    /\ outbox = {} /\ links = {}
    /\ prReq = [r \in PrRequests |-> PrIdle]
    /\ cmd = [c \in Commands |-> PrIdle]
    /\ pr = [used |-> {},          \* tokens that have changed a password
             twice |-> {},         \* tokens that have changed it more than once
             crossed |-> FALSE,    \* a confirmation was saved over a newer hash
             erased |-> {}]        \* users erased by a command

PrDone(r) == prReq' = [prReq EXCEPT ![r] = PrIdle]

-----------------------------------------------------------------------------
(* POST /auth/password/reset/: PasswordResetService.request_reset *)

\* The rows that get(email) finds.  None is silent; several raise
\* MultipleObjectsReturned, and no mail goes out.
Holders(a) == {u \in PrUsers : row[u].there /\ row[u].email = a}

\* A token is made from the row and its mail task is enqueued.
EnqueueResetMail(u) ==
    /\ outbox' = outbox \cup {TokenOf(u)}
    /\ Cardinality(outbox' \cup links) <= MaxMails

RequestReset(a) ==
    /\ \E u \in PrUsers : Holders(a) = {u} /\ EnqueueResetMail(u)
    /\ UNCHANGED <<row, links, prReq, cmd, pr>>

\* send_password_reset_email: the mail goes out.  The task stays enqueued when it
\* raises, or its worker is lost, after the server has taken the mail.
SendResetMail(t) ==
    /\ t \in outbox
    /\ links' = links \cup {t}
    /\ outbox' \in {outbox, outbox \ {t}}
    /\ UNCHANGED <<row, prReq, cmd, pr>>

\* The last retry has failed.
ResetMailFails(t) ==
    /\ t \in outbox
    /\ outbox' = outbox \ {t}
    /\ UNCHANGED <<row, links, prReq, cmd, pr>>

\* PASSWORD_RESET_TIMEOUT has passed.
LinkExpires(t) ==
    /\ links' = links \ {t} /\ t \in links
    /\ UNCHANGED <<row, outbox, prReq, cmd, pr>>

-----------------------------------------------------------------------------
(* POST /auth/password/reset/confirm/: PasswordResetService.confirm_reset *)

\* Mutant: the token's hash is not compared, only its user and address.
ConfirmReadAnyHash(r, t) ==
    /\ prReq[r].pc = "idle" /\ t \in links
    /\ row[t.user].there /\ t.email = row[t.user].email
    /\ prReq' = [prReq EXCEPT ![r] = [pc |-> "save", token |-> t, copy |-> row[t.user]]]
    /\ UNCHANGED <<row, outbox, links, cmd, pr>>

\* The row is read and check_token compares the token with it.
ConfirmRead(r, t) ==
    /\ prReq[r].pc = "idle" /\ t \in links
    /\ row[t.user].there /\ t = TokenOf(t.user)
    /\ prReq' = [prReq EXCEPT ![r] = [pc |-> "save", token |-> t, copy |-> row[t.user]]]
    /\ UNCHANGED <<row, outbox, links, cmd, pr>>

Confirmed(r) ==
    LET t == prReq[r].token IN
    pr' = [pr EXCEPT !.used = @ \cup {t},
                     !.twice = IF t \in pr.used THEN @ \cup {t} ELSE @,
                     !.crossed = @ \/ row[t.user].hash # prReq[r].copy.hash]

\* Mutant: save without update_fields.
ConfirmSaveAll(r) ==
    LET u == prReq[r].token.user IN
    /\ prReq[r].pc = "save"
    /\ IF row[u].there
       THEN /\ row[u].hash < MaxHash
            /\ row' = [row EXCEPT ![u] = [prReq[r].copy EXCEPT !.hash = row[u].hash + 1,
                                                              !.usable = TRUE]]
            /\ Confirmed(r)
       ELSE UNCHANGED <<row, pr>>
    /\ PrDone(r)
    /\ UNCHANGED <<outbox, links, cmd>>

\* save(update_fields=["password"]), whatever the row holds by now; an error when
\* it is gone.
ConfirmSave(r) ==
    LET u == prReq[r].token.user IN
    /\ prReq[r].pc = "save"
    /\ IF row[u].there
       THEN /\ row[u].hash < MaxHash
            /\ row' = [row EXCEPT ![u].hash = @ + 1, ![u].usable = TRUE]
            /\ Confirmed(r)
       ELSE UNCHANGED <<row, pr>>
    /\ PrDone(r)
    /\ UNCHANGED <<outbox, links, cmd>>

\* The password is too weak, a call raises, or the request is killed.
ConfirmFails(r) ==
    /\ prReq[r].pc # "idle"
    /\ PrDone(r)
    /\ UNCHANGED <<row, outbox, links, cmd, pr>>

-----------------------------------------------------------------------------
(* manage.py delete_user_data *)

\* The user is read, then the operator is asked.
CommandRead(c, u, mode) ==
    /\ cmd[c].pc = "idle" /\ row[u].there
    /\ cmd' = [cmd EXCEPT ![c] = [pc |-> "confirm", user |-> u, mode |-> mode]]
    /\ UNCHANGED <<row, outbox, links, prReq, pr>>

CommandAborts(c) ==
    /\ cmd[c].pc = "confirm"
    /\ cmd' = [cmd EXCEPT ![c] = PrIdle]
    /\ UNCHANGED <<row, outbox, links, prReq, pr>>

\* GDPRService.anonymize: the fields saved are those of the identity and the
\* password.  The transaction fails when the row is gone.
Anonymize(c) ==
    LET u == cmd[c].user IN
    /\ cmd[c].pc = "confirm" /\ cmd[c].mode = "anonymize"
    /\ row[u].there => row[u].hash < MaxHash
    /\ IF row[u].there
       THEN /\ row' = [row EXCEPT ![u] = [there |-> TRUE, email |-> Placeholder, hash |-> @.hash + 1,
                                          usable |-> FALSE, active |-> FALSE]]
            /\ pr' = [pr EXCEPT !.erased = @ \cup {u}]
       ELSE UNCHANGED <<row, pr>>
    /\ cmd' = [cmd EXCEPT ![c] = PrIdle]
    /\ UNCHANGED <<outbox, links, prReq>>

\* GDPRService.hard_delete: nothing is left to delete when the row is gone.
HardDelete(c) ==
    LET u == cmd[c].user IN
    /\ cmd[c].pc = "confirm" /\ cmd[c].mode = "hard_delete"
    /\ row' = [row EXCEPT ![u] = Gone]
    /\ pr' = [pr EXCEPT !.erased = @ \cup {u}]
    /\ cmd' = [cmd EXCEPT ![c] = PrIdle]
    /\ UNCHANGED <<outbox, links, prReq>>

PasswordResetNext ==
    \/ \E a \in PrAddresses : RequestReset(a)
    \/ \E t \in outbox : SendResetMail(t) \/ ResetMailFails(t)
    \/ \E t \in links : LinkExpires(t)
    \/ \E r \in PrRequests :
          \/ \E t \in links : ConfirmRead(r, t)
          \/ ConfirmSave(r) \/ ConfirmFails(r)
    \/ \E c \in Commands :
          \/ \E u \in PrUsers, mode \in {"anonymize", "hard_delete"} : CommandRead(c, u, mode)
          \/ CommandAborts(c) \/ Anonymize(c) \/ HardDelete(c)

PasswordResetSpec == PrInit /\ [][PasswordResetNext]_prVars

-----------------------------------------------------------------------------
(* Properties *)

UserRow == [there : BOOLEAN, email : PrAddresses \cup {Placeholder}, hash : 0..MaxHash,
            usable : BOOLEAN, active : BOOLEAN]

\* The types of the variables.
PasswordResetTypeOK ==
    /\ row \in [PrUsers -> UserRow]
    /\ outbox \subseteq Tokens /\ links \subseteq Tokens
    /\ prReq \in [PrRequests -> {PrIdle} \cup [pc : {"save"}, token : Tokens, copy : UserRow]]
    /\ cmd \in [Commands -> {PrIdle} \cup
          [pc : {"confirm"}, user : PrUsers, mode : {"anonymize", "hard_delete"}]]
    /\ pr \in [used : SUBSET Tokens, twice : SUBSET Tokens, crossed : BOOLEAN, erased : SUBSET PrUsers]
    /\ pr.twice \subseteq pr.used

\* "The token is single-use": one token changes the password twice only when two
\* confirmations had both checked it before either saved.
TokenOnce == pr.twice # {} => pr.crossed

\* An erased account stays erased: confirmations and commands that had read the
\* row before bring back neither its address nor its access.
ErasedStaysErased ==
    \A u \in pr.erased : ~row[u].active /\ row[u].email = Placeholder
=============================================================================
