------------------------------ MODULE TwoFactor ------------------------------
(***************************************************************************)
(* Two-factor authentication of one account: its UserTOTP row               *)
(* (apps/authentication/models.py), the endpoints that write it             *)
(* (two_factor_views.py) and the sign-in that it gates (views.py,           *)
(* ThrottledTokenObtainPairView).                                           *)
(*                                                                          *)
(* A request reads the row once and works on that copy; other requests run  *)
(* between its reads and its writes.  A code is what the client sends: a    *)
(* secret stands for a current TOTP code of that secret.                    *)
(***************************************************************************)
EXTENDS Integers, FiniteSets

CONSTANTS
    TFRequests,    \* request threads; each serves one request after another
    Secrets,       \* bound: the secrets that setup may come to generate
    RowIds,        \* bound: the rows that may come to exist, one after another
    CodeNumbers,   \* the backup codes of a row are numbered
    SessionKeys,   \* bound: the session keys that sign-ins may come to hand out
    MaxResets,     \* bound: how often the password is changed
    NoSecret, NoRow, NoKey

VARIABLES
    totp,       \* the UserTOTP row, or NoTotp
    account,    \* the User row: active, inactive (anonymised), or deleted
    pw,         \* the number of the current password
    keys,       \* the cache: the session keys that are alive
    tfReq,      \* each request: how far it is and the copy it holds
    made,       \* the secrets, row ids and session keys generated so far
    tf          \* history, for the properties only

tfVars == <<totp, account, pw, keys, tfReq, made, tf>>

ASSUME TwoFactorAssumption ==
    /\ MaxResets \in Nat
    /\ NoSecret \notin Secrets /\ NoRow \notin RowIds /\ NoKey \notin SessionKeys

BackupCodes == RowIds \X CodeNumbers

NoTotp == [id |-> NoRow, secret |-> NoSecret, enabled |-> FALSE, codes |-> {}]

TFIdle == [pc |-> "idle", copy |-> NoTotp, code |-> NoSecret, key |-> NoKey,
           pw |-> 0, live |-> TRUE, held |-> FALSE]

TFInit ==
    /\ totp = NoTotp
    /\ account = "active"
    /\ pw = 0
    /\ keys = {}
    /\ tfReq = [r \in TFRequests |-> TFIdle]
    /\ made = {}
    /\ tf = [spent |-> [c \in BackupCodes |-> 0],   \* how often each code was accepted
             lost |-> FALSE,        \* a code was saved over a newer list of codes
             shown |-> FALSE,       \* enable has seen a code of the row's secret
             crossed |-> FALSE,     \* enable was saved over another secret
             overrun |-> {},        \* secrets in use that a setup replaced
             byPassword |-> {},     \* pairs given on a password while two-factor was on
             pairs |-> [k \in SessionKeys |-> 0],   \* token pairs given for each key
             shared |-> {}]         \* keys that two requests held at once

-----------------------------------------------------------------------------
TFAt(r, pc) == tfReq[r].pc = pc
TFGoto(r, pc) == tfReq' = [tfReq EXCEPT ![r].pc = pc]
TFDone(r) == tfReq' = [tfReq EXCEPT ![r] = TFIdle]

On == totp.enabled

\* A request arrives; held stays true for as long as two-factor is on.
TFBegin(r, new) == tfReq' = [tfReq EXCEPT ![r] = [new EXCEPT !.held = On]]

\* Two-factor is off after this step: no request under way was held throughout.
NotHeld(reqs, off) ==
    [r \in TFRequests |-> IF off THEN [reqs[r] EXCEPT !.held = FALSE] ELSE reqs[r]]

\* pyotp.TOTP(secret).verify
ValidTotp(copy, code) == copy.secret = code

-----------------------------------------------------------------------------
(* GET /auth/2fa/setup/.  The user is authenticated and the row is read.   *)

\* Mutant: what was set up before is not looked at.
SetupReadUnchecked(r) ==
    /\ TFAt(r, "idle") /\ account = "active"
    /\ TFBegin(r, [TFIdle EXCEPT !.pc = "setup_write"])
    /\ UNCHANGED <<totp, account, pw, keys, made, tf>>

SetupRead(r) ==
    /\ TFAt(r, "idle") /\ account = "active" /\ ~On
    /\ TFBegin(r, [TFIdle EXCEPT !.pc = "setup_write"])
    /\ UNCHANGED <<totp, account, pw, keys, made, tf>>

\* Mutant: the upsert leaves is_enabled as it is.
SetupWriteKeepsEnabled(r, s, id) ==
    /\ TFAt(r, "setup_write") /\ account # "deleted"
    /\ s \notin made /\ (totp = NoTotp => id \notin made)
    /\ totp' = IF totp = NoTotp
               THEN [id |-> id, secret |-> s, enabled |-> FALSE, codes |-> {id} \X CodeNumbers]
               ELSE [totp EXCEPT !.secret = s]
    /\ made' = made \cup {s} \cup (IF totp = NoTotp THEN {id} ELSE {})
    /\ tf' = [tf EXCEPT !.shown = FALSE, !.overrun = IF On THEN @ \cup {totp.secret} ELSE @]
    /\ TFDone(r)
    /\ UNCHANGED <<account, pw, keys>>

\* update_or_create, whatever the row holds by now: a new row gets new backup
\* codes, an existing one keeps its own.
SetupWrite(r, s, id) ==
    /\ TFAt(r, "setup_write") /\ account # "deleted"
    /\ s \notin made /\ (totp = NoTotp => id \notin made)
    /\ totp' = IF totp = NoTotp
               THEN [id |-> id, secret |-> s, enabled |-> FALSE, codes |-> {id} \X CodeNumbers]
               ELSE [totp EXCEPT !.secret = s, !.enabled = FALSE]
    /\ made' = made \cup {s} \cup (IF totp = NoTotp THEN {id} ELSE {})
    /\ tf' = [tf EXCEPT !.shown = FALSE, !.overrun = IF On THEN @ \cup {totp.secret} ELSE @]
    /\ tfReq' = NotHeld([tfReq EXCEPT ![r] = TFIdle], TRUE)
    /\ UNCHANGED <<account, pw, keys>>

-----------------------------------------------------------------------------
(* POST /auth/2fa/enable/ *)

\* There is a row, it is not enabled, and the code is one of its secret.
EnableRead(r, code) ==
    /\ TFAt(r, "idle") /\ account = "active"
    /\ totp # NoTotp /\ ~On /\ ValidTotp(totp, code)
    /\ TFBegin(r, [TFIdle EXCEPT !.pc = "enable_write", !.copy = totp])
    /\ tf' = [tf EXCEPT !.shown = TRUE]
    /\ UNCHANGED <<totp, account, pw, keys, made>>

\* save(update_fields=["is_enabled", ...]) on the id that was read; an error
\* when the row is gone.
EnableWrite(r) ==
    /\ TFAt(r, "enable_write")
    /\ IF totp.id = tfReq[r].copy.id
       THEN /\ totp' = [totp EXCEPT !.enabled = TRUE]
            /\ tf' = [tf EXCEPT !.crossed = @ \/ totp.secret # tfReq[r].copy.secret]
       ELSE UNCHANGED <<totp, tf>>
    /\ TFDone(r)
    /\ UNCHANGED <<account, pw, keys, made>>

-----------------------------------------------------------------------------
(* UserTOTP.use_backup_code, for the two endpoints that take backup codes  *)

\* Mutant: save without "backup_codes" among its fields.
UseCodeForgets(r, next) ==
    /\ IF totp.id = tfReq[r].copy.id
       THEN /\ tf' = [tf EXCEPT !.spent[tfReq[r].code] = IF @ < 2 THEN @ + 1 ELSE @]
            /\ TFGoto(r, next)
       ELSE TFDone(r) /\ UNCHANGED tf
    /\ UNCHANGED <<totp, account, pw, keys, made>>

\* The list read, less this code, is saved over the row's; an error when the
\* row is gone.
UseCode(r, next) ==
    LET copy == tfReq[r].copy  c == tfReq[r].code IN
    /\ IF totp.id = copy.id
       THEN /\ totp' = [totp EXCEPT !.codes = copy.codes \ {c}]
            /\ tf' = [tf EXCEPT !.spent[c] = IF @ < 2 THEN @ + 1 ELSE @,
                                !.lost = @ \/ totp.codes # copy.codes]
            /\ TFGoto(r, next)
       ELSE TFDone(r) /\ UNCHANGED <<totp, tf>>
    /\ UNCHANGED <<account, pw, keys, made>>

-----------------------------------------------------------------------------
(* POST /auth/2fa/disable/ *)

\* Two-factor is on and the code is valid; a backup code is used up first.
DisableRead(r, code) ==
    /\ TFAt(r, "idle") /\ account = "active" /\ On
    /\ \/ ValidTotp(totp, code) /\ TFBegin(r, [TFIdle EXCEPT !.pc = "disable_delete",
                                                   !.copy = totp, !.code = code])
       \/ code \in totp.codes /\ TFBegin(r, [TFIdle EXCEPT !.pc = "disable_use",
                                                 !.copy = totp, !.code = code])
    /\ UNCHANGED <<totp, account, pw, keys, made, tf>>

DisableUse(r) == TFAt(r, "disable_use") /\ UseCode(r, "disable_delete")

\* delete by id: nothing when the row is gone.
DisableDelete(r) ==
    LET mine == totp.id = tfReq[r].copy.id IN
    /\ TFAt(r, "disable_delete")
    /\ totp' = IF mine THEN NoTotp ELSE totp
    /\ tfReq' = NotHeld([tfReq EXCEPT ![r] = TFIdle], mine)
    /\ UNCHANGED <<account, pw, keys, made, tf>>

-----------------------------------------------------------------------------
(* POST /auth/token/: ThrottledTokenObtainPairView.post *)

\* The password is right: simplejwt makes a token pair, not yet given out.
LoginBegin(r) ==
    /\ TFAt(r, "idle") /\ account = "active"
    /\ TFBegin(r, [TFIdle EXCEPT !.pc = "login_again", !.pw = pw])
    /\ UNCHANGED <<totp, account, pw, keys, made, tf>>

\* The password that the request sent, and its user, are still good.
StillGood(r) == account = "active" /\ pw = tfReq[r].pw

GiveOnPassword(r) ==
    /\ tf' = IF tfReq[r].held
             THEN [tf EXCEPT !.byPassword = @ \cup {IF StillGood(r) THEN "still good" ELSE "replaced"}]
             ELSE tf
    /\ TFDone(r)

\* The password is checked again, to learn who the user is.  If it is no longer
\* good, the exception is swallowed and the pair made before is given out.
LoginAgain(r) ==
    /\ TFAt(r, "login_again")
    /\ IF StillGood(r)
       THEN TFGoto(r, "login_read") /\ UNCHANGED tf
       ELSE GiveOnPassword(r)
    /\ UNCHANGED <<totp, account, pw, keys, made>>

\* Mutant: the session key is only handed out when the user has backup codes left.
LoginReadCodesLeft(r, k) ==
    /\ TFAt(r, "login_read") /\ k \notin made
    /\ IF On /\ totp.codes # {}
       THEN keys' = keys \cup {k} /\ made' = made \cup {k} /\ TFDone(r) /\ UNCHANGED tf
       ELSE GiveOnPassword(r) /\ UNCHANGED <<keys, made>>
    /\ UNCHANGED <<totp, account, pw>>

\* The row is read: a session key if two-factor is on, the token pair if not.
LoginRead(r, k) ==
    /\ TFAt(r, "login_read") /\ k \notin made
    /\ IF On
       THEN keys' = keys \cup {k} /\ made' = made \cup {k} /\ TFDone(r) /\ UNCHANGED tf
       ELSE GiveOnPassword(r) /\ UNCHANGED <<keys, made>>
    /\ UNCHANGED <<totp, account, pw>>

-----------------------------------------------------------------------------
(* POST /auth/2fa/complete/ *)

\* The key is in the cache.
CompleteBegin(r, k, code) ==
    /\ TFAt(r, "idle") /\ k \in keys
    /\ TFBegin(r, [TFIdle EXCEPT !.pc = "complete_read", !.key = k, !.code = code])
    /\ tf' = IF \E q \in TFRequests : tfReq[q].key = k
             THEN [tf EXCEPT !.shared = @ \cup {k}] ELSE tf
    /\ UNCHANGED <<totp, account, pw, keys, made>>

\* The user and the row are read.  The user is not asked to be active here.
CompleteRead(r) ==
    LET code == tfReq[r].code
        Hold(pc, copy) == tfReq' = [tfReq EXCEPT ![r].pc = pc, ![r].copy = copy,
                                                 ![r].live = account = "active"]
    IN
    /\ TFAt(r, "complete_read")
    /\ \/ account = "deleted" /\ TFDone(r) /\ UNCHANGED keys
       \/ account # "deleted" /\ ~On /\ TFDone(r) /\ keys' = keys \ {tfReq[r].key}
       \/ /\ account # "deleted" /\ On
          /\ IF ValidTotp(totp, code) THEN Hold("complete_grant", NoTotp)
             ELSE IF code \in totp.codes THEN Hold("complete_use", totp) ELSE TFDone(r)
          /\ UNCHANGED keys
    /\ UNCHANGED <<totp, account, pw, made, tf>>

CompleteUse(r) == TFAt(r, "complete_use") /\ UseCode(r, "complete_grant")

\* Mutant: the key stays in the cache.
CompleteGrantKeepsKey(r) ==
    /\ TFAt(r, "complete_grant")
    /\ tf' = [tf EXCEPT !.pairs[tfReq[r].key] = IF @ < 2 THEN @ + 1 ELSE @]
    /\ TFDone(r)
    /\ UNCHANGED <<totp, account, pw, keys, made>>

\* The key is deleted, then the pair made: RefreshToken.for_user refuses a user
\* that was read inactive, and the token's row a user that is gone.
CompleteGrant(r) ==
    LET k == tfReq[r].key IN
    /\ TFAt(r, "complete_grant")
    /\ keys' = keys \ {k}
    /\ tf' = IF tfReq[r].live /\ account # "deleted"
             THEN [tf EXCEPT !.pairs[k] = IF @ < 2 THEN @ + 1 ELSE @] ELSE tf
    /\ TFDone(r)
    /\ UNCHANGED <<totp, account, pw, made>>

-----------------------------------------------------------------------------
(* What else happens to the account *)

\* _CACHE_TTL runs out, or the cache evicts the key.
KeyExpires(k) ==
    /\ k \in keys
    /\ keys' = keys \ {k}
    /\ UNCHANGED <<totp, account, pw, tfReq, made, tf>>

ChangePassword ==
    /\ account = "active" /\ pw < MaxResets
    /\ pw' = pw + 1
    /\ UNCHANGED <<totp, account, keys, tfReq, made, tf>>

\* GDPRService.anonymize keeps the row; hard_delete takes it along.
Erase(status) ==
    /\ account # "deleted" /\ account' = status
    /\ totp' = IF status = "deleted" THEN NoTotp ELSE totp
    /\ tfReq' = NotHeld(tfReq, status = "deleted")
    /\ UNCHANGED <<pw, keys, made, tf>>

\* A request is killed, or one of its calls raises.
TFCrash(r) ==
    /\ ~TFAt(r, "idle")
    /\ TFDone(r)
    /\ UNCHANGED <<totp, account, pw, keys, made, tf>>

TFCodes == Secrets \cup BackupCodes

TwoFactorNext ==
    \/ \E r \in TFRequests :
          \/ SetupRead(r) \/ EnableWrite(r)
          \/ \E s \in Secrets, id \in RowIds : SetupWrite(r, s, id)
          \/ \E code \in TFCodes :
                \/ EnableRead(r, code) \/ DisableRead(r, code)
                \/ \E k \in SessionKeys : CompleteBegin(r, k, code)
          \/ DisableUse(r) \/ DisableDelete(r)
          \/ LoginBegin(r) \/ LoginAgain(r)
          \/ \E k \in SessionKeys : LoginRead(r, k)
          \/ CompleteRead(r) \/ CompleteUse(r) \/ CompleteGrant(r)
          \/ TFCrash(r)
    \/ \E k \in SessionKeys : KeyExpires(k)
    \/ ChangePassword
    \/ \E status \in {"inactive", "deleted"} : Erase(status)

TwoFactorSpec == TFInit /\ [][TwoFactorNext]_tfVars

-----------------------------------------------------------------------------
(* Properties *)

TotpRow == [id : RowIds \cup {NoRow}, secret : Secrets \cup {NoSecret}, enabled : BOOLEAN,
            codes : SUBSET BackupCodes]

TFRequest ==
    [pc : {"idle", "setup_write", "enable_write", "disable_use", "disable_delete", "login_again",
           "login_read", "complete_read", "complete_use", "complete_grant"},
     copy : TotpRow, code : TFCodes \cup {NoSecret}, key : SessionKeys \cup {NoKey},
     pw : 0..MaxResets, live : BOOLEAN, held : BOOLEAN]

TFHistory ==
    [spent : [BackupCodes -> 0..2], lost : BOOLEAN, shown : BOOLEAN, crossed : BOOLEAN,
     overrun : SUBSET Secrets, byPassword : SUBSET {"still good", "replaced"}, pairs : [SessionKeys -> 0..2],
     shared : SUBSET SessionKeys]

\* The types of the variables.
TwoFactorTypeOK ==
    /\ totp \in TotpRow /\ (totp.id = NoRow => totp = NoTotp)
    /\ account \in {"active", "inactive", "deleted"}
    /\ pw \in 0..MaxResets
    /\ keys \subseteq SessionKeys /\ made \subseteq Secrets \cup RowIds \cup SessionKeys
    /\ tfReq \in [TFRequests -> TFRequest]
    /\ tf \in TFHistory

\* A backup code ("each is single-use") is accepted a second time only if two
\* requests used codes from copies of the list that had crossed: the second save
\* puts back what the first had taken out.
CodesOnce == (\E c \in BackupCodes : tf.spent[c] > 1) => tf.lost

\* Two-factor is on only with a secret of which the user has shown a code, unless
\* a setup came between the reading and the saving of an enable.
SecretVerified == On => tf.shown \/ tf.crossed

\* A sign-in during which two-factor is on throughout is never answered with
\* tokens on the password alone, unless the password (or the account) went while
\* it was checked twice.
NotOnPasswordAlone == "still good" \notin tf.byPassword

\* The step is the last of request r, from pc.
Ends(r, pc) == TFAt(r, pc) /\ tfReq'[r] = TFIdle

\* The code that request r was let in with is one of the secret in use now, or a backup
\* code of the row that was accepted.
HoldsCode(r) ==
    \/ ValidTotp(totp, tfReq[r].code)
    \/ tfReq[r].code \in {totp.id} \X CodeNumbers /\ tf.spent[tfReq[r].code] > 0

\* A secret in use goes with the account, or by the write of a setup that read the row
\* before two-factor was on, or by the delete of a disable that holds a code of that very
\* secret: unless such a setup had replaced, meanwhile, the one whose code it holds.
FactorKept ==
    [][On /\ ~(totp'.enabled /\ totp'.secret = totp.secret) =>
          \/ account' = "deleted"
          \/ \E r \in TFRequests :
                \/ Ends(r, "setup_write") /\ ~tfReq[r].held
                \/ /\ Ends(r, "disable_delete")
                   /\ \/ HoldsCode(r)
                      \/ /\ ValidTotp(tfReq[r].copy, tfReq[r].code)
                         /\ tfReq[r].copy.secret \in tf.overrun]_tfVars

\* A session key gives one token pair, unless two requests held it at once.
KeysOnce == \A k \in SessionKeys : tf.pairs[k] > 1 => k \in tf.shared
=============================================================================
