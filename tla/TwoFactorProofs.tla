--------------------------- MODULE TwoFactorProofs ---------------------------
(***************************************************************************)
(* Proofs about TwoFactor, for any requests, secrets, rows, codes, keys and *)
(* number of password changes.                                              *)
(***************************************************************************)
EXTENDS TwoFactor, TLAPS

\* What holds of a request's record x, whatever the others have done since it read:
\* with the row, the values generated so far and the history.
Sound(x, row, gen, hist) ==
    /\ x \in TFRequest
    /\ x.held => row.enabled
    /\ x.pc = "setup_write" => ~x.held
    /\ x.key \in gen \cup {NoKey}
    /\ x.copy.id \in gen \cup {NoRow} /\ x.copy.secret \in gen \cup {NoSecret}
    /\ \A c \in x.copy.codes : c[1] = x.copy.id /\ x.copy.id # NoRow
    /\ x.pc = "enable_write" =>
          /\ x.copy.id # NoRow /\ x.copy.secret # NoSecret
          /\ x.copy.id = row.id /\ x.copy.secret = row.secret => hist.shown
    /\ x.pc \in {"disable_use", "complete_use"} => x.code \in x.copy.codes
    /\ x.pc \in {"disable_use", "disable_delete"} =>
          /\ x.copy.id # NoRow
          /\ x.copy.id = row.id => \/ x.copy.secret \in hist.overrun
                                   \/ x.copy.secret = row.secret /\ row.enabled
    /\ x.pc = "disable_delete" =>
          \/ ValidTotp(x.copy, x.code)
          \/ x.code \in BackupCodes /\ x.code[1] = x.copy.id /\ hist.spent[x.code] > 0

RequestsSound == \A r \in TFRequests : Sound(tfReq[r], totp, made, tf)

\* What holds of the row: its codes are its own, and none has been accepted unless
\* a code was saved over a newer list.
RowSound ==
    /\ totp.id \in made \cup {NoRow} /\ totp.secret \in made \cup {NoSecret}
    /\ totp.id # NoRow => totp.secret # NoSecret
    /\ \A c \in totp.codes : c[1] = totp.id /\ totp.id # NoRow
    /\ \A c \in BackupCodes : tf.spent[c] > 0 => c[1] \in made
    /\ ~tf.lost => \A c \in totp.codes : tf.spent[c] = 0

\* A key that has given tokens is gone, and unless it was shared nobody holds it.
KeySound ==
    /\ keys \subseteq made
    /\ \A k \in SessionKeys :
          /\ tf.pairs[k] > 0 => k \in made /\ k \notin keys
          /\ k \notin tf.shared =>
                /\ \A q, r \in TFRequests : tfReq[q].key = k /\ tfReq[r].key = k => q = r
                /\ tf.pairs[k] > 0 => \A r \in TFRequests : tfReq[r].key # k

RowInv == RowSound /\ CodesOnce /\ SecretVerified /\ NotOnPasswordAlone
KeyInv == KeySound /\ KeysOnce

TwoFactorInv == TwoFactorTypeOK /\ RequestsSound /\ RowInv /\ KeyInv

-----------------------------------------------------------------------------
(* Facts about one request *)

\* The row that is not there has no secret and no codes.
LEMMA NoTotpFacts ==
    /\ NoTotp \in TotpRow /\ NoTotp.id = NoRow /\ NoTotp.secret = NoSecret
    /\ NoTotp.enabled = FALSE /\ NoTotp.codes = {}
  BY DEF NoTotp, TotpRow

\* A request that has ended holds no copy and no key.
LEMMA TFIdleFacts ==
    /\ TFIdle \in TFRequest /\ TFIdle.pc = "idle" /\ TFIdle.copy = NoTotp
    /\ TFIdle.key = NoKey /\ TFIdle.held = FALSE
  BY NoTotpFacts, TwoFactorAssumption DEF TFIdle, TFRequest

\* It relies on nothing.
LEMMA IdleSound == ASSUME NEW row, NEW gen, NEW hist PROVE Sound(TFIdle, row, gen, hist)
  BY NoTotpFacts, TFIdleFacts DEF Sound

\* A request stays sound while others write: the values generated and the uses of
\* codes only grow, a row gets an old secret back never, and a secret that a setup
\* takes out of use is noted.
LEMMA SoundKept ==
    ASSUME NEW x, NEW row, NEW gen, NEW hist, NEW row2, NEW gen2, NEW hist2,
           Sound(x, row, gen, hist), gen \subseteq gen2, x.held => row2.enabled,
           \A c \in BackupCodes : hist.spent[c] > 0 => hist2.spent[c] > 0,
           hist.overrun \subseteq hist2.overrun,
           \/ /\ row2.id = row.id /\ row2.secret = row.secret
              /\ (hist.shown => hist2.shown) /\ (row.enabled => row2.enabled)
           \/ /\ row2.secret \notin gen
              /\ row2.id \notin gen \/ (row2.id = row.id /\ (row.enabled => row.secret \in hist2.overrun))
           \/ row2.id = NoRow
    PROVE  Sound(x, row2, gen2, hist2)
<1>1. x.copy.id \in gen \cup {NoRow} /\ x.copy.secret \in gen \cup {NoSecret}
  BY DEF Sound
<1>2. ASSUME x.pc = "enable_write", x.copy.id = row2.id, x.copy.secret = row2.secret
      PROVE  hist2.shown
  BY <1>1, <1>2 DEF Sound
<1>3. ASSUME x.pc \in {"disable_use", "disable_delete"}
      PROVE  /\ x.copy.id # NoRow
             /\ x.copy.id = row2.id => \/ x.copy.secret \in hist2.overrun
                                       \/ x.copy.secret = row2.secret /\ row2.enabled
  <2>1. /\ x.copy.id # NoRow
        /\ x.copy.id = row.id => \/ x.copy.secret \in hist.overrun
                                 \/ x.copy.secret = row.secret /\ row.enabled
    BY <1>3 DEF Sound
  <2>2. CASE row2.id = row.id /\ row2.secret = row.secret /\ (row.enabled => row2.enabled)
    BY <2>1, <2>2
  <2>3. CASE row2.id \notin gen \/ row2.id = NoRow
    BY <1>1, <2>1, <2>3
  <2>4. CASE row2.id = row.id /\ (row.enabled => row.secret \in hist2.overrun)
    BY <2>1, <2>4
  <2> QED BY <2>2, <2>3, <2>4
<1>4. x.pc = "disable_delete" =>
         \/ ValidTotp(x.copy, x.code)
         \/ x.code \in BackupCodes /\ x.code[1] = x.copy.id /\ hist2.spent[x.code] > 0
  BY DEF Sound
<1>5. x.pc = "enable_write" =>
         /\ x.copy.id # NoRow /\ x.copy.secret # NoSecret
         /\ x.copy.id = row2.id /\ x.copy.secret = row2.secret => hist2.shown
  BY <1>2 DEF Sound
<1>6. /\ x \in TFRequest /\ (x.pc = "setup_write" => ~x.held)
      /\ x.key \in gen2 \cup {NoKey}
      /\ x.copy.id \in gen2 \cup {NoRow} /\ x.copy.secret \in gen2 \cup {NoSecret}
      /\ \A c \in x.copy.codes : c[1] = x.copy.id /\ x.copy.id # NoRow
      /\ x.pc \in {"disable_use", "complete_use"} => x.code \in x.copy.codes
  BY DEF Sound
<1> QED BY <1>3, <1>4, <1>5, <1>6 DEF Sound

\* A request that is no longer held relies on less.
LEMMA SoundCleared ==
    ASSUME NEW x, NEW row, NEW gen, NEW hist, Sound(x, row, gen, hist)
    PROVE  /\ Sound([x EXCEPT !.held = FALSE], row, gen, hist)
           /\ [x EXCEPT !.held = FALSE].held = FALSE
           /\ [x EXCEPT !.held = FALSE].key = x.key
<1> DEFINE y == [x EXCEPT !.held = FALSE]
<1>1. x \in TFRequest
  BY DEF Sound
<1>2. /\ y \in TFRequest /\ y.held = FALSE /\ y.pc = x.pc /\ y.copy = x.copy
      /\ y.code = x.code /\ y.key = x.key
  BY <1>1 DEF TFRequest
<1> HIDE DEF y
<1>3. Sound(y, row, gen, hist)
  BY <1>2 DEF Sound
<1> QED BY <1>2, <1>3 DEF y

\* One request moves to a sound record; two-factor is not switched off.
LEMMA TFRequestMoves ==
    ASSUME TwoFactorInv, NEW r \in TFRequests, NEW new,
           tfReq' = [tfReq EXCEPT ![r] = new], Sound(new, totp', made', tf'),
           made \subseteq made', totp.enabled => totp'.enabled,
           \A c \in BackupCodes : tf.spent[c] > 0 => tf'.spent[c] > 0, tf'.overrun = tf.overrun,
           totp'.id = totp.id /\ totp'.secret = totp.secret /\ (tf.shown => tf'.shown)
    PROVE  /\ RequestsSound'
           /\ tfReq' \in [TFRequests -> TFRequest]
<1>1. \A q \in TFRequests : Sound(tfReq'[q], totp', made', tf')
  <2> SUFFICES ASSUME NEW q \in TFRequests PROVE Sound(tfReq'[q], totp', made', tf')
    OBVIOUS
  <2>1. tfReq'[q] = IF q = r THEN new ELSE tfReq[q]
    BY DEF TwoFactorInv, TwoFactorTypeOK
  <2>2. Sound(tfReq[q], totp, made, tf)
    BY DEF TwoFactorInv, RequestsSound
  <2>3. tfReq[q].held => totp'.enabled
    BY <2>2 DEF Sound
  <2>4. Sound(tfReq[q], totp', made', tf')
    BY <2>2, <2>3, SoundKept
  <2> QED BY <2>1, <2>4
<1>2. new \in TFRequest
  BY DEF Sound
<1> QED BY <1>1, <1>2 DEF RequestsSound, TwoFactorInv, TwoFactorTypeOK

\* Requests move to sound records (base) and two-factor may be switched off.
LEMMA RequestsNotHeld ==
    ASSUME TwoFactorInv, NEW base \in [TFRequests -> TFRequest], NEW off \in BOOLEAN,
           tfReq' = NotHeld(base, off),
           \A q \in TFRequests : base[q] = TFIdle \/ base[q] = tfReq[q],
           made \subseteq made', tf'.spent = tf.spent, tf.overrun \subseteq tf'.overrun,
           IF off THEN \/ /\ totp'.secret \notin made
                          /\ \/ totp'.id \notin made
                             \/ totp'.id = totp.id /\ (totp.enabled => totp.secret \in tf'.overrun)
                       \/ totp'.id = NoRow
                  ELSE totp' = totp /\ tf'.shown = tf.shown
    PROVE  /\ RequestsSound'
           /\ tfReq' \in [TFRequests -> TFRequest]
           /\ \A q \in TFRequests : tfReq'[q].key \in {NoKey, tfReq[q].key}
<1>1. ASSUME NEW q \in TFRequests
      PROVE  Sound(tfReq'[q], totp', made', tf') /\ tfReq'[q].key \in {NoKey, tfReq[q].key}
  <2>1. Sound(tfReq[q], totp, made, tf)
    BY DEF TwoFactorInv, RequestsSound
  <2>2. Sound(base[q], totp, made, tf) /\ base[q].key \in {NoKey, tfReq[q].key}
    BY <2>1, IdleSound, TFIdleFacts
  <2>3. CASE ~off
    <3>1. tfReq'[q] = base[q] /\ (base[q].held => totp'.enabled)
      BY <2>2, <2>3 DEF NotHeld, Sound
    <3> QED BY <2>2, <2>3, <3>1, SoundKept
  <2>4. CASE off
    <3> DEFINE y == [base[q] EXCEPT !.held = FALSE]
    <3>1. tfReq'[q] = y
      BY <2>4 DEF NotHeld
    <3>2. Sound(y, totp, made, tf) /\ y.held = FALSE /\ y.key = base[q].key
      BY <2>2, SoundCleared
    <3> HIDE DEF y
    <3>3. Sound(y, totp', made', tf')
      <4>1. \A c \in BackupCodes : tf.spent[c] > 0 => tf'.spent[c] > 0
        OBVIOUS
      <4>2. \/ /\ totp'.secret \notin made
               /\ \/ totp'.id \notin made
                  \/ totp'.id = totp.id /\ (totp.enabled => totp.secret \in tf'.overrun)
            \/ totp'.id = NoRow
        BY <2>4
      <4> QED BY <3>2, <4>1, <4>2, SoundKept
    <3> QED BY <2>2, <3>1, <3>2, <3>3
  <2> QED BY <2>3, <2>4
<1>2. \A q \in TFRequests : tfReq'[q] \in TFRequest
  BY <1>1 DEF Sound
<1>3. tfReq' \in [TFRequests -> TFRequest]
  BY <1>2 DEF NotHeld
<1> QED BY <1>1, <1>3 DEF RequestsSound

\* Nobody comes to hold a key and no tokens are given for one.
LEMMA KeysKept ==
    ASSUME TwoFactorInv, \A q \in TFRequests : tfReq'[q].key \in {NoKey, tfReq[q].key},
           made \subseteq made', keys' \subseteq made', keys' \subseteq keys \cup (made' \ made),
           tf'.pairs = tf.pairs, tf'.shared = tf.shared
    PROVE  KeyInv'
<1>1. keys' \subseteq made'
  OBVIOUS
<1>2. KeysOnce'
  BY DEF TwoFactorInv, KeyInv, KeysOnce
<1>3. ASSUME NEW k \in SessionKeys
      PROVE  /\ tf'.pairs[k] > 0 => k \in made' /\ k \notin keys'
             /\ k \notin tf'.shared =>
                   /\ \A q, r \in TFRequests : tfReq'[q].key = k /\ tfReq'[r].key = k => q = r
                   /\ tf'.pairs[k] > 0 => \A r \in TFRequests : tfReq'[r].key # k
  <2>1. k # NoKey
    BY TwoFactorAssumption
  <2>2. \A q \in TFRequests : tfReq'[q].key = k => tfReq[q].key = k
    BY <2>1
  <2> QED BY <2>2 DEF TwoFactorInv, KeyInv, KeySound
<1> QED BY <1>1, <1>2, <1>3 DEF KeyInv, KeySound

-----------------------------------------------------------------------------
(* Steps that change neither the row nor the history *)

\* A step that writes no row keeps the invariant if the record it makes is sound.
LEMMA QuietMove ==
    ASSUME TwoFactorInv, NEW r \in TFRequests, NEW new,
           tfReq' = [tfReq EXCEPT ![r] = new], Sound(new, totp, made', tf),
           new.key \in {NoKey, tfReq[r].key},
           UNCHANGED <<totp, account, pw, tf>>,
           made \subseteq made', made' \subseteq Secrets \cup RowIds \cup SessionKeys,
           keys' \subseteq SessionKeys, keys' \subseteq made', keys' \subseteq keys \cup (made' \ made)
    PROVE  TwoFactorInv'
<1>1. RequestsSound' /\ tfReq' \in [TFRequests -> TFRequest]
  BY TFRequestMoves
<1>2. \A q \in TFRequests : tfReq'[q].key \in {NoKey, tfReq[q].key}
  BY DEF TwoFactorInv, TwoFactorTypeOK
<1>3. KeyInv'
  BY <1>2, KeysKept
<1>4. TwoFactorTypeOK'
  BY <1>1 DEF TwoFactorInv, TwoFactorTypeOK
<1>5. RowInv'
  BY DEF TwoFactorInv, RowInv, RowSound, CodesOnce, SecretVerified, On, NotOnPasswordAlone
<1> QED BY <1>1, <1>3, <1>4, <1>5 DEF TwoFactorInv

\* Keys that expire and a password that changes disturb no request.
LEMMA TFStillStep ==
    ASSUME TwoFactorInv, \/ \E k \in SessionKeys : KeyExpires(k)
                   \/ ChangePassword
                   \/ UNCHANGED tfVars
    PROVE  TwoFactorInv'
<1>1. /\ UNCHANGED <<totp, account, tfReq, made, tf>> /\ keys' \subseteq keys
      /\ pw' \in 0..MaxResets
  BY TwoFactorAssumption DEF KeyExpires, ChangePassword, tfVars, TwoFactorInv, TwoFactorTypeOK
<1>2. KeyInv'
  BY <1>1 DEF TwoFactorInv, KeyInv, KeySound, KeysOnce
<1>3. TwoFactorTypeOK'
  BY <1>1 DEF TwoFactorInv, TwoFactorTypeOK
<1>4. RequestsSound'
  BY <1>1 DEF TwoFactorInv, RequestsSound
<1>5. RowInv'
  BY <1>1 DEF TwoFactorInv, RowInv, RowSound, CodesOnce, SecretVerified, On, NotOnPasswordAlone
<1> QED BY <1>2, <1>3, <1>4, <1>5 DEF TwoFactorInv

\* A request that dies leaves the row as it is.
LEMMA TFCrashStep == ASSUME TwoFactorInv, NEW r \in TFRequests, TFCrash(r) PROVE TwoFactorInv'
<1>1. tfReq' = [tfReq EXCEPT ![r] = TFIdle] /\ UNCHANGED <<totp, account, pw, keys, made, tf>>
  BY DEF TFCrash, TFDone
<1> QED BY <1>1, IdleSound, TFIdleFacts, QuietMove DEF TwoFactorInv, TwoFactorTypeOK, KeyInv, KeySound

\* Marking a request as held changes nothing else of it.
LEMMA HeldSet ==
    ASSUME NEW x \in TFRequest, NEW h \in BOOLEAN
    PROVE  LET y == [x EXCEPT !.held = h] IN
           /\ y \in TFRequest /\ y.held = h /\ y.pc = x.pc /\ y.copy = x.copy
           /\ y.code = x.code /\ y.key = x.key
  BY DEF TFRequest

\* setup goes on when it has read that two-factor is off.
LEMMA SetupReadStep == ASSUME TwoFactorInv, NEW r \in TFRequests, SetupRead(r) PROVE TwoFactorInv'
<1> DEFINE x == [TFIdle EXCEPT !.pc = "setup_write"]
           new == [x EXCEPT !.held = On]
<1>1. x \in TFRequest /\ x.pc = "setup_write" /\ x.copy = NoTotp /\ x.key = NoKey
  BY TFIdleFacts DEF TFRequest
<1>2. tfReq' = [tfReq EXCEPT ![r] = new] /\ UNCHANGED <<totp, account, pw, keys, made, tf>> /\ ~On
  BY DEF SetupRead, TFBegin
<1>3. On \in BOOLEAN
  BY DEF On, TwoFactorInv, TwoFactorTypeOK, TotpRow
<1> HIDE DEF x
<1>4. new \in TFRequest /\ new.held = On /\ new.pc = "setup_write" /\ new.copy = NoTotp /\ new.key = NoKey
  BY <1>1, <1>3, HeldSet
<1> HIDE DEF new
<1>5. Sound(new, totp, made, tf)
  BY <1>2, <1>4, NoTotpFacts DEF Sound, On
<1> QED BY <1>2, <1>4, <1>5, QuietMove DEF TwoFactorInv, TwoFactorTypeOK, KeyInv, KeySound

\* disable goes on only with a code that is right for its copy.
LEMMA DisableReadStep ==
    ASSUME TwoFactorInv, NEW r \in TFRequests, NEW code \in TFCodes, DisableRead(r, code)
    PROVE  TwoFactorInv'
<1>1. PICK pc \in {"disable_delete", "disable_use"} :
        /\ TFBegin(r, [TFIdle EXCEPT !.pc = pc, !.copy = totp, !.code = code])
        /\ pc = "disable_delete" => ValidTotp(totp, code)
        /\ pc = "disable_use" => code \in totp.codes
  BY DEF DisableRead
<1> DEFINE x == [TFIdle EXCEPT !.pc = pc, !.copy = totp, !.code = code]
           new == [x EXCEPT !.held = On]
<1>2. x \in TFRequest /\ x.pc = pc /\ x.copy = totp /\ x.key = NoKey /\ x.code = code
  BY TFIdleFacts DEF TFRequest, TwoFactorInv, TwoFactorTypeOK
<1>3. tfReq' = [tfReq EXCEPT ![r] = new] /\ UNCHANGED <<totp, account, pw, keys, made, tf>> /\ On
  BY <1>1 DEF DisableRead, TFBegin
<1>4. On \in BOOLEAN
  BY DEF On, TwoFactorInv, TwoFactorTypeOK, TotpRow
<1> HIDE DEF x
<1>5. /\ new \in TFRequest /\ new.held = On /\ new.pc = pc /\ new.copy = totp
      /\ new.key = NoKey /\ new.code = code
  BY <1>2, <1>4, HeldSet
<1> HIDE DEF new
<1>6. totp.id # NoRow /\ totp.enabled
  BY <1>3, NoTotpFacts DEF On, TwoFactorInv, TwoFactorTypeOK
<1>7. Sound(new, totp, made, tf)
  BY <1>1, <1>5, <1>6 DEF Sound, TwoFactorInv, RowInv, RowSound
<1> QED BY <1>3, <1>5, <1>7, QuietMove DEF TwoFactorInv, TwoFactorTypeOK, KeyInv, KeySound

\* A sign-in begins with whether two-factor is on.
LEMMA LoginBeginStep == ASSUME TwoFactorInv, NEW r \in TFRequests, LoginBegin(r) PROVE TwoFactorInv'
<1> DEFINE x == [TFIdle EXCEPT !.pc = "login_again", !.pw = pw]
           new == [x EXCEPT !.held = On]
<1>1. x \in TFRequest /\ x.pc = "login_again" /\ x.copy = NoTotp /\ x.key = NoKey
  BY TFIdleFacts DEF TFRequest, TwoFactorInv, TwoFactorTypeOK
<1>2. tfReq' = [tfReq EXCEPT ![r] = new] /\ UNCHANGED <<totp, account, pw, keys, made, tf>>
  BY DEF LoginBegin, TFBegin
<1>3. On \in BOOLEAN
  BY DEF On, TwoFactorInv, TwoFactorTypeOK, TotpRow
<1> HIDE DEF x
<1>4. new \in TFRequest /\ new.held = On /\ new.pc = "login_again" /\ new.copy = NoTotp /\ new.key = NoKey
  BY <1>1, <1>3, HeldSet
<1> HIDE DEF new
<1>5. Sound(new, totp, made, tf)
  BY <1>4, NoTotpFacts DEF Sound, On
<1> QED BY <1>2, <1>4, <1>5, QuietMove DEF TwoFactorInv, TwoFactorTypeOK, KeyInv, KeySound

\* The completion reads the row and looks for its code there.
LEMMA CompleteReadStep == ASSUME TwoFactorInv, NEW r \in TFRequests, CompleteRead(r) PROVE TwoFactorInv'
<1> DEFINE x == tfReq[r]
<1>1. /\ UNCHANGED <<totp, account, pw, made, tf>> /\ keys' \subseteq keys
      /\ x \in TFRequest /\ Sound(x, totp, made, tf)
  BY DEF CompleteRead, TwoFactorInv, TwoFactorTypeOK, RequestsSound
<1>2. \/ tfReq' = [tfReq EXCEPT ![r] = TFIdle]
      \/ \E pc \in {"complete_grant", "complete_use"}, copy \in {NoTotp, totp}, live \in BOOLEAN :
            /\ tfReq' = [tfReq EXCEPT ![r] = [x EXCEPT !.pc = pc, !.copy = copy, !.live = live]]
            /\ pc = "complete_use" => copy = totp /\ x.code \in totp.codes
  <2> DEFINE Hold(pc, copy) == tfReq' = [tfReq EXCEPT ![r].pc = pc, ![r].copy = copy,
                                                      ![r].live = account = "active"]
  <2>1. ASSUME NEW pc, NEW copy, Hold(pc, copy)
        PROVE  tfReq' = [tfReq EXCEPT ![r] = [x EXCEPT !.pc = pc, !.copy = copy,
                                                       !.live = (account = "active")]]
    BY <1>1, <2>1 DEF TFRequest, TwoFactorInv, TwoFactorTypeOK
  <2>2. \/ tfReq' = [tfReq EXCEPT ![r] = TFIdle]
        \/ Hold("complete_grant", NoTotp)
        \/ Hold("complete_use", totp) /\ x.code \in totp.codes
    BY DEF CompleteRead, TFDone
  <2>3. (account = "active") \in BOOLEAN
    OBVIOUS
  <2>4. CASE Hold("complete_grant", NoTotp)
    <3> HIDE DEF Hold
    <3> QED BY <2>1, <2>3, <2>4
  <2>5. CASE Hold("complete_use", totp) /\ x.code \in totp.codes
    <3> DEFINE live == account = "active"
    <3>1. tfReq' = [tfReq EXCEPT ![r] = [x EXCEPT !.pc = "complete_use", !.copy = totp, !.live = live]]
      BY <2>1, <2>5
    <3>2. live \in BOOLEAN /\ x.code \in totp.codes
      BY <2>3, <2>5
    <3> HIDE DEF Hold, x, live
    <3> QED BY <3>1, <3>2
  <2> HIDE DEF Hold
  <2> QED BY <2>2, <2>4, <2>5
<1>3. CASE tfReq' = [tfReq EXCEPT ![r] = TFIdle]
  BY <1>1, <1>3, IdleSound, TFIdleFacts, QuietMove DEF TwoFactorInv, TwoFactorTypeOK, KeyInv, KeySound
<1>4. ASSUME NEW pc \in {"complete_grant", "complete_use"}, NEW copy \in {NoTotp, totp}, NEW live \in BOOLEAN,
             tfReq' = [tfReq EXCEPT ![r] = [x EXCEPT !.pc = pc, !.copy = copy, !.live = live]],
             pc = "complete_use" => copy = totp /\ x.code \in totp.codes
      PROVE  TwoFactorInv'
  <2> DEFINE new == [x EXCEPT !.pc = pc, !.copy = copy, !.live = live]
  <2>1. copy \in TotpRow
    BY NoTotpFacts DEF TwoFactorInv, TwoFactorTypeOK
  <2>2. /\ new \in TFRequest /\ new.pc = pc /\ new.copy = copy /\ new.key = x.key
        /\ new.code = x.code /\ new.held = x.held
    BY <1>1, <2>1 DEF TFRequest
  <2> HIDE DEF new
  <2>3. Sound(new, totp, made, tf)
    BY <1>1, <1>4, <2>2, NoTotpFacts DEF Sound, TwoFactorInv, RowInv, RowSound
  <2>4. tfReq' = [tfReq EXCEPT ![r] = new]
    BY <1>4 DEF new
  <2> QED BY <1>1, <2>2, <2>3, <2>4, QuietMove DEF TwoFactorInv, TwoFactorTypeOK, KeyInv, KeySound
<1> QED BY <1>2, <1>3, <1>4

-----------------------------------------------------------------------------
(* Sign-in: a request held by two-factor throughout finds it on *)

\* A request that moves on within its handler keeps what it holds.
LEMMA GotoFacts ==
    ASSUME TwoFactorInv, NEW r \in TFRequests, NEW pc \in {"login_read", "disable_delete", "complete_grant"},
           TFGoto(r, pc)
    PROVE  LET y == [tfReq[r] EXCEPT !.pc = pc] IN
           /\ tfReq' = [tfReq EXCEPT ![r] = y]
           /\ y \in TFRequest /\ y.held = tfReq[r].held /\ y.pc = pc /\ y.copy = tfReq[r].copy
           /\ y.code = tfReq[r].code /\ y.key = tfReq[r].key
  BY DEF TFGoto, TFRequest, TwoFactorInv, TwoFactorTypeOK

\* Tokens on the password alone go to a sign-in that is not held, or not good any more.
LEMMA GiveStep ==
    ASSUME TwoFactorInv, NEW r \in TFRequests, GiveOnPassword(r), tfReq[r].held => ~StillGood(r),
           UNCHANGED <<totp, account, pw, keys, made>>
    PROVE  TwoFactorInv'
<1>1. tfReq' = [tfReq EXCEPT ![r] = TFIdle]
  BY DEF GiveOnPassword, TFDone
<1>2. /\ tf' \in TFHistory /\ "still good" \notin tf'.byPassword
      /\ tf'.spent = tf.spent /\ tf'.lost = tf.lost /\ tf'.shown = tf.shown
      /\ tf'.crossed = tf.crossed /\ tf'.pairs = tf.pairs /\ tf'.shared = tf.shared
      /\ tf'.overrun = tf.overrun
  <2>1. CASE tfReq[r].held
    <3>1. tf' = [tf EXCEPT !.byPassword = tf.byPassword \cup {"replaced"}]
      BY <2>1 DEF GiveOnPassword, TwoFactorInv, TwoFactorTypeOK, TFHistory
    <3> QED BY <3>1 DEF TwoFactorInv, TwoFactorTypeOK, TFHistory, RowInv, NotOnPasswordAlone
  <2>2. CASE ~tfReq[r].held
    BY <2>2 DEF GiveOnPassword, TwoFactorInv, TwoFactorTypeOK, RowInv, NotOnPasswordAlone
  <2> QED BY <2>1, <2>2
<1>3. RequestsSound' /\ tfReq' \in [TFRequests -> TFRequest]
  BY <1>1, <1>2, IdleSound, TFRequestMoves
<1>4. \A q \in TFRequests : tfReq'[q].key \in {NoKey, tfReq[q].key}
  BY <1>1, TFIdleFacts DEF TwoFactorInv, TwoFactorTypeOK
<1>5. KeyInv'
  BY <1>2, <1>4, KeysKept DEF TwoFactorInv, KeyInv, KeySound
<1>6. TwoFactorTypeOK'
  BY <1>2, <1>3 DEF TwoFactorInv, TwoFactorTypeOK
<1>7. RowInv'
  BY <1>2 DEF TwoFactorInv, RowInv, RowSound, CodesOnce, SecretVerified, On, NotOnPasswordAlone
<1> QED BY <1>3, <1>5, <1>6, <1>7 DEF TwoFactorInv

\* The second check of the password passes, or raises and the first pair is given.
LEMMA LoginAgainStep == ASSUME TwoFactorInv, NEW r \in TFRequests, LoginAgain(r) PROVE TwoFactorInv'
<1>1. CASE StillGood(r)
  <2> DEFINE new == [tfReq[r] EXCEPT !.pc = "login_read"]
  <2>1. TFGoto(r, "login_read") /\ UNCHANGED <<totp, account, pw, keys, made, tf>>
    BY <1>1 DEF LoginAgain
  <2>2. /\ tfReq' = [tfReq EXCEPT ![r] = new]
        /\ new \in TFRequest /\ new.held = tfReq[r].held /\ new.pc = "login_read"
        /\ new.copy = tfReq[r].copy /\ new.code = tfReq[r].code /\ new.key = tfReq[r].key
    BY <2>1, GotoFacts
  <2> HIDE DEF new
  <2>3. Sound(new, totp, made, tf)
    BY <2>2 DEF Sound, TwoFactorInv, RequestsSound
  <2> QED BY <2>1, <2>2, <2>3, QuietMove DEF TwoFactorInv, TwoFactorTypeOK, KeyInv, KeySound
<1>2. CASE ~StillGood(r)
  BY <1>2, GiveStep DEF LoginAgain
<1> QED BY <1>1, <1>2

\* The view looks at the second factor, and gives tokens only if it is off.
LEMMA LoginReadStep ==
    ASSUME TwoFactorInv, NEW r \in TFRequests, NEW k \in SessionKeys, LoginRead(r, k)
    PROVE  TwoFactorInv'
<1>1. CASE On
  <2>1. /\ tfReq' = [tfReq EXCEPT ![r] = TFIdle] /\ UNCHANGED <<totp, account, pw, tf>>
        /\ k \notin made /\ keys' = keys \cup {k} /\ made' = made \cup {k}
    BY <1>1 DEF LoginRead, TFDone
  <2>2. /\ made \subseteq made' /\ made' \subseteq Secrets \cup RowIds \cup SessionKeys
        /\ keys' \subseteq SessionKeys /\ keys' \subseteq made' /\ keys' \subseteq keys \cup (made' \ made)
    BY <2>1 DEF TwoFactorInv, TwoFactorTypeOK, KeyInv, KeySound
  <2> QED BY <2>1, <2>2, IdleSound, TFIdleFacts, QuietMove
<1>2. CASE ~On
  <2>1. ~tfReq[r].held
    BY <1>2 DEF TwoFactorInv, RequestsSound, Sound, On
  <2> QED BY <1>2, <2>1, GiveStep DEF LoginRead
<1> QED BY <1>1, <1>2

-----------------------------------------------------------------------------
(* Enable *)

\* enable goes on with a code of its copy's secret.
LEMMA EnableReadStep ==
    ASSUME TwoFactorInv, NEW r \in TFRequests, NEW code \in TFCodes, EnableRead(r, code)
    PROVE  TwoFactorInv'
<1> DEFINE x == [TFIdle EXCEPT !.pc = "enable_write", !.copy = totp]
           new == [x EXCEPT !.held = On]
<1>1. x \in TFRequest /\ x.pc = "enable_write" /\ x.copy = totp /\ x.key = NoKey
  BY TFIdleFacts DEF TFRequest, TwoFactorInv, TwoFactorTypeOK
<1>2. /\ tfReq' = [tfReq EXCEPT ![r] = new] /\ UNCHANGED <<totp, account, pw, keys, made>>
      /\ totp.id # NoRow /\ tf' = [tf EXCEPT !.shown = TRUE]
  BY DEF EnableRead, TFBegin, TwoFactorInv, TwoFactorTypeOK
<1>3. On \in BOOLEAN
  BY DEF On, TwoFactorInv, TwoFactorTypeOK, TotpRow
<1> HIDE DEF x
<1>4. new \in TFRequest /\ new.held = On /\ new.pc = "enable_write" /\ new.copy = totp /\ new.key = NoKey
  BY <1>1, <1>3, HeldSet
<1> HIDE DEF new
<1>5. /\ tf' \in TFHistory /\ tf'.shown = TRUE /\ tf'.byPassword = tf.byPassword
      /\ tf'.spent = tf.spent /\ tf'.lost = tf.lost
      /\ tf'.crossed = tf.crossed /\ tf'.pairs = tf.pairs /\ tf'.shared = tf.shared
      /\ tf'.overrun = tf.overrun
  BY <1>2 DEF TwoFactorInv, TwoFactorTypeOK, TFHistory
<1>6. Sound(new, totp', made', tf')
  BY <1>2, <1>4, <1>5 DEF Sound, On, TwoFactorInv, RowInv, RowSound
<1>7. RequestsSound' /\ tfReq' \in [TFRequests -> TFRequest]
  BY <1>2, <1>5, <1>6, TFRequestMoves
<1>8. \A q \in TFRequests : tfReq'[q].key \in {NoKey, tfReq[q].key}
  BY <1>2, <1>4 DEF TwoFactorInv, TwoFactorTypeOK
<1>9. KeyInv'
  BY <1>2, <1>5, <1>8, KeysKept DEF TwoFactorInv, KeyInv, KeySound
<1>10. TwoFactorTypeOK'
  BY <1>2, <1>5, <1>7 DEF TwoFactorInv, TwoFactorTypeOK
<1>11. RowInv'
  BY <1>2, <1>5 DEF TwoFactorInv, RowInv, RowSound, CodesOnce, SecretVerified, On, NotOnPasswordAlone
<1> QED BY <1>7, <1>9, <1>10, <1>11 DEF TwoFactorInv

\* Enabling the copy's row; that its secret was replaced meanwhile is noted.
LEMMA EnableWriteStep == ASSUME TwoFactorInv, NEW r \in TFRequests, EnableWrite(r) PROVE TwoFactorInv'
<1>1. tfReq' = [tfReq EXCEPT ![r] = TFIdle] /\ UNCHANGED <<account, pw, keys, made>>
  BY DEF EnableWrite, TFDone
<1>2. CASE totp.id # tfReq[r].copy.id
  <2>1. UNCHANGED <<totp, tf>>
    BY <1>2 DEF EnableWrite
  <2> QED BY <1>1, <2>1, IdleSound, TFIdleFacts, QuietMove DEF TwoFactorInv, TwoFactorTypeOK, KeyInv, KeySound
<1>3. CASE totp.id = tfReq[r].copy.id
  <2>1. /\ totp' = [totp EXCEPT !.enabled = TRUE]
        /\ tf' = [tf EXCEPT !.crossed = tf.crossed \/ totp.secret # tfReq[r].copy.secret]
    BY <1>3 DEF EnableWrite, TwoFactorInv, TwoFactorTypeOK, TFHistory
  <2>2. /\ totp' \in TotpRow /\ totp'.id = totp.id /\ totp'.secret = totp.secret
        /\ totp'.codes = totp.codes /\ totp'.enabled
    BY <2>1 DEF TwoFactorInv, TwoFactorTypeOK, TotpRow
  <2>3. /\ tf' \in TFHistory /\ tf'.shown = tf.shown /\ tf'.byPassword = tf.byPassword
        /\ tf'.spent = tf.spent /\ tf'.lost = tf.lost /\ tf'.pairs = tf.pairs /\ tf'.shared = tf.shared
        /\ tf'.crossed = (tf.crossed \/ totp.secret # tfReq[r].copy.secret)
        /\ tf'.overrun = tf.overrun
    BY <2>1 DEF TwoFactorInv, TwoFactorTypeOK, TFHistory
  <2>4. totp.id # NoRow /\ (totp.secret = tfReq[r].copy.secret => tf.shown)
    BY <1>3 DEF EnableWrite, TFAt, TwoFactorInv, RequestsSound, Sound
  <2>5. RequestsSound' /\ tfReq' \in [TFRequests -> TFRequest]
    BY <1>1, <2>2, <2>3, IdleSound, TFRequestMoves
  <2>6. \A q \in TFRequests : tfReq'[q].key \in {NoKey, tfReq[q].key}
    BY <1>1, TFIdleFacts DEF TwoFactorInv, TwoFactorTypeOK
  <2>7. KeyInv'
    BY <1>1, <2>3, <2>6, KeysKept DEF TwoFactorInv, KeyInv, KeySound
  <2>8. TwoFactorTypeOK'
    BY <1>1, <2>2, <2>3, <2>4, <2>5 DEF TwoFactorInv, TwoFactorTypeOK
  <2>9. RowInv'
    BY <1>1, <2>2, <2>3, <2>4 DEF TwoFactorInv, RowInv, RowSound, CodesOnce, SecretVerified, On, NotOnPasswordAlone
  <2> QED BY <2>5, <2>7, <2>8, <2>9 DEF TwoFactorInv
<1> QED BY <1>2, <1>3

-----------------------------------------------------------------------------
(* Backup codes: unless the list had changed since it was read, the code was on *)
(* the row's own list, and so had never been accepted                           *)

\* use_backup_code spends a code of the copy, and saves a list without it.
LEMMA UseCodeStep ==
    ASSUME TwoFactorInv, NEW r \in TFRequests, NEW next \in {"disable_delete", "complete_grant"},
           tfReq[r].pc \in {"disable_use", "complete_use"}, UseCode(r, next),
           next = "disable_delete" => tfReq[r].pc = "disable_use"
    PROVE  TwoFactorInv'
<1> DEFINE x == tfReq[r]
           c == x.code
<1>1. UNCHANGED <<account, pw, keys, made>>
  BY DEF UseCode
<1>2. /\ x \in TFRequest /\ Sound(x, totp, made, tf)
      /\ c \in x.copy.codes /\ x.copy.codes \subseteq BackupCodes /\ c[1] = x.copy.id /\ x.copy.id # NoRow
  BY DEF TwoFactorInv, RequestsSound, Sound, TFRequest, TotpRow
<1>3. CASE totp.id # x.copy.id
  <2>1. UNCHANGED <<totp, tf>> /\ tfReq' = [tfReq EXCEPT ![r] = TFIdle]
    BY <1>3 DEF UseCode, TFDone
  <2> QED BY <1>1, <2>1, IdleSound, TFIdleFacts, QuietMove DEF TwoFactorInv, TwoFactorTypeOK, KeyInv, KeySound
<1>4. CASE totp.id = x.copy.id
  <2> DEFINE new == [x EXCEPT !.pc = next]
             n == IF tf.spent[c] < 2 THEN tf.spent[c] + 1 ELSE tf.spent[c]
  <2>1. /\ totp' = [totp EXCEPT !.codes = x.copy.codes \ {c}]
        /\ tf' = [tf EXCEPT !.spent[c] = IF @ < 2 THEN @ + 1 ELSE @,
                            !.lost = @ \/ totp.codes # x.copy.codes]
        /\ TFGoto(r, next)
    BY <1>4 DEF UseCode
  <2>2. /\ totp' \in TotpRow /\ totp'.id = totp.id /\ totp'.secret = totp.secret
        /\ totp'.codes = x.copy.codes \ {c} /\ totp'.enabled = totp.enabled
    BY <1>2, <2>1 DEF TwoFactorInv, TwoFactorTypeOK, TotpRow
  <2>3. tf \in TFHistory /\ tf.spent[c] \in 0..2 /\ c \in BackupCodes
    BY <1>2 DEF TwoFactorInv, TwoFactorTypeOK, TFHistory
  <2>4. /\ tf'.spent = [tf.spent EXCEPT ![c] = n] /\ n \in 1..2
        /\ tf'.lost = (tf.lost \/ totp.codes # x.copy.codes)
    <3>1. n \in 1..2
      BY <2>3
    <3>2. tf' = [tf EXCEPT !.spent = [tf.spent EXCEPT ![c] = n],
                           !.lost = (tf.lost \/ totp.codes # x.copy.codes)]
      BY <2>1
    <3> HIDE DEF n
    <3> QED BY <2>3, <3>1, <3>2 DEF TFHistory
  <2>5. /\ tf'.spent \in [BackupCodes -> 0..2] /\ tf'.spent[c] = n
        /\ \A d \in BackupCodes : d # c => tf'.spent[d] = tf.spent[d]
    <3>1. tf.spent \in [BackupCodes -> 0..2]
      BY <2>3 DEF TFHistory
    <3> HIDE DEF n
    <3> QED BY <2>3, <2>4, <3>1
  <2>6. /\ tf' \in TFHistory /\ tf'.shown = tf.shown /\ tf'.byPassword = tf.byPassword
        /\ tf'.crossed = tf.crossed /\ tf'.pairs = tf.pairs /\ tf'.shared = tf.shared
        /\ tf'.overrun = tf.overrun
    <3>1. /\ tf'.shown = tf.shown /\ tf'.byPassword = tf.byPassword
          /\ tf'.crossed = tf.crossed /\ tf'.pairs = tf.pairs /\ tf'.shared = tf.shared
          /\ tf'.overrun = tf.overrun
      BY <2>1, <2>3 DEF TFHistory
    <3>2. tf' = [tf EXCEPT !.spent = tf'.spent, !.lost = tf'.lost]
      BY <2>1, <2>3 DEF TFHistory
    <3> QED BY <2>3, <2>4, <2>5, <3>1, <3>2 DEF TFHistory
  <2>7. \A d \in BackupCodes : tf.spent[d] > 0 => tf'.spent[d] > 0
    BY <2>4, <2>5
  <2>8. /\ tfReq' = [tfReq EXCEPT ![r] = new]
        /\ new \in TFRequest /\ new.held = x.held /\ new.pc = next
        /\ new.copy = x.copy /\ new.code = x.code /\ new.key = x.key
    <3>1. tfReq' = [tfReq EXCEPT ![r] = new]
      BY <2>1 DEF TFGoto
    <3>2. /\ new \in TFRequest /\ new.held = x.held /\ new.pc = next
          /\ new.copy = x.copy /\ new.code = x.code /\ new.key = x.key
      BY <1>2 DEF TFRequest
    <3> QED BY <3>1, <3>2
  <2> HIDE DEF new
  <2>9. Sound(x, totp', made', tf')
    BY <1>1, <1>2, <2>2, <2>6, <2>7, SoundKept DEF Sound
  <2>10. Sound(new, totp', made', tf')
    <3>1. tf'.spent[c] > 0
      BY <2>4, <2>5
    <3> QED BY <1>2, <2>3, <2>8, <2>9, <3>1 DEF Sound
  <2>11. RequestsSound' /\ tfReq' \in [TFRequests -> TFRequest]
    BY <1>1, <2>2, <2>6, <2>7, <2>8, <2>10, TFRequestMoves
  <2>12. \A q \in TFRequests : tfReq'[q].key \in {NoKey, tfReq[q].key}
    BY <2>8 DEF TwoFactorInv, TwoFactorTypeOK
  <2>13. KeyInv'
    BY <1>1, <2>6, <2>12, KeysKept DEF TwoFactorInv, KeyInv, KeySound
  <2>14. TwoFactorTypeOK'
    BY <1>1, <1>2, <1>4, <2>2, <2>6, <2>11 DEF TwoFactorInv, TwoFactorTypeOK
  <2>15. ~tf'.lost => tf.spent[c] = 0 /\ ~tf.lost /\ totp.codes = x.copy.codes
    BY <1>2, <2>4 DEF TwoFactorInv, RowInv, RowSound
  <2>16. RowSound'
    <3>1. \A d \in totp'.codes : d[1] = totp'.id /\ totp'.id # NoRow
      BY <1>2, <1>4, <2>2 DEF Sound
    <3>2. \A d \in BackupCodes : tf'.spent[d] > 0 => d[1] \in made'
      BY <1>1, <1>2, <2>5 DEF TwoFactorInv, RowInv, RowSound, Sound
    <3>3. ~tf'.lost => \A d \in totp'.codes : tf'.spent[d] = 0
      BY <1>2, <2>2, <2>5, <2>15 DEF TwoFactorInv, RowInv, RowSound
    <3> QED BY <1>1, <2>2, <3>1, <3>2, <3>3 DEF TwoFactorInv, RowInv, RowSound
  <2>17. CodesOnce'
    <3>1. SUFFICES ASSUME NEW d \in BackupCodes, tf'.spent[d] > 1 PROVE tf'.lost
      BY DEF CodesOnce
    <3>2. CASE d = c
      <4>1. tf.spent[c] = 0 => n = 1
        BY <2>3
      <4>2. tf.spent[c] # 0
        BY <2>5, <3>1, <3>2, <4>1
      <4> QED BY <2>15, <4>2
    <3>3. CASE d # c
      BY <2>4, <2>5, <3>1, <3>3 DEF TwoFactorInv, RowInv, CodesOnce
    <3> QED BY <3>2, <3>3
  <2>18. RowInv'
    BY <2>2, <2>6, <2>16, <2>17 DEF TwoFactorInv, RowInv, SecretVerified, On, NotOnPasswordAlone
  <2> QED BY <2>11, <2>13, <2>14, <2>18 DEF TwoFactorInv
<1> QED BY <1>3, <1>4

-----------------------------------------------------------------------------
(* Session keys: one that nobody shared has one holder, who spends it *)

\* A completion takes a key that is there.
LEMMA CompleteBeginStep ==
    ASSUME TwoFactorInv, NEW r \in TFRequests, NEW k \in SessionKeys, NEW code \in TFCodes,
           CompleteBegin(r, k, code)
    PROVE  TwoFactorInv'
<1> DEFINE x == [TFIdle EXCEPT !.pc = "complete_read", !.key = k, !.code = code]
           new == [x EXCEPT !.held = On]
<1>1. x \in TFRequest /\ x.pc = "complete_read" /\ x.copy = NoTotp /\ x.key = k
  BY TFIdleFacts DEF TFRequest
<1>2. tfReq' = [tfReq EXCEPT ![r] = new] /\ UNCHANGED <<totp, account, pw, keys, made>> /\ k \in keys
  BY DEF CompleteBegin, TFBegin
<1>3. On \in BOOLEAN
  BY DEF On, TwoFactorInv, TwoFactorTypeOK, TotpRow
<1> HIDE DEF x
<1>4. new \in TFRequest /\ new.held = On /\ new.pc = "complete_read" /\ new.copy = NoTotp /\ new.key = k
  BY <1>1, <1>3, HeldSet
<1> HIDE DEF new
<1>5. /\ tf' \in TFHistory /\ tf'.shown = tf.shown /\ tf'.byPassword = tf.byPassword
      /\ tf'.spent = tf.spent /\ tf'.lost = tf.lost /\ tf'.crossed = tf.crossed
      /\ tf'.pairs = tf.pairs /\ tf.shared \subseteq tf'.shared /\ tf'.overrun = tf.overrun
      /\ (\E q \in TFRequests : tfReq[q].key = k) => k \in tf'.shared
  BY DEF CompleteBegin, TwoFactorInv, TwoFactorTypeOK, TFHistory
<1>6. k \in made /\ keys \subseteq made
  BY <1>2 DEF TwoFactorInv, KeyInv, KeySound
<1>7. Sound(new, totp', made', tf')
  BY <1>2, <1>4, <1>6, NoTotpFacts DEF Sound, On
<1>8. RequestsSound' /\ tfReq' \in [TFRequests -> TFRequest]
  BY <1>2, <1>5, <1>7, TFRequestMoves
<1>9. KeyInv'
  <2>1. \A q \in TFRequests : tfReq'[q].key = IF q = r THEN k ELSE tfReq[q].key
    BY <1>2, <1>4 DEF TwoFactorInv, TwoFactorTypeOK
  <2>2. KeysOnce'
    BY <1>5 DEF TwoFactorInv, KeyInv, KeysOnce
  <2>3. tf.pairs[k] = 0
    <3>1. tf.pairs[k] \in 0..2
      BY DEF TwoFactorInv, TwoFactorTypeOK, TFHistory
    <3>2. ~(tf.pairs[k] > 0)
      BY <1>2 DEF TwoFactorInv, KeyInv, KeySound
    <3> QED BY <3>1, <3>2
  <2>4. ASSUME NEW j \in SessionKeys
        PROVE  /\ tf'.pairs[j] > 0 => j \in made' /\ j \notin keys'
               /\ j \notin tf'.shared =>
                     /\ \A p, q \in TFRequests : tfReq'[p].key = j /\ tfReq'[q].key = j => p = q
                     /\ tf'.pairs[j] > 0 => \A q \in TFRequests : tfReq'[q].key # j
    <3>1. CASE j = k
      BY <1>2, <1>5, <2>1, <2>3, <3>1
    <3>2. CASE j # k
      BY <1>2, <1>5, <2>1, <3>2 DEF TwoFactorInv, KeyInv, KeySound
    <3> QED BY <3>1, <3>2
  <2> QED BY <1>2, <1>6, <2>2, <2>4 DEF KeyInv, KeySound
<1>10. TwoFactorTypeOK'
  BY <1>2, <1>5, <1>8 DEF TwoFactorInv, TwoFactorTypeOK
<1>11. RowInv'
  BY <1>2, <1>5 DEF TwoFactorInv, RowInv, RowSound, CodesOnce, SecretVerified, On, NotOnPasswordAlone
<1> QED BY <1>8, <1>9, <1>10, <1>11 DEF TwoFactorInv

\* Tokens are given for a key, which is then gone.
LEMMA CompleteGrantStep == ASSUME TwoFactorInv, NEW r \in TFRequests, CompleteGrant(r) PROVE TwoFactorInv'
<1> DEFINE k == tfReq[r].key
<1>1. /\ tfReq' = [tfReq EXCEPT ![r] = TFIdle] /\ UNCHANGED <<totp, account, pw, made>>
      /\ keys' = keys \ {k}
  BY DEF CompleteGrant, TFDone
<1>2. k \in SessionKeys \cup {NoKey} /\ k \in made \cup {NoKey}
  BY DEF TwoFactorInv, TwoFactorTypeOK, TFRequest, RequestsSound, Sound
<1>3. \A q \in TFRequests : tfReq'[q].key = IF q = r THEN NoKey ELSE tfReq[q].key
  BY <1>1, TFIdleFacts DEF TwoFactorInv, TwoFactorTypeOK
<1>4. CASE tf' = tf
  BY <1>1, <1>4, IdleSound, TFIdleFacts, QuietMove DEF TwoFactorInv, TwoFactorTypeOK, KeyInv, KeySound
<1>5. CASE tf' # tf
  <2> DEFINE n == IF tf.pairs[k] < 2 THEN tf.pairs[k] + 1 ELSE tf.pairs[k]
  <2>1. tf' = [tf EXCEPT !.pairs[k] = IF @ < 2 THEN @ + 1 ELSE @]
    BY <1>5 DEF CompleteGrant
  <2>2. tf \in TFHistory /\ tf.pairs \in [SessionKeys -> 0..2]
    BY DEF TwoFactorInv, TwoFactorTypeOK, TFHistory
  <2>3. tf'.pairs = [tf.pairs EXCEPT ![k] = n]
    BY <2>1, <2>2 DEF TFHistory
  <2>4. /\ tf'.pairs \in [SessionKeys -> 0..2]
        /\ \A j \in SessionKeys : tf'.pairs[j] = IF j = k THEN n ELSE tf.pairs[j]
    <3>1. k \in SessionKeys => n \in 0..2
      BY <2>2
    <3> HIDE DEF n
    <3> QED BY <2>2, <2>3, <3>1
  <2>5. /\ tf'.shown = tf.shown /\ tf'.byPassword = tf.byPassword
        /\ tf'.spent = tf.spent /\ tf'.lost = tf.lost /\ tf'.crossed = tf.crossed
        /\ tf'.shared = tf.shared /\ tf'.overrun = tf.overrun
    BY <2>1, <2>2 DEF TFHistory
  <2>6. tf' = [tf EXCEPT !.pairs = tf'.pairs]
    BY <2>1, <2>2 DEF TFHistory
  <2>7. tf' \in TFHistory
    BY <2>2, <2>4, <2>6 DEF TFHistory
  <2>8. RequestsSound' /\ tfReq' \in [TFRequests -> TFRequest]
    BY <1>1, <2>5, IdleSound, TFRequestMoves
  <2>9. k \in SessionKeys /\ k \notin tf.shared => tf.pairs[k] = 0 /\ n = 1
    BY <2>2 DEF TwoFactorInv, KeyInv, KeySound
  <2>10. KeysOnce'
    BY <2>4, <2>5, <2>9 DEF TwoFactorInv, KeyInv, KeysOnce
  <2>11. ASSUME NEW j \in SessionKeys
         PROVE  /\ tf'.pairs[j] > 0 => j \in made' /\ j \notin keys'
                /\ j \notin tf'.shared =>
                      /\ \A p, q \in TFRequests : tfReq'[p].key = j /\ tfReq'[q].key = j => p = q
                      /\ tf'.pairs[j] > 0 => \A q \in TFRequests : tfReq'[q].key # j
    <3>1. j # NoKey
      BY TwoFactorAssumption
    <3>2. CASE j = k
      BY <1>1, <1>2, <1>3, <2>5, <3>1, <3>2 DEF TwoFactorInv, KeyInv, KeySound
    <3>3. CASE j # k
      BY <1>1, <1>3, <2>4, <2>5, <3>1, <3>3 DEF TwoFactorInv, KeyInv, KeySound
    <3> QED BY <3>2, <3>3
  <2>12. KeyInv'
    BY <1>1, <2>10, <2>11 DEF TwoFactorInv, KeyInv, KeySound
  <2>13. TwoFactorTypeOK'
    BY <1>1, <2>7, <2>8 DEF TwoFactorInv, TwoFactorTypeOK
  <2>14. RowInv'
    BY <1>1, <2>5 DEF TwoFactorInv, RowInv, RowSound, CodesOnce, SecretVerified, On, NotOnPasswordAlone
  <2> QED BY <2>8, <2>12, <2>13, <2>14 DEF TwoFactorInv
<1> QED BY <1>4, <1>5

-----------------------------------------------------------------------------
(* Steps that replace or remove the row: no request under way is held from then *)
(* on, and the new secret and row id are ones that nobody has read              *)

\* The row is removed, or stays as it is.
LEMMA RowGone ==
    ASSUME TwoFactorInv, NEW base \in [TFRequests -> TFRequest], NEW off \in BOOLEAN,
           tfReq' = NotHeld(base, off),
           \A q \in TFRequests : base[q] = TFIdle \/ base[q] = tfReq[q],
           totp' = (IF off THEN NoTotp ELSE totp),
           account' \in {"active", "inactive", "deleted"}, UNCHANGED <<pw, keys, made, tf>>
    PROVE  TwoFactorInv'
<1>1. /\ RequestsSound' /\ tfReq' \in [TFRequests -> TFRequest]
      /\ \A q \in TFRequests : tfReq'[q].key \in {NoKey, tfReq[q].key}
  BY NoTotpFacts, RequestsNotHeld
<1>2. KeyInv'
  BY <1>1, KeysKept DEF TwoFactorInv, KeyInv, KeySound
<1>3. TwoFactorTypeOK'
  BY <1>1, NoTotpFacts DEF TwoFactorInv, TwoFactorTypeOK
<1>4. RowInv'
  BY NoTotpFacts DEF TwoFactorInv, RowInv, RowSound, CodesOnce, SecretVerified, On, NotOnPasswordAlone
<1> QED BY <1>1, <1>2, <1>3, <1>4 DEF TwoFactorInv

\* The row is deleted by a request that has paid with a code.
LEMMA DisableDeleteStep == ASSUME TwoFactorInv, NEW r \in TFRequests, DisableDelete(r) PROVE TwoFactorInv'
<1> DEFINE base == [tfReq EXCEPT ![r] = TFIdle]
           off == (totp.id = tfReq[r].copy.id)
<1>1. /\ tfReq' = NotHeld(base, off) /\ totp' = (IF off THEN NoTotp ELSE totp)
      /\ UNCHANGED <<account, pw, keys, made, tf>>
  BY DEF DisableDelete
<1>2. base \in [TFRequests -> TFRequest] /\ off \in BOOLEAN
  BY TFIdleFacts DEF TwoFactorInv, TwoFactorTypeOK
<1>3. \A q \in TFRequests : base[q] = TFIdle \/ base[q] = tfReq[q]
  BY DEF TwoFactorInv, TwoFactorTypeOK
<1> HIDE DEF base, off
<1> QED BY <1>1, <1>2, <1>3, RowGone DEF TwoFactorInv, TwoFactorTypeOK

\* An erasure takes the row away.
LEMMA TFEraseStep ==
    ASSUME TwoFactorInv, NEW status \in {"inactive", "deleted"}, Erase(status)
    PROVE  TwoFactorInv'
<1> DEFINE off == (status = "deleted")
<1>1. /\ tfReq' = NotHeld(tfReq, off) /\ totp' = (IF off THEN NoTotp ELSE totp)
      /\ account' = status /\ UNCHANGED <<pw, keys, made, tf>>
  BY DEF Erase
<1>2. tfReq \in [TFRequests -> TFRequest] /\ off \in BOOLEAN
  BY DEF TwoFactorInv, TwoFactorTypeOK
<1> HIDE DEF off
<1> QED BY <1>1, <1>2, RowGone

\* setup saves a new secret, on a new row or on the one it finds.
LEMMA SetupWriteStep ==
    ASSUME TwoFactorInv, NEW r \in TFRequests, NEW s \in Secrets, NEW id \in RowIds, SetupWrite(r, s, id)
    PROVE  TwoFactorInv'
<1> DEFINE base == [tfReq EXCEPT ![r] = TFIdle]
<1>1. /\ tfReq' = NotHeld(base, TRUE) /\ UNCHANGED <<account, pw, keys>>
      /\ s \notin made /\ made \subseteq made' /\ made' \subseteq Secrets \cup RowIds \cup SessionKeys
      /\ s \in made'
  BY DEF SetupWrite, TwoFactorInv, TwoFactorTypeOK
<1>2. base \in [TFRequests -> TFRequest]
  BY TFIdleFacts DEF TwoFactorInv, TwoFactorTypeOK
<1>3. \A q \in TFRequests : base[q] = TFIdle \/ base[q] = tfReq[q]
  BY DEF TwoFactorInv, TwoFactorTypeOK
<1>4. s # NoSecret /\ id # NoRow
  BY TwoFactorAssumption
<1>5. /\ tf' \in TFHistory /\ tf'.shown = FALSE /\ tf'.byPassword = tf.byPassword
      /\ tf'.spent = tf.spent /\ tf'.lost = tf.lost /\ tf'.crossed = tf.crossed
      /\ tf'.pairs = tf.pairs /\ tf'.shared = tf.shared
      /\ tf.overrun \subseteq tf'.overrun /\ (On => totp.secret \in tf'.overrun)
  <2>1. totp \in TotpRow /\ (On => totp # NoTotp) /\ (totp.id = NoRow => totp = NoTotp)
    BY NoTotpFacts DEF TwoFactorInv, TwoFactorTypeOK, On
  <2>2. On => totp.secret \in Secrets
    BY <2>1 DEF TotpRow, TwoFactorInv, RowInv, RowSound
  <2> DEFINE o == IF On THEN tf.overrun \cup {totp.secret} ELSE tf.overrun
  <2>3. tf' = [tf EXCEPT !.shown = FALSE, !.overrun = o]
    BY DEF SetupWrite
  <2>4. tf \in TFHistory /\ o \subseteq Secrets /\ tf.overrun \subseteq o /\ (On => totp.secret \in o)
    BY <2>2 DEF TwoFactorInv, TwoFactorTypeOK, TFHistory
  <2> HIDE DEF o
  <2> QED BY <2>3, <2>4 DEF TFHistory
<1>6. /\ totp' \in TotpRow /\ totp'.id # NoRow /\ totp'.secret = s /\ ~totp'.enabled
      /\ totp'.id \in made' /\ (totp'.id \notin made \/ totp'.id = totp.id)
      /\ \A c \in totp'.codes : c[1] = totp'.id
      /\ ~tf.lost => \A c \in totp'.codes : tf.spent[c] = 0
  <2>1. CASE totp = NoTotp
    <3>1. /\ totp' = [id |-> id, secret |-> s, enabled |-> FALSE, codes |-> {id} \X CodeNumbers]
          /\ id \notin made /\ id \in made'
      BY <2>1 DEF SetupWrite
    <3>2. {id} \X CodeNumbers \subseteq BackupCodes /\ \A c \in {id} \X CodeNumbers : c[1] = id
      BY DEF BackupCodes
    <3>3. \A c \in {id} \X CodeNumbers : tf.spent[c] = 0
      <4>1. \A c \in {id} \X CodeNumbers : ~(tf.spent[c] > 0)
        BY <3>1, <3>2 DEF TwoFactorInv, RowInv, RowSound
      <4>2. \A c \in BackupCodes : tf.spent[c] \in 0..2
        BY DEF TwoFactorInv, TwoFactorTypeOK, TFHistory
      <4> QED BY <3>2, <4>1, <4>2
    <3>4. totp' \in TotpRow
      BY <3>1, <3>2 DEF TotpRow
    <3> QED BY <1>4, <3>1, <3>2, <3>3, <3>4
  <2>2. CASE totp # NoTotp
    <3>1. totp' = [totp EXCEPT !.secret = s, !.enabled = FALSE]
      BY <2>2 DEF SetupWrite
    <3>2. /\ totp' \in TotpRow /\ totp'.id = totp.id /\ totp'.secret = s /\ ~totp'.enabled
          /\ totp'.codes = totp.codes /\ totp.id # NoRow
      BY <2>2, <3>1 DEF TwoFactorInv, TwoFactorTypeOK, TotpRow
    <3> QED BY <1>1, <3>2 DEF TwoFactorInv, RowInv, RowSound
  <2> QED BY <2>1, <2>2
<1>7. /\ RequestsSound' /\ tfReq' \in [TFRequests -> TFRequest]
      /\ \A q \in TFRequests : tfReq'[q].key \in {NoKey, tfReq[q].key}
  <2>1. totp.enabled => totp.secret \in tf'.overrun
    BY <1>5 DEF On
  <2> HIDE DEF base
  <2> QED BY <1>1, <1>2, <1>3, <1>5, <1>6, <2>1, RequestsNotHeld
<1>8. KeyInv'
  BY <1>1, <1>5, <1>7, KeysKept DEF TwoFactorInv, KeyInv, KeySound
<1>9. TwoFactorTypeOK'
  BY <1>1, <1>5, <1>6, <1>7 DEF TwoFactorInv, TwoFactorTypeOK
<1>10. RowInv'
  BY <1>1, <1>4, <1>5, <1>6 DEF TwoFactorInv, RowInv, RowSound, CodesOnce, SecretVerified, On, NotOnPasswordAlone
<1> QED BY <1>7, <1>8, <1>9, <1>10 DEF TwoFactorInv

-----------------------------------------------------------------------------
\* At the start there is no row, no key and no request.
LEMMA TFInitEstablishes == TFInit => TwoFactorInv
<1> SUFFICES ASSUME TFInit PROVE TwoFactorInv
  OBVIOUS
<1>1. /\ totp = NoTotp /\ account = "active" /\ pw = 0 /\ keys = {} /\ made = {}
      /\ tfReq = [r \in TFRequests |-> TFIdle]
  BY DEF TFInit
<1>2. /\ tf \in TFHistory /\ tf.lost = FALSE /\ tf.byPassword = {}
      /\ \A c \in BackupCodes : tf.spent[c] = 0
      /\ \A k \in SessionKeys : tf.pairs[k] = 0
  BY DEF TFInit, TFHistory
<1>3. TwoFactorTypeOK
  BY <1>1, <1>2, NoTotpFacts, TFIdleFacts, TwoFactorAssumption DEF TwoFactorTypeOK
<1>4. RequestsSound
  BY <1>1, IdleSound DEF RequestsSound
<1>5. RowInv
  BY <1>1, <1>2, NoTotpFacts DEF RowInv, RowSound, CodesOnce, SecretVerified, On, NotOnPasswordAlone
<1>6. KeyInv
  BY <1>1, <1>2, TFIdleFacts, TwoFactorAssumption DEF KeyInv, KeySound, KeysOnce
<1> QED BY <1>3, <1>4, <1>5, <1>6 DEF TwoFactorInv

\* Every step keeps the invariant.
LEMMA TFInvStep == TwoFactorInv /\ [TwoFactorNext]_tfVars => TwoFactorInv'
<1> SUFFICES ASSUME TwoFactorInv, [TwoFactorNext]_tfVars PROVE TwoFactorInv'
  OBVIOUS
<1>1. ASSUME NEW r \in TFRequests, DisableUse(r) \/ CompleteUse(r) PROVE TwoFactorInv'
  BY <1>1, UseCodeStep DEF DisableUse, CompleteUse, TFAt
<1> QED BY <1>1, TFStillStep, TFCrashStep, SetupReadStep, SetupWriteStep, EnableReadStep, EnableWriteStep,
           DisableReadStep, DisableDeleteStep, LoginBeginStep, LoginAgainStep, LoginReadStep,
           CompleteBeginStep, CompleteReadStep, CompleteGrantStep, TFEraseStep DEF TwoFactorNext

\* The inductive invariant of two-factor authentication.
THEOREM TwoFactorInvHolds == TwoFactorSpec => []TwoFactorInv
  BY TFInitEstablishes, TFInvStep, PTL DEF TwoFactorSpec

\* The variables of TwoFactor keep their types, whatever overlaps, dies or expires.
THEOREM TwoFactorIsTyped == TwoFactorSpec => []TwoFactorTypeOK
<1>1. TwoFactorInv => TwoFactorTypeOK
  BY DEF TwoFactorInv
<1> QED BY <1>1, TwoFactorInvHolds, PTL

\* use_backup_code accepts a code again only after a list of codes was saved over a
\* newer one.
THEOREM BackupCodesAreSingleUse == TwoFactorSpec => []CodesOnce
<1>1. TwoFactorInv => CodesOnce
  BY DEF TwoFactorInv, RowInv
<1> QED BY <1>1, TwoFactorInvHolds, PTL

\* Two-factor goes on with a secret of which enable has seen a code, unless a setup
\* came in between.
THEOREM SecretIsVerified == TwoFactorSpec => []SecretVerified
<1>1. TwoFactorInv => SecretVerified
  BY DEF TwoFactorInv, RowInv
<1> QED BY <1>1, TwoFactorInvHolds, PTL

\* ThrottledTokenObtainPairView gives no tokens on the password alone to a sign-in
\* during which two-factor is on throughout and the password stays.
THEOREM PasswordIsNotEnough == TwoFactorSpec => []NotOnPasswordAlone
<1>1. TwoFactorInv => NotOnPasswordAlone
  BY DEF TwoFactorInv, RowInv
<1> QED BY <1>1, TwoFactorInvHolds, PTL

\* TwoFactorCompleteView gives one token pair for a session key that no two requests
\* held at once.
THEOREM SessionKeysAreSingleUse == TwoFactorSpec => []KeysOnce
<1>1. TwoFactorInv => KeysOnce
  BY DEF TwoFactorInv, KeyInv
<1> QED BY <1>1, TwoFactorInvHolds, PTL

\* A step that takes a secret out of use is one of these three.
LEMMA WhoSwitchesOff ==
    ASSUME TwoFactorInv, TwoFactorNext, On, ~(totp'.enabled /\ totp'.secret = totp.secret)
    PROVE  \/ account' = "deleted"
           \/ \E r \in TFRequests : DisableDelete(r)
           \/ \E r \in TFRequests, s \in Secrets, id \in RowIds : SetupWrite(r, s, id)
<1>1. totp \in TotpRow /\ totp' # totp
  BY DEF TwoFactorInv, TwoFactorTypeOK, On
<1>2. ASSUME NEW r \in TFRequests, NEW next, UseCode(r, next) PROVE FALSE
  <2>1. totp' = [totp EXCEPT !.codes = tfReq[r].copy.codes \ {tfReq[r].code}]
    BY <1>1, <1>2 DEF UseCode
  <2> QED BY <1>1, <2>1 DEF TotpRow, On
<1>3. ASSUME NEW r \in TFRequests, EnableWrite(r) PROVE FALSE
  <2>1. totp' = [totp EXCEPT !.enabled = TRUE]
    BY <1>1, <1>3 DEF EnableWrite
  <2> QED BY <1>1, <2>1 DEF TotpRow, On
<1>4. ASSUME NEW status, Erase(status) PROVE account' = "deleted"
  BY <1>1, <1>4 DEF Erase
<1> QED BY <1>1, <1>2, <1>3, <1>4
           DEF TwoFactorNext, SetupRead, EnableRead, DisableRead, DisableUse, LoginBegin, LoginAgain,
               LoginRead, CompleteBegin, CompleteRead, CompleteUse, CompleteGrant, TFCrash, KeyExpires,
               ChangePassword

\* The request that is at its last step is idle after it, whether or not it was held.
LEMMA EndsIdle ==
    ASSUME TwoFactorInv, NEW r \in TFRequests, NEW off \in BOOLEAN,
           tfReq' = NotHeld([tfReq EXCEPT ![r] = TFIdle], off)
    PROVE  tfReq'[r] = TFIdle
<1>1. ASSUME NEW x \in TFRequest, x.held = FALSE PROVE [x EXCEPT !.held = FALSE] = x
  BY <1>1 DEF TFRequest
<1>2. TFIdle = [TFIdle EXCEPT !.held = FALSE]
  BY <1>1, TFIdleFacts
<1> QED BY <1>2 DEF NotHeld, TwoFactorInv, TwoFactorTypeOK

\* A disable that takes the row in use holds a code of its secret or of the row, or of a
\* secret that a setup had taken out of use.
LEMMA DeleterHoldsCode ==
    ASSUME TwoFactorInv, NEW r \in TFRequests, DisableDelete(r), totp' # totp
    PROVE  \/ HoldsCode(r)
           \/ ValidTotp(tfReq[r].copy, tfReq[r].code) /\ tfReq[r].copy.secret \in tf.overrun
<1> DEFINE x == tfReq[r]
<1>1. x.pc = "disable_delete" /\ x.copy.id = totp.id /\ Sound(x, totp, made, tf)
  BY DEF DisableDelete, TFAt, TwoFactorInv, RequestsSound
<1>2. CASE ValidTotp(x.copy, x.code)
  BY <1>1, <1>2 DEF Sound, ValidTotp, HoldsCode
<1>3. CASE x.code \in BackupCodes /\ x.code[1] = x.copy.id /\ tf.spent[x.code] > 0
  <2>1. x.code \in {totp.id} \X CodeNumbers
    BY <1>1, <1>3 DEF BackupCodes
  <2> QED BY <1>3, <2>1 DEF HoldsCode
<1> QED BY <1>1, <1>2, <1>3 DEF Sound

\* A secret in use goes with the account, by the write of a setup that read the row before
\* two-factor was on, or by a disable that holds a code of that secret or of its row: or of
\* the secret that such a setup had replaced since the disable read the row.
THEOREM FactorIsKept == TwoFactorSpec => FactorKept
<1> DEFINE Lawful ==
        On /\ ~(totp'.enabled /\ totp'.secret = totp.secret) =>
            \/ account' = "deleted"
            \/ \E r \in TFRequests :
                  \/ Ends(r, "setup_write") /\ ~tfReq[r].held
                  \/ /\ Ends(r, "disable_delete")
                     /\ \/ HoldsCode(r)
                        \/ /\ ValidTotp(tfReq[r].copy, tfReq[r].code)
                           /\ tfReq[r].copy.secret \in tf.overrun
<1>1. TwoFactorInv /\ TwoFactorNext => Lawful
  <2> SUFFICES ASSUME TwoFactorInv, TwoFactorNext, On, ~(totp'.enabled /\ totp'.secret = totp.secret),
                      account' # "deleted"
               PROVE  \E r \in TFRequests :
                         \/ Ends(r, "setup_write") /\ ~tfReq[r].held
                         \/ /\ Ends(r, "disable_delete")
                            /\ \/ HoldsCode(r)
                               \/ /\ ValidTotp(tfReq[r].copy, tfReq[r].code)
                                  /\ tfReq[r].copy.secret \in tf.overrun
    OBVIOUS
  <2>1. ASSUME NEW r \in TFRequests, NEW s \in Secrets, NEW id \in RowIds, SetupWrite(r, s, id)
        PROVE  Ends(r, "setup_write") /\ ~tfReq[r].held
    <3>1. TFAt(r, "setup_write") /\ tfReq' = NotHeld([tfReq EXCEPT ![r] = TFIdle], TRUE)
      BY <2>1 DEF SetupWrite
    <3>2. tfReq'[r] = TFIdle
      BY <3>1, EndsIdle
    <3> QED BY <3>1, <3>2 DEF Ends, TFAt, TwoFactorInv, RequestsSound, Sound
  <2>2. ASSUME NEW r \in TFRequests, DisableDelete(r)
        PROVE  /\ Ends(r, "disable_delete")
               /\ \/ HoldsCode(r)
                  \/ ValidTotp(tfReq[r].copy, tfReq[r].code) /\ tfReq[r].copy.secret \in tf.overrun
    <3> DEFINE mine == totp.id = tfReq[r].copy.id
    <3>1. TFAt(r, "disable_delete") /\ tfReq' = NotHeld([tfReq EXCEPT ![r] = TFIdle], mine)
      BY <2>2 DEF DisableDelete
    <3>2. mine \in BOOLEAN
      OBVIOUS
    <3> HIDE DEF mine
    <3>3. tfReq'[r] = TFIdle
      BY <3>1, <3>2, EndsIdle
    <3>4. totp' # totp
      BY DEF On
    <3> QED BY <2>2, <3>1, <3>3, <3>4, DeleterHoldsCode DEF Ends
  <2> QED BY <2>1, <2>2, WhoSwitchesOff
<1>2. TwoFactorInv /\ [TwoFactorNext]_tfVars => [Lawful]_tfVars
  BY <1>1
<1> QED BY <1>2, TwoFactorInvHolds, PTL DEF TwoFactorSpec, FactorKept
=============================================================================
