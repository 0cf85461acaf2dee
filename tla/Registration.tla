----------------------------- MODULE Registration -----------------------------
(***************************************************************************)
(* How accounts come to exist: registration with a password                 *)
(* (services/users/user_service.py, reached from two views) and the first   *)
(* sign-in with a provider (services/auth/social_auth_service.py).          *)
(*                                                                          *)
(* User names are unique in the database; addresses are not.  Each query is *)
(* an action, since other requests run between two of them.                 *)
(***************************************************************************)
EXTENDS Integers, FiniteSets

CONSTANTS
    RgRequests,    \* request threads; each serves one request after another
    MaxUsers,      \* bound: the accounts that may come to exist, in pk order
    Bases,         \* bound: what user names are made from
    MaxSuffix,     \* bound: the highest counter of _unique_username
    Addresses,     \* bound: e-mail addresses, in lower case and stripped
    NoAddress, NoName

VARIABLES
    users,      \* the User rows, by pk
    rgReq,      \* each request: how far it is and what it holds
    welcome     \* the users whose welcome task was enqueued

rgVars == <<users, rgReq, welcome>>

ASSUME RegistrationAssumption ==
    /\ MaxUsers \in Nat \ {0} /\ MaxSuffix \in Nat
    /\ NoAddress \notin Addresses

Pks == 1..MaxUsers

\* base, base_1, base_2, ...
UserNames == Bases \X (0..MaxSuffix)

\* since is history: how many users there were when the address was checked.
NoUserRow == [name |-> NoName, email |-> NoAddress, kind |-> "none", since |-> 0]

RgIdle == [pc |-> "idle", name |-> NoName, email |-> NoAddress, since |-> 0, pk |-> 0]

RgInit ==
    /\ users = [u \in Pks |-> NoUserRow]
    /\ rgReq = [r \in RgRequests |-> RgIdle]
    /\ welcome = {}

-----------------------------------------------------------------------------
Rows == {u \in Pks : users[u].kind # "none"}
NextPk == Cardinality(Rows) + 1

NameTaken(n) == \E u \in Rows : users[u].name = n
WithAddress(a) == {u \in Rows : users[u].email = a}

RgAt(r, pc) == rgReq[r].pc = pc
RgGoto(r, pc) == rgReq' = [rgReq EXCEPT ![r].pc = pc]
RgDone(r) == rgReq' = [rgReq EXCEPT ![r] = RgIdle]

\* User.save, committed.
Insert(r, kind) ==
    users' = [users EXCEPT ![NextPk] = [name |-> rgReq[r].name, email |-> rgReq[r].email,
                                        kind |-> kind, since |-> rgReq[r].since]]

-----------------------------------------------------------------------------
(* POST /auth/register/ and POST /users/: UserService.create_user.  The     *)
(* request's fields are valid; one whose fields are not ends here.          *)

RegisterBegin(r, n, a) ==
    /\ RgAt(r, "idle")
    /\ rgReq' = [rgReq EXCEPT ![r] = [RgIdle EXCEPT !.pc = "check_name", !.name = n, !.email = a]]
    /\ UNCHANGED <<users, welcome>>

CheckName(r) ==
    /\ RgAt(r, "check_name")
    /\ IF NameTaken(rgReq[r].name) THEN RgDone(r) ELSE RgGoto(r, "check_email")
    /\ UNCHANGED <<users, welcome>>

CheckEmail(r) ==
    /\ RgAt(r, "check_email")
    /\ IF WithAddress(rgReq[r].email) # {} THEN RgDone(r)
       ELSE rgReq' = [rgReq EXCEPT ![r].pc = "clean", ![r].since = Cardinality(Rows)]
    /\ UNCHANGED <<users, welcome>>

\* full_clean looks at the name again: here a clash is a server error.
FullClean(r) ==
    /\ RgAt(r, "clean")
    /\ IF NameTaken(rgReq[r].name) THEN RgDone(r) ELSE RgGoto(r, "save")
    /\ UNCHANGED <<users, welcome>>

\* The row is inserted and committed; an IntegrityError is a conflict.
RegisterSave(r) ==
    /\ RgAt(r, "save")
    /\ IF NameTaken(rgReq[r].name)
       THEN RgDone(r) /\ UNCHANGED users
       ELSE /\ NextPk \in Pks
            /\ Insert(r, "password")
            /\ rgReq' = [rgReq EXCEPT ![r].pc = "on_commit", ![r].pk = NextPk]
    /\ UNCHANGED welcome

\* transaction.on_commit: send_welcome_email.delay, then the answer 201.
EnqueueWelcome(r) ==
    /\ RgAt(r, "on_commit")
    /\ welcome' = welcome \cup {rgReq[r].pk}
    /\ RgDone(r)
    /\ UNCHANGED users

-----------------------------------------------------------------------------
(* POST /auth/social/: SocialAuthService.authenticate *)

\* What a provider says of the holder of an access token.
Answers == [provider : {"google", "github"}, email : Addresses \cup {NoAddress},
            verified : BOOLEAN, primary : Addresses \cup {NoAddress}]

\* Google's address must be verified; GitHub's is the public one, or else the
\* primary one if that is verified.
Fetched(answer) ==
    IF answer.provider = "google"
    THEN IF answer.verified THEN answer.email ELSE NoAddress
    ELSE IF answer.email # NoAddress THEN answer.email ELSE answer.primary

\* The provider names an address; without one the request ends with 401.
SocialBegin(r, answer, b) ==
    /\ RgAt(r, "idle") /\ Fetched(answer) # NoAddress
    /\ rgReq' = [rgReq EXCEPT ![r] = [RgIdle EXCEPT !.pc = "find", !.name = <<b, 0>>,
                                          !.email = Fetched(answer)]]
    /\ UNCHANGED <<users, welcome>>

\* Mutant: only accounts that a provider made are looked for.
SocialFindOwnKind(r) ==
    /\ RgAt(r, "find")
    /\ IF \E u \in WithAddress(rgReq[r].email) : users[u].kind = "social" THEN RgDone(r)
       ELSE rgReq' = [rgReq EXCEPT ![r].pc = "pick_name", ![r].since = Cardinality(Rows)]
    /\ UNCHANGED <<users, welcome>>

\* filter(email).first(): the oldest account of the address is signed in.
SocialFind(r) ==
    /\ RgAt(r, "find")
    /\ IF WithAddress(rgReq[r].email) # {} THEN RgDone(r)
       ELSE rgReq' = [rgReq EXCEPT ![r].pc = "pick_name", ![r].since = Cardinality(Rows)]
    /\ UNCHANGED <<users, welcome>>

\* One turn of the loop in _unique_username.
PickName(r) ==
    /\ RgAt(r, "pick_name")
    /\ IF NameTaken(rgReq[r].name)
       THEN /\ rgReq[r].name[2] < MaxSuffix
            /\ rgReq' = [rgReq EXCEPT ![r].name = <<@[1], @[2] + 1>>]
       ELSE RgGoto(r, "social_save")
    /\ UNCHANGED <<users, welcome>>

\* Saved with an unusable password and signed in; an IntegrityError is a conflict.
SocialSave(r) ==
    /\ RgAt(r, "social_save")
    /\ IF NameTaken(rgReq[r].name) THEN UNCHANGED users
       ELSE NextPk \in Pks /\ Insert(r, "social")
    /\ RgDone(r)
    /\ UNCHANGED welcome

-----------------------------------------------------------------------------
\* GDPRService.anonymize gives the row a name and an address of its own.
Anonymized(u) ==
    /\ u \in Rows /\ users[u].kind # "erased"
    /\ users' = [users EXCEPT ![u] = [NoUserRow EXCEPT !.kind = "erased"]]
    /\ UNCHANGED <<rgReq, welcome>>

\* A request is killed, or a call raises; after the commit the account stays,
\* and its welcome task was never enqueued.
RgCrash(r) ==
    /\ ~RgAt(r, "idle")
    /\ RgDone(r)
    /\ UNCHANGED <<users, welcome>>

RegistrationNext ==
    \/ \E r \in RgRequests :
          \/ \E n \in UserNames, a \in Addresses : RegisterBegin(r, n, a)
          \/ CheckName(r) \/ CheckEmail(r) \/ FullClean(r) \/ RegisterSave(r) \/ EnqueueWelcome(r)
          \/ \E answer \in Answers, b \in Bases : SocialBegin(r, answer, b)
          \/ SocialFind(r) \/ PickName(r) \/ SocialSave(r)
          \/ RgCrash(r)
    \/ \E u \in Pks : Anonymized(u)

RegistrationSpec == RgInit /\ [][RegistrationNext]_rgVars

-----------------------------------------------------------------------------
(* Properties *)

\* The types of the variables.
RegistrationTypeOK ==
    /\ users \in [Pks -> [name : UserNames \cup {NoName}, email : Addresses \cup {NoAddress},
                          kind : {"none", "password", "social", "erased"}, since : 0..MaxUsers]]
    /\ rgReq \in [RgRequests ->
          [pc : {"idle", "check_name", "check_email", "clean", "save", "on_commit",
                 "find", "pick_name", "social_save"},
           name : UserNames \cup {NoName}, email : Addresses \cup {NoAddress},
           since : 0..MaxUsers, pk : 0..MaxUsers]]
    /\ welcome \subseteq Pks

\* Two accounts share an address only when their creations crossed: the earlier
\* one was not there yet when the later one's address was checked.  Registrations
\* and provider sign-ins alike look before they create.
OneAccountPerAddress ==
    \A u, v \in Rows :
        /\ u < v /\ users[u].email = users[v].email /\ users[u].email # NoAddress
        => u > users[v].since
=============================================================================
