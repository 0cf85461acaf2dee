---------------------------- MODULE Notifications ----------------------------
(***************************************************************************)
(* The notifications of one user: the rows and the push to the user's       *)
(* group (services/notifications), the WebSocket consumer and its sign-in   *)
(* (apps/notifications/consumers.py, middleware.py), and the paged list     *)
(* that a client follows from page to page (views.py, common/pagination.py).*)
(*                                                                          *)
(* A notification is numbered by its created_at, which is taken before its  *)
(* row is committed.  A page holds one notification.                        *)
(***************************************************************************)
EXTENDS Integers, FiniteSets

CONSTANTS
    Creators,      \* threads that call NotificationService.create
    MaxNotes,      \* bound: the notifications that are ever created
    Markers        \* request threads that mark a notification read

VARIABLES
    clock,      \* the last created_at given
    store,      \* the Notification rows
    read,       \* the rows with is_read
    owner,      \* the user: there or deleted
    creator,    \* each creator: how far it is, and with which notification
    marker,     \* each marker: the row it holds, or 0
    socket,     \* the client's connection: closed, joining, open
    inGroup,    \* the connection's channel is in the user's group
    inbox,      \* pushes in the channel, not yet sent to the client
    list,       \* the client's walk through the pages
    nf          \* history, for the properties only

nfVars == <<clock, store, read, owner, creator, marker, socket, inGroup, inbox, list, nf>>

ASSUME NotificationsAssumption == MaxNotes \in Nat

Notes == 1..MaxNotes
NfIdle == [pc |-> "idle", note |-> 0]
NoList == [pc |-> "none", unread |-> FALSE, page |-> 0, count |-> 0]

\* before: the notifications that the walk should find; got, pushed: what the
\* client has; lost: pushes that failed; shifted: the pages moved under the walk.
NoHistory == [before |-> {}, got |-> {}, pushed |-> {}, lost |-> {}, shifted |-> FALSE]

NfInit ==
    /\ clock = 0
    /\ store = {} /\ read = {} /\ owner = "there"
    /\ creator = [c \in Creators |-> NfIdle]
    /\ marker = [m \in Markers |-> 0]
    /\ socket = "closed" /\ inGroup = FALSE /\ inbox = {}
    /\ list = NoList
    /\ nf = NoHistory

rowVars == <<clock, store, read, owner, creator, marker>>
clientVars == <<socket, inGroup, inbox, list>>

-----------------------------------------------------------------------------
(* NotificationService.create *)

CreateStamp(c) ==
    /\ creator[c].pc = "idle" /\ clock < MaxNotes
    /\ clock' = clock + 1
    /\ creator' = [creator EXCEPT ![c] = [pc |-> "commit", note |-> clock + 1]]
    /\ UNCHANGED <<store, read, owner, marker, clientVars, nf>>

\* The row is committed; a row of a deleted user is an error.
CreateCommit(c) ==
    /\ creator[c].pc = "commit"
    /\ IF owner = "deleted"
       THEN creator' = [creator EXCEPT ![c] = NfIdle] /\ UNCHANGED <<store, nf>>
       ELSE /\ store' = store \cup {creator[c].note}
            /\ creator' = [creator EXCEPT ![c].pc = "send"]
            /\ nf' = IF list.pc = "slice" /\ list.page >= list.count
                     THEN [nf EXCEPT !.shifted = TRUE] ELSE nf
    /\ UNCHANGED <<clock, read, owner, marker, clientVars>>

\* group_send puts the push into the channel of every connection in the group.
\* One that fails is swallowed, and the channel may be full, or its push dropped.
CreateSend(c) ==
    LET n == creator[c].note IN
    /\ creator[c].pc = "send"
    /\ \/ inbox' = (IF inGroup THEN inbox \cup {n} ELSE inbox) /\ UNCHANGED nf
       \/ nf' = [nf EXCEPT !.lost = @ \cup {n}] /\ UNCHANGED inbox
    /\ creator' = [creator EXCEPT ![c] = NfIdle]
    /\ UNCHANGED <<clock, store, read, owner, marker, socket, inGroup, list>>

-----------------------------------------------------------------------------
(* PATCH /notifications/{id}/read/: NotificationService.mark_read *)

\* An unread row of this user is read.
MarkGet(m, n) ==
    /\ marker[m] = 0 /\ n \in store \ read
    /\ marker' = [marker EXCEPT ![m] = n]
    /\ UNCHANGED <<clock, store, read, owner, creator, clientVars, nf>>

\* Mutant: the row is not looked for again.
MarkSaveBlindly(m) ==
    /\ marker[m] # 0
    /\ read' = read \cup {marker[m]}
    /\ marker' = [marker EXCEPT ![m] = 0]
    /\ UNCHANGED <<clock, store, owner, creator, clientVars, nf>>

\* save(update_fields=["is_read"]); an error when the row is gone.
MarkSave(m) ==
    /\ marker[m] # 0
    /\ read' = read \cup ({marker[m]} \cap store)
    /\ marker' = [marker EXCEPT ![m] = 0]
    /\ nf' = IF list.pc \in {"count", "slice"} /\ list.unread
             THEN [nf EXCEPT !.shifted = TRUE] ELSE nf
    /\ UNCHANGED <<clock, store, owner, creator, clientVars>>

-----------------------------------------------------------------------------
(* NotificationConsumer *)

\* Mutant: accepted first, added to the group afterwards.
AcceptFirst ==
    /\ socket = "closed" /\ owner = "there"
    /\ socket' = "open"
    /\ UNCHANGED <<rowVars, inGroup, inbox, list, nf>>

JoinLater ==
    /\ socket = "open" /\ ~inGroup
    /\ inGroup' = TRUE
    /\ UNCHANGED <<rowVars, socket, inbox, list, nf>>

\* JWTAuthMiddleware found the user of the token; else the socket is closed with
\* 4001.  group_add comes first, then accept.
ConnectJoin ==
    /\ socket = "closed" /\ owner = "there"
    /\ socket' = "joining" /\ inGroup' = TRUE
    /\ UNCHANGED <<rowVars, inbox, list, nf>>

ConnectAccept ==
    /\ socket = "joining"
    /\ socket' = "open"
    /\ UNCHANGED <<rowVars, inGroup, inbox, list, nf>>

\* notification_message: sent on to the client.
Push(n) ==
    /\ socket = "open" /\ n \in inbox
    /\ inbox' = inbox \ {n}
    /\ nf' = [nf EXCEPT !.pushed = @ \cup {n}]
    /\ UNCHANGED <<rowVars, socket, inGroup, list>>

\* group_discard; a client that comes back starts afresh.
Disconnect ==
    /\ socket # "closed"
    /\ socket' = "closed" /\ inGroup' = FALSE /\ inbox' = {}
    /\ list' = NoList /\ nf' = NoHistory
    /\ UNCHANGED rowVars

-----------------------------------------------------------------------------
(* GET /notifications/, page by page *)

\* NotificationService.list_unread and list_all
Listed(unread) == IF unread THEN store \ read ELSE store

\* The page-th of a set of notifications, newest first, if it has that many.
Page(s, page) == {n \in s : Cardinality({k \in s : k > n}) = page - 1}

\* A connected client asks for the first page.
ListBegin(unread) ==
    /\ socket = "open" /\ list = NoList
    /\ list' = [pc |-> "count", unread |-> unread, page |-> 1, count |-> 0]
    /\ nf' = [nf EXCEPT !.before = Listed(unread)]
    /\ UNCHANGED <<rowVars, socket, inGroup, inbox>>

\* The paginator counts; a page beyond the last is a 404, and the walk ends.
ListCount ==
    LET n == Cardinality(Listed(list.unread)) IN
    /\ list.pc = "count"
    /\ list' = IF list.page > n THEN [list EXCEPT !.pc = "done"]
               ELSE [list EXCEPT !.pc = "slice", !.count = n]
    /\ UNCHANGED <<rowVars, socket, inGroup, inbox, nf>>

\* Mutant: unread notifications come first, as in a mailbox.
ListSliceUnreadFirst ==
    LET s == Listed(list.unread)
        new == s \ read
        k == Cardinality(new)
    IN
    /\ list.pc = "slice"
    /\ nf' = [nf EXCEPT !.got = @ \cup
                (IF list.page <= k THEN Page(new, list.page) ELSE Page(s \cap read, list.page - k))]
    /\ list' = IF list.page < list.count THEN [list EXCEPT !.pc = "count", !.page = @ + 1]
               ELSE [list EXCEPT !.pc = "done"]
    /\ UNCHANGED <<rowVars, socket, inGroup, inbox>>

\* The page is read, newest first; "next" goes by the count made before.
ListSlice ==
    /\ list.pc = "slice"
    /\ nf' = [nf EXCEPT !.got = @ \cup Page(Listed(list.unread), list.page)]
    /\ list' = IF list.page < list.count THEN [list EXCEPT !.pc = "count", !.page = @ + 1]
               ELSE [list EXCEPT !.pc = "done"]
    /\ UNCHANGED <<rowVars, socket, inGroup, inbox>>

-----------------------------------------------------------------------------
\* GDPRService deletes the rows; anonymize keeps the user, hard_delete does not.
EraseNotifications(mode) ==
    /\ owner = "there"
    /\ store' = {} /\ read' = {}
    /\ owner' = IF mode = "hard_delete" THEN "deleted" ELSE owner
    /\ UNCHANGED <<clock, creator, marker, clientVars, nf>>

\* A creator is killed before it has sent.
CreatorDies(c) ==
    /\ creator[c].pc # "idle"
    /\ creator' = [creator EXCEPT ![c] = NfIdle]
    /\ nf' = [nf EXCEPT !.lost = @ \cup {creator[c].note}]
    /\ UNCHANGED <<clock, store, read, owner, marker, clientVars>>

\* Mutant: see AcceptFirst.
ConnectLate == AcceptFirst \/ JoinLater

Connect == ConnectJoin \/ ConnectAccept

NotificationsNext ==
    \/ \E c \in Creators : CreateStamp(c) \/ CreateCommit(c) \/ CreateSend(c) \/ CreatorDies(c)
    \/ \E m \in Markers : MarkSave(m) \/ \E n \in Notes : MarkGet(m, n)
    \/ Connect \/ Disconnect
    \/ \E n \in Notes : Push(n)
    \/ \E unread \in BOOLEAN : ListBegin(unread)
    \/ ListCount \/ ListSlice
    \/ \E mode \in {"anonymize", "hard_delete"} : EraseNotifications(mode)

NotificationsSpec == NfInit /\ [][NotificationsNext]_nfVars

-----------------------------------------------------------------------------
(* Properties *)

\* The types of the variables.
NotificationsTypeOK ==
    /\ clock \in 0..MaxNotes
    /\ read \subseteq store /\ store \subseteq Notes
    /\ owner \in {"there", "deleted"}
    /\ creator \in [Creators -> [pc : {"idle", "commit", "send"}, note : 0..MaxNotes]]
    /\ marker \in [Markers -> 0..MaxNotes]
    /\ socket \in {"closed", "joining", "open"} /\ inGroup \in BOOLEAN
    /\ inbox \subseteq Notes
    /\ list \in [pc : {"none", "count", "slice", "done"}, unread : BOOLEAN,
                 page : 0..MaxNotes + 1, count : 0..MaxNotes]
    /\ nf.before \cup nf.got \cup nf.pushed \cup nf.lost \subseteq Notes

\* A client that has connected before it asks for the list misses nothing that is
\* stored afterwards: it is pushed, or on its way, or its push has failed.
NoGap ==
    socket = "open" /\ list.pc # "none" /\ ~list.unread =>
        \A n \in store \ nf.before :
            \/ n \in nf.pushed \cup inbox \cup nf.lost
            \/ \E c \in Creators : creator[c] = [pc |-> "send", note |-> n]

\* A client that follows "next" to the end has found every notification that was
\* there when it began and still is, unless one was stored between the count and
\* the reading of the last page, or one was marked read in a list of the unread.
ListMissesNothing ==
    list.pc = "done" =>
        nf.before \cap Listed(list.unread) \subseteq nf.got \/ nf.shifted
=============================================================================
