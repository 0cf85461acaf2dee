------------------------------ MODULE Billing ------------------------------
(***************************************************************************)
(* The billing pipeline: Stripe delivers an event to the webhook endpoint   *)
(* (apps/billing/views.py), the endpoint logs it and enqueues a Celery task *)
(* (apps/billing/tasks.py), a worker runs the task, whose handler           *)
(* (services/billing/billing_service.py) changes one Subscription row in a  *)
(* transaction and, for a failed payment, enqueues a dunning e-mail.        *)
(*                                                                          *)
(* Every step between which another process can run, or the process can be  *)
(* killed, is an action: the endpoint's database write and its call of      *)
(* delay, the handler's transaction and the call of delay after it, the     *)
(* storing of a task's result and its acknowledgement.                      *)
(***************************************************************************)
EXTENDS Integers, FiniteSets

CONSTANTS
    Events,        \* Stripe event ids
    Deliveries,    \* HTTP deliveries; Stripe repeats an event in a new one
    Workers,       \* Celery worker processes
    Customers,     \* Subscription rows, one for each Stripe customer / tenant
    Subs,          \* Stripe subscription ids
    NoEvent, NoSub, NoCustomer, NoMessage,
    Histories,     \* the contents Stripe may give to the events
    Accounts,      \* the Subscription rows the administrators may have created
    EventRetries,  \* max_retries of handle_stripe_event
    DunningRetries,\* max_retries of send_dunning_email
    Grace,         \* _GRACE_PERIOD_DAYS
    MaxTime,       \* bound: the last day of the clock
    MaxLost        \* bound: how often a worker is lost

VARIABLES
    event,     \* what Stripe says in each event; never changes
    http,      \* each delivery: the event and how far post() has come
    inbox,     \* the WebhookEvent rows
    queue,     \* messages in the broker that no worker holds
    worker,    \* what each worker does with the message it holds
    result,    \* stored results of the event tasks and of the dunning tasks
    sub,       \* the Subscription rows
    applied,   \* history: the rows the handler of each task has changed
    invoice,   \* history: the last invoice outcome committed to each row
    now,       \* the day
    lost       \* workers lost so far, up to MaxLost

vars == <<event, http, inbox, queue, worker, result, sub, applied, invoice, now, lost>>

HANDLED_EVENTS == {"created", "updated", "deleted", "payment_succeeded",
                   "payment_failed", "trial_will_end"}

Status == {"trialing", "active", "past_due", "unpaid", "canceled", "paused"}

Content == [type : HANDLED_EVENTS \cup {"other"}, sub : Subs \cup {NoSub},
            customer : Customers \cup {NoCustomer}, status : Status]

Kinds == {"event", "dunning"}

Messages == [kind : Kinds, id : Deliveries, tenant : Customers \cup {NoCustomer},
             retries : Nat]

NoGrace == 0

Row == [subId : Subs \cup {NoSub}, status : Status, grace : Nat]

ASSUME BillingAssumption ==
    /\ EventRetries \in Nat /\ DunningRetries \in Nat
    /\ Grace \in Nat \ {0} /\ MaxTime \in Nat /\ MaxLost \in Nat
    /\ Histories \subseteq [Events -> Content]
    /\ Accounts \subseteq {a \in [Customers -> Row] : \A c \in Customers : a[c].grace = NoGrace}
    /\ NoEvent \notin Events /\ NoSub \notin Subs /\ NoCustomer \notin Customers

-----------------------------------------------------------------------------
Max_retries(kind) == IF kind = "event" THEN EventRetries ELSE DunningRetries

EventTask(d) == [kind |-> "event", id |-> d, tenant |-> NoCustomer, retries |-> 0]

DunningTask(d, c) == [kind |-> "dunning", id |-> d, tenant |-> c, retries |-> 0]

IdleWorker == [pc |-> "idle", msg |-> NoMessage, tenant |-> NoCustomer]

\* The event that the event task d processes.
Ev(d) == event[http[d].ev]

\* The rows that get(stripe_subscription_id=...) finds: none for an empty id.
Attached(s) == {c \in Customers : s # NoSub /\ sub[c].subId = s}

\* Subscription.is_access_allowed
AccessAllowed(c) ==
    \/ sub[c].status \in {"active", "trialing"}
    \/ sub[c].status = "past_due" /\ sub[c].grace # NoGrace /\ now < sub[c].grace

Init ==
    /\ event \in Histories
    /\ http = [d \in Deliveries |-> [ev |-> NoEvent, pc |-> "unsent"]]
    /\ inbox = {}
    /\ queue = {}
    /\ worker = [w \in Workers |-> IdleWorker]
    /\ result = [k \in Kinds |-> [d \in Deliveries |-> "none"]]
    /\ sub \in Accounts
    /\ applied = [d \in Deliveries |-> {}]
    /\ invoice = [c \in Customers |-> [outcome |-> "none", at |-> 0]]
    /\ now = 0
    /\ lost = 0

-----------------------------------------------------------------------------
(* StripeWebhookView.post *)

rows == <<sub, applied, invoice>>
celery == <<worker, result, lost>>

\* A delivery arrives. A bad signature or a missing secret is answered with an
\* error, an event of another type with "ignored", before anything is touched.
Receive(d, e) ==
    /\ http[d].pc = "unsent"
    /\ \E answer \in {"received", "rejected", "ignored"} :
        /\ answer = "ignored" => event[e].type \notin HANDLED_EVENTS
        /\ answer = "received" => event[e].type \in HANDLED_EVENTS
        /\ http' = [http EXCEPT ![d] = [ev |-> e, pc |-> answer]]
    /\ UNCHANGED <<event, inbox, queue, celery, rows, now>>

\* Mutant: get, then create, with no unique key: both of two deliveries insert.
LogEventTwice(d) ==
    /\ http[d].pc = "received"
    /\ http' = [http EXCEPT ![d].pc = "created"]
    /\ inbox' = inbox \cup {http[d].ev}
    /\ UNCHANGED <<event, queue, celery, rows, now>>

\* WebhookEvent.objects.get_or_create: one atomic insert, committed at once.
LogEvent(d) ==
    /\ http[d].pc = "received"
    /\ http' = [http EXCEPT ![d].pc = IF http[d].ev \in inbox
                                      THEN "duplicate" ELSE "created"]
    /\ inbox' = inbox \cup {http[d].ev}
    /\ UNCHANGED <<event, queue, celery, rows, now>>

\* handle_stripe_event.delay
Dispatch(d) ==
    /\ http[d].pc = "created"
    /\ http' = [http EXCEPT ![d].pc = "queued"]
    /\ queue' = queue \cup {EventTask(d)}
    /\ UNCHANGED <<event, inbox, celery, rows, now>>

\* The request dies: the process is killed, the database or the broker is away.
\* What it committed stays (there is no ATOMIC_REQUESTS).
Abort(d) ==
    /\ http[d].pc \in {"received", "created"}
    /\ http' = [http EXCEPT ![d].pc = "error"]
    /\ UNCHANGED <<event, inbox, queue, celery, rows, now>>

-----------------------------------------------------------------------------
(* Celery: late acknowledgement, retries, loss of a worker *)

Fetch(w, m) ==
    /\ worker[w].pc = "idle"
    /\ m \in queue
    /\ queue' = queue \ {m}
    /\ worker' = [worker EXCEPT ![w] = [pc |-> "running", msg |-> m, tenant |-> NoCustomer]]
    /\ UNCHANGED <<event, http, inbox, result, rows, now, lost>>

Running(w, kind) == worker[w].pc = "running" /\ worker[w].msg.kind = kind

\* The task returns: its result is stored, the acknowledgement is still to come.
Finish(w, answer) ==
    /\ result' = [result EXCEPT ![worker[w].msg.kind][worker[w].msg.id] = answer]
    /\ worker' = [worker EXCEPT ![w].pc = "acking"]

\* Mutant: apply_async again instead of self.retry: the count starts over.
RetryForever(w) ==
    /\ queue' = queue \cup {worker[w].msg}
    /\ worker' = [worker EXCEPT ![w].pc = "acking"]
    /\ result' = result

\* raise self.retry(exc=exc): a new message with one retry more, or, when there
\* are none left, the failure is the task's result.
Retry(w) ==
    LET m == worker[w].msg IN
    IF m.retries >= Max_retries(m.kind)
    THEN Finish(w, "failed") /\ queue' = queue
    ELSE /\ queue' = queue \cup {[m EXCEPT !.retries = @ + 1]}
         /\ worker' = [worker EXCEPT ![w].pc = "acking"]
         /\ result' = result

Ack(w) ==
    /\ worker[w].pc = "acking"
    /\ worker' = [worker EXCEPT ![w] = IdleWorker]
    /\ UNCHANGED <<event, http, inbox, queue, result, rows, now, lost>>

\* Mutant: early acknowledgement.
WorkerLostForGood(w) ==
    /\ lost < MaxLost
    /\ worker[w].pc # "idle"
    /\ worker' = [worker EXCEPT ![w] = IdleWorker]
    /\ lost' = lost + 1
    /\ UNCHANGED <<event, http, inbox, queue, result, rows, now>>

\* CELERY_TASK_ACKS_LATE and CELERY_TASK_REJECT_ON_WORKER_LOST: the broker
\* hands the unacknowledged message out again.
WorkerLost(w) ==
    /\ lost < MaxLost
    /\ worker[w].pc # "idle"
    /\ queue' = queue \cup {worker[w].msg}
    /\ worker' = [worker EXCEPT ![w] = IdleWorker]
    /\ lost' = lost + 1
    /\ UNCHANGED <<event, http, inbox, result, rows, now>>

-----------------------------------------------------------------------------
(* BillingService.process_event: one handler for each type of event. The     *)
(* handler's transaction locks its row (select_for_update), so it is one     *)
(* step; a handler that finds no row changes nothing and the task succeeds.  *)

Handling(w, type) == Running(w, "event") /\ Ev(worker[w].msg.id).type = type

Skip(w) == Finish(w, "processed") /\ UNCHANGED rows

\* The transaction commits row r for customer c.
Commit(w, c, r) ==
    /\ sub' = [sub EXCEPT ![c] = r]
    /\ applied' = [applied EXCEPT ![worker[w].msg.id] = @ \cup {c}]

Outcome(c, outcome) == invoice' = [invoice EXCEPT ![c] = [outcome |-> outcome, at |-> now]]

\* stripe_subscription_id is unique: another row holding it makes save() raise.
IdTaken(c, s) == \E other \in Customers \ {c} : sub[other].subId = s

OnSubscriptionCreated(w) ==
    /\ Handling(w, "created")
    /\ LET e == Ev(worker[w].msg.id) IN
       \/ /\ e.customer \in Customers /\ ~IdTaken(e.customer, e.sub)
          /\ Commit(w, e.customer, [sub[e.customer] EXCEPT !.subId = e.sub, !.status = e.status])
          /\ Finish(w, "processed")
          /\ UNCHANGED <<queue, invoice>>
       \/ /\ e.customer \in Customers /\ IdTaken(e.customer, e.sub)
          /\ Retry(w) /\ UNCHANGED rows
       \/ e.customer \notin Customers /\ Skip(w) /\ UNCHANGED queue
    /\ UNCHANGED <<event, http, inbox, now, lost>>

OnSubscriptionUpdated(w) ==
    /\ Handling(w, "updated")
    /\ LET e == Ev(worker[w].msg.id) IN
       \/ \E c \in Attached(e.sub) :
             /\ Commit(w, c, [sub[c] EXCEPT !.status = e.status])
             /\ UNCHANGED invoice
             /\ Finish(w, "processed")
       \/ Attached(e.sub) = {} /\ Skip(w)
    /\ UNCHANGED <<event, http, inbox, queue, now, lost>>

OnSubscriptionCanceled(w) ==
    /\ Handling(w, "deleted")
    /\ LET e == Ev(worker[w].msg.id) IN
       \/ \E c \in Attached(e.sub) :
             /\ Commit(w, c, [sub[c] EXCEPT !.status = "canceled", !.grace = NoGrace])
             /\ Outcome(c, "ended")
             /\ Finish(w, "processed")
       \/ Attached(e.sub) = {} /\ Skip(w)
    /\ UNCHANGED <<event, http, inbox, queue, now, lost>>

\* Mutant: update_fields without grace_period_end.
OnPaymentSucceededKeepsGrace(w) ==
    /\ Handling(w, "payment_succeeded")
    /\ LET e == Ev(worker[w].msg.id) IN
       \/ \E c \in Attached(e.sub) :
             /\ Commit(w, c, [sub[c] EXCEPT !.status = "active"])
             /\ Outcome(c, "paid")
             /\ Finish(w, "processed")
       \/ Attached(e.sub) = {} /\ Skip(w)
    /\ UNCHANGED <<event, http, inbox, queue, now, lost>>

OnPaymentSucceeded(w) ==
    /\ Handling(w, "payment_succeeded")
    /\ LET e == Ev(worker[w].msg.id) IN
       \/ \E c \in Attached(e.sub) :
             /\ Commit(w, c, [sub[c] EXCEPT !.status = "active", !.grace = NoGrace])
             /\ Outcome(c, "paid")
             /\ Finish(w, "processed")
       \/ Attached(e.sub) = {} /\ Skip(w)
    /\ UNCHANGED <<event, http, inbox, queue, now, lost>>

\* Mutant: tenant_id is not taken from the locked row.
OnPaymentFailedNoTenant(w) ==
    /\ Handling(w, "payment_failed")
    /\ LET e == Ev(worker[w].msg.id) IN
       \/ \E c \in Attached(e.sub) :
             /\ Commit(w, c, [sub[c] EXCEPT !.status = "past_due", !.grace = now + Grace])
             /\ Outcome(c, "failed")
             /\ worker' = [worker EXCEPT ![w].pc = "dunning"]
             /\ UNCHANGED result
       \/ Attached(e.sub) = {} /\ Skip(w)
    /\ UNCHANGED <<event, http, inbox, queue, now, lost>>

\* Mutant: delay is called although no row was found.
OnPaymentFailedNoReturn(w) ==
    /\ Handling(w, "payment_failed")
    /\ \E c \in Customers :
          /\ Attached(Ev(worker[w].msg.id).sub) = {} /\ UNCHANGED rows
          /\ worker' = [worker EXCEPT ![w] = [@ EXCEPT !.pc = "dunning", !.tenant = c]]
    /\ UNCHANGED <<event, http, inbox, queue, result, now, lost>>

\* The transaction of a failed payment; send_dunning_email.delay comes after it.
OnPaymentFailed(w) ==
    /\ Handling(w, "payment_failed")
    /\ LET e == Ev(worker[w].msg.id) IN
       \/ \E c \in Attached(e.sub) :
             /\ Commit(w, c, [sub[c] EXCEPT !.status = "past_due", !.grace = now + Grace])
             /\ Outcome(c, "failed")
             /\ worker' = [worker EXCEPT ![w] = [@ EXCEPT !.pc = "dunning", !.tenant = c]]
             /\ UNCHANGED result
       \/ Attached(e.sub) = {} /\ Skip(w)
    /\ UNCHANGED <<event, http, inbox, queue, now, lost>>

EnqueueDunning(w) ==
    /\ worker[w].pc = "dunning"
    /\ queue' = queue \cup {DunningTask(worker[w].msg.id, worker[w].tenant)}
    /\ Finish(w, "processed")
    /\ UNCHANGED <<event, http, inbox, rows, now, lost>>

\* Only logs: the trial-ending e-mail is a TODO in the code.
OnTrialEnding(w) ==
    /\ Handling(w, "trial_will_end")
    /\ Skip(w)
    /\ UNCHANGED <<event, http, inbox, queue, now, lost>>

\* Mutant: a failing delay is swallowed.
HandlerSwallows(w) ==
    /\ Running(w, "event") \/ worker[w].pc = "dunning"
    /\ IF worker[w].pc = "dunning" THEN Finish(w, "processed") /\ queue' = queue ELSE Retry(w)
    /\ UNCHANGED <<event, http, inbox, rows, now, lost>>

\* The database fails before the commit, or the broker after it; handle_stripe_event
\* catches every exception and retries.
HandlerRaises(w) ==
    /\ Running(w, "event") \/ worker[w].pc = "dunning"
    /\ Retry(w)
    /\ UNCHANGED <<event, http, inbox, rows, now, lost>>

-----------------------------------------------------------------------------
(* send_dunning_email *)

\* Whether the tenant has an owner is up to the roles, which are elsewhere.
SendDunningEmail(w) ==
    /\ Running(w, "dunning")
    /\ \E answer \in {"sent", "no_owner"} : Finish(w, answer)
    /\ UNCHANGED <<event, http, inbox, queue, rows, now, lost>>

DunningRaises(w) ==
    /\ Running(w, "dunning")
    /\ Retry(w)
    /\ UNCHANGED <<event, http, inbox, rows, now, lost>>

-----------------------------------------------------------------------------
Tick ==
    /\ now < MaxTime
    /\ now' = now + 1
    /\ UNCHANGED <<event, http, inbox, queue, celery, rows>>

Work(w) ==
    \/ \E m \in queue : Fetch(w, m)
    \/ OnSubscriptionCreated(w) \/ OnSubscriptionUpdated(w)
    \/ OnSubscriptionCanceled(w) \/ OnPaymentSucceeded(w)
    \/ OnPaymentFailed(w) \/ EnqueueDunning(w)
    \/ OnTrialEnding(w) \/ HandlerRaises(w)
    \/ SendDunningEmail(w) \/ DunningRaises(w)
    \/ Ack(w)

Next ==
    \/ \E d \in Deliveries :
          \/ \E e \in Events : Receive(d, e)
          \/ LogEvent(d) \/ Dispatch(d) \/ Abort(d)
    \/ \E w \in Workers : Work(w) \/ WorkerLost(w)
    \/ Tick

Spec == Init /\ [][Next]_vars

\* Celery keeps its workers running; requests, time and losses owe us nothing.
FairSpec == Spec /\ \A w \in Workers : WF_vars(Work(w))

-----------------------------------------------------------------------------
(* Properties *)

HttpTypeOK ==
    /\ http \in [Deliveries -> [ev : Events \cup {NoEvent},
                 pc : {"unsent", "received", "rejected", "ignored", "duplicate",
                       "created", "queued", "error"}]]
    /\ \A d \in Deliveries : http[d].pc # "unsent" => http[d].ev \in Events

CeleryTypeOK ==
    /\ queue \subseteq Messages
    /\ worker \in [Workers -> [pc : {"idle", "running", "dunning", "acking"},
                              msg : Messages \cup {NoMessage},
                              tenant : Customers \cup {NoCustomer}]]
    /\ \A w \in Workers : /\ worker[w].pc # "idle" => worker[w].msg \in Messages
                          /\ worker[w].pc = "dunning" => worker[w].tenant \in Customers
    /\ result \in [Kinds -> [Deliveries -> {"none", "processed", "failed", "sent", "no_owner"}]]

RowsTypeOK ==
    /\ sub \in [Customers -> Row]
    /\ applied \in [Deliveries -> SUBSET Customers]
    /\ invoice \in [Customers -> [outcome : {"none", "failed", "paid", "ended"}, at : Nat]]

\* The types of the variables: every busy worker holds a message, and a worker
\* about to enqueue a dunning task holds the tenant it is for.
TypeOK ==
    /\ event \in [Events -> Content]
    /\ inbox \subseteq Events
    /\ now \in Nat /\ lost \in Nat
    /\ HttpTypeOK /\ CeleryTypeOK /\ RowsTypeOK

Held == {worker[w].msg : w \in {v \in Workers : worker[v].pc # "idle"}}

InFlight(kind, d) == \E m \in queue \cup Held : m.kind = kind /\ m.id = d

\* The inductive invariant behind TypeOK and DispatchedOnce: a message in the
\* broker or with a worker comes from a delivery that called delay, and of the
\* deliveries of an event at most one has inserted its WebhookEvent row.
MessagesBacked ==
    /\ \A m \in queue : http[m.id].pc = "queued"
    /\ \A w \in Workers : worker[w].pc # "idle" => http[worker[w].msg.id].pc = "queued"

Claimed(d) == http[d].pc \in {"created", "queued"}

ClaimedOnce ==
    /\ \A d \in Deliveries : Claimed(d) => http[d].ev \in inbox
    /\ \A d1, d2 \in Deliveries :
          Claimed(d1) /\ Claimed(d2) /\ http[d1].ev = http[d2].ev => d1 = d2

IndInv == TypeOK /\ MessagesBacked /\ ClaimedOnce

\* However many deliveries of an event run at the same time, and wherever they
\* die, at most one of them enqueues its task (the get_or_create guard of post).
DispatchedOnce ==
    \A d1, d2 \in Deliveries :
        http[d1].pc = "queued" /\ http[d2].pc = "queued" /\ http[d1].ev = http[d2].ev
            => d1 = d2

\* A task that was enqueued is with the broker or a worker until its result is
\* stored, whatever workers are lost and however often it is retried.
TaskNotLost ==
    \A d \in Deliveries :
        http[d].pc = "queued" => InFlight("event", d) \/ result["event"][d] # "none"

\* A past-due tenant has access only for the grace period after the latest
\* failed payment, and only while no later payment or cancellation is recorded:
\* no order of events and retries revives an old grace period.
GraceJustified ==
    \A c \in Customers :
        sub[c].status = "past_due" /\ AccessAllowed(c) =>
            invoice[c].outcome = "failed" /\ now < invoice[c].at + Grace

\* When the task of a failed payment has been processed, and none of its
\* messages is left, the tenants it made past due get a dunning task. The one
\* exception: a new subscription was created for the tenant after the commit and
\* before the rerun of a task that was lost or retried before delay.
DunningFollows ==
    \A d \in Deliveries :
        /\ result["event"][d] = "processed" /\ Ev(d).type = "payment_failed"
        /\ applied[d] # {} /\ ~InFlight("event", d)
        => \/ InFlight("dunning", d) \/ result["dunning"][d] # "none"
           \/ \E new \in Deliveries : /\ applied[new] \cap applied[d] # {}
                                      /\ Ev(new).type = "created" /\ Ev(new).sub # Ev(d).sub

\* A dunning e-mail goes out only for a failed payment that is committed.
DunningBacked ==
    \A d \in Deliveries :
        result["dunning"][d] = "sent" => Ev(d).type = "payment_failed" /\ applied[d] # {}

\* Every task stops: it is not retried or handed out for ever.
TasksSettle ==
    \A k \in Kinds, d \in Deliveries : InFlight(k, d) ~> ~InFlight(k, d)

\* The pipeline implements WebhookInbox, settling included.
Dispatched(e) == {d \in Deliveries : http[d].ev = e /\ http[d].pc = "queued"}

Inbox == INSTANCE WebhookInbox WITH
            accepted <- inbox,
            dispatches <- [e \in Events |-> Cardinality(Dispatched(e))],
            settled <- {e \in Events : \E d \in Dispatched(e) : result["event"][d] # "none"}

InboxSpec == Inbox!FairSpec

\* README.md calls the webhook processing idempotent: a second run of a task whose
\* handler has committed leaves the rows as they are.
ProcessingIdempotent ==
    [][\A w \in Workers :
        Running(w, "event") /\ worker'[w].pc # "running" /\ applied[worker[w].msg.id] # {}
            => sub' = sub]_vars

\* The endpoint deduplicates events and dispatches them: an event answered with
\* "duplicate" has been dispatched, or its first delivery is about to.
DuplicateIsDispatched ==
    \A d \in Deliveries : http[d].pc = "duplicate" =>
        \E first \in Deliveries :
            http[first].ev = http[d].ev /\ http[first].pc \in {"created", "queued"}
=============================================================================
