--------------------------- MODULE BillingProofs ---------------------------
(***************************************************************************)
(* Theorems about Billing, for any number of events, deliveries, workers    *)
(* and rows, any retry limits and any contents of the events.               *)
(***************************************************************************)
EXTENDS Billing, FiniteSetTheorems, TLAPS

-----------------------------------------------------------------------------
(* Type correctness *)

Answers == {"processed", "failed", "sent", "no_owner"}

\* A task that returns leaves Celery's state well typed.
LEMMA FinishType ==
    ASSUME CeleryTypeOK, NEW w \in Workers, worker[w].pc # "idle",
           NEW answer \in Answers, Finish(w, answer), queue' \subseteq Messages
    PROVE  CeleryTypeOK'
<1>1. worker[w].msg \in Messages
  BY DEF CeleryTypeOK
<1>2. worker[w].msg.kind \in Kinds /\ worker[w].msg.id \in Deliveries
  BY <1>1 DEF Messages
<1>3. result' \in [Kinds -> [Deliveries -> {"none", "processed", "failed", "sent", "no_owner"}]]
  BY <1>2 DEF CeleryTypeOK, Finish, Answers
<1>4. worker' \in [Workers -> [pc : {"idle", "running", "dunning", "acking"},
                              msg : Messages \cup {NoMessage},
                              tenant : Customers \cup {NoCustomer}]]
  BY DEF CeleryTypeOK, Finish
<1>5. \A v \in Workers : /\ worker'[v].pc # "idle" => worker'[v].msg \in Messages
                         /\ worker'[v].pc = "dunning" => worker'[v].tenant \in Customers
  BY <1>1 DEF CeleryTypeOK, Finish
<1> QED
  BY <1>3, <1>4, <1>5 DEF CeleryTypeOK

\* So does a task that raises.
LEMMA RetryType ==
    ASSUME CeleryTypeOK, NEW w \in Workers, worker[w].pc # "idle", Retry(w)
    PROVE  CeleryTypeOK'
<1> DEFINE m == worker[w].msg
<1>1. m \in Messages
  BY DEF CeleryTypeOK
<1>2. CASE m.retries >= Max_retries(m.kind)
  BY <1>2, FinishType DEF Retry, CeleryTypeOK, Answers
<1>3. CASE ~(m.retries >= Max_retries(m.kind))
  <2>1. [m EXCEPT !.retries = @ + 1] \in Messages
    BY <1>1 DEF Messages
  <2>2. queue' \subseteq Messages /\ result' = result
    BY <1>3, <2>1 DEF Retry, CeleryTypeOK
  <2>3. worker' = [worker EXCEPT ![w].pc = "acking"]
    BY <1>3 DEF Retry
  <2> QED
    BY <1>1, <2>2, <2>3 DEF CeleryTypeOK
<1> QED
  BY <1>2, <1>3

\* Stripe's endpoint keeps the types.
LEMMA EndpointType ==
    ASSUME TypeOK, NEW d \in Deliveries,
           \/ \E e \in Events : Receive(d, e)
           \/ LogEvent(d) \/ Dispatch(d) \/ Abort(d)
    PROVE  TypeOK'
<1>1. ASSUME NEW e \in Events, Receive(d, e)  PROVE TypeOK'
  BY <1>1 DEF TypeOK, HttpTypeOK, CeleryTypeOK, RowsTypeOK, Receive, celery, rows
<1>2. CASE LogEvent(d)
  BY <1>2 DEF TypeOK, HttpTypeOK, CeleryTypeOK, RowsTypeOK, LogEvent, celery, rows
<1>3. CASE Dispatch(d)
  <2>1. EventTask(d) \in Messages
    BY DEF EventTask, Messages, Kinds
  <2> QED
    BY <1>3, <2>1 DEF TypeOK, HttpTypeOK, CeleryTypeOK, RowsTypeOK, Dispatch, celery, rows
<1>4. CASE Abort(d)
  BY <1>4 DEF TypeOK, HttpTypeOK, CeleryTypeOK, RowsTypeOK, Abort, celery, rows
<1> QED
  BY <1>1, <1>2, <1>3, <1>4

\* Every message that a worker holds has its event's contents.
LEMMA EventOfTask ==
    ASSUME TypeOK, MessagesBacked, NEW w \in Workers, worker[w].pc # "idle"
    PROVE  /\ worker[w].msg \in Messages /\ worker[w].msg.id \in Deliveries
           /\ Ev(worker[w].msg.id) \in Content
<1>1. worker[w].msg \in Messages
  BY DEF TypeOK, CeleryTypeOK
<1>2. worker[w].msg.id \in Deliveries
  BY <1>1 DEF Messages
<1>3. http[worker[w].msg.id].ev \in Events
  BY <1>2 DEF MessagesBacked, TypeOK, HttpTypeOK
<1> QED
  BY <1>1, <1>2, <1>3 DEF TypeOK, Ev

\* A transaction that commits a well-typed row keeps the rows' types.
LEMMA CommitType ==
    ASSUME RowsTypeOK, NEW w \in Workers, worker[w].msg.id \in Deliveries,
           NEW c \in Customers, NEW r \in Row, Commit(w, c, r)
    PROVE  /\ sub' \in [Customers -> Row]
           /\ applied' \in [Deliveries -> SUBSET Customers]
BY DEF RowsTypeOK, Commit

\* So does the record of an invoice outcome.
LEMMA OutcomeType ==
    ASSUME RowsTypeOK, now \in Nat, NEW c \in Customers,
           NEW o \in {"failed", "paid", "ended"}, Outcome(c, o)
    PROVE  invoice' \in [Customers -> [outcome : {"none", "failed", "paid", "ended"}, at : Nat]]
BY DEF RowsTypeOK, Outcome

\* The handlers of a subscription's events keep the types.
LEMMA SubscriptionType ==
    ASSUME TypeOK, MessagesBacked, NEW w \in Workers,
           OnSubscriptionCreated(w) \/ OnSubscriptionUpdated(w) \/ OnSubscriptionCanceled(w)
    PROVE  TypeOK'
<1> DEFINE m == worker[w].msg
           e == Ev(m.id)
<1>1. worker[w].pc # "idle"
  BY DEF OnSubscriptionCreated, OnSubscriptionUpdated, OnSubscriptionCanceled, Handling, Running
<1>2. m.id \in Deliveries /\ e \in Content
  BY <1>1, EventOfTask
<1>3. e.status \in Status /\ e.sub \in Subs \cup {NoSub}
  BY <1>2 DEF Content
<1>4. ASSUME Finish(w, "processed"), queue' = queue  PROVE CeleryTypeOK'
  BY <1>1, <1>4, FinishType DEF TypeOK, CeleryTypeOK, Answers
<1>5. \A c \in Customers : sub[c] \in Row
  BY DEF TypeOK, RowsTypeOK
<1>6. CASE OnSubscriptionCreated(w)
  <2>1. UNCHANGED <<event, http, inbox, now, lost>>
    BY <1>6 DEF OnSubscriptionCreated
  <2>2. ASSUME e.customer \in Customers,
               Commit(w, e.customer, [sub[e.customer] EXCEPT !.subId = e.sub, !.status = e.status]),
               Finish(w, "processed"), UNCHANGED <<queue, invoice>>
        PROVE  RowsTypeOK' /\ CeleryTypeOK'
    <3>1. [sub[e.customer] EXCEPT !.subId = e.sub, !.status = e.status] \in Row
      BY <1>3, <1>5, <2>2 DEF Row
    <3>2. RowsTypeOK'
      BY <1>2, <2>2, <3>1, CommitType DEF TypeOK, RowsTypeOK
    <3> QED
      BY <1>4, <2>2, <3>2
  <2>3. ASSUME Retry(w), UNCHANGED rows  PROVE RowsTypeOK' /\ CeleryTypeOK'
    BY <1>1, <2>3, RetryType DEF TypeOK, RowsTypeOK, rows
  <2>4. ASSUME Skip(w), UNCHANGED queue  PROVE RowsTypeOK' /\ CeleryTypeOK'
    BY <1>4, <2>4 DEF TypeOK, RowsTypeOK, Skip, rows
  <2>5. RowsTypeOK' /\ CeleryTypeOK'
    BY <1>6, <2>2, <2>3, <2>4 DEF OnSubscriptionCreated
  <2> QED
    BY <2>1, <2>5 DEF TypeOK, HttpTypeOK
<1>7. ASSUME Skip(w), UNCHANGED queue  PROVE RowsTypeOK' /\ CeleryTypeOK'
  BY <1>4, <1>7 DEF TypeOK, RowsTypeOK, Skip, rows
<1>8. CASE OnSubscriptionUpdated(w)
  <2>1. UNCHANGED <<event, http, inbox, queue, now, lost>>
    BY <1>8 DEF OnSubscriptionUpdated
  <2>2. ASSUME NEW c \in Customers, Commit(w, c, [sub[c] EXCEPT !.status = e.status]),
               UNCHANGED invoice, Finish(w, "processed")
        PROVE  RowsTypeOK' /\ CeleryTypeOK'
    <3>1. [sub[c] EXCEPT !.status = e.status] \in Row
      BY <1>3, <1>5 DEF Row
    <3> QED
      BY <1>2, <1>4, <2>1, <2>2, <3>1, CommitType DEF TypeOK, RowsTypeOK
  <2>3. RowsTypeOK' /\ CeleryTypeOK'
    BY <1>7, <1>8, <2>1, <2>2 DEF OnSubscriptionUpdated, Attached
  <2> QED
    BY <2>1, <2>3 DEF TypeOK, HttpTypeOK
<1>9. CASE OnSubscriptionCanceled(w)
  <2>1. UNCHANGED <<event, http, inbox, queue, now, lost>>
    BY <1>9 DEF OnSubscriptionCanceled
  <2>2. ASSUME NEW c \in Customers,
               Commit(w, c, [sub[c] EXCEPT !.status = "canceled", !.grace = NoGrace]),
               Outcome(c, "ended"), Finish(w, "processed")
        PROVE  RowsTypeOK' /\ CeleryTypeOK'
    <3>1. [sub[c] EXCEPT !.status = "canceled", !.grace = NoGrace] \in Row
      BY <1>5 DEF Row, Status, NoGrace
    <3> QED
      BY <1>2, <1>4, <2>1, <2>2, <3>1, CommitType, OutcomeType DEF TypeOK, RowsTypeOK
  <2>3. RowsTypeOK' /\ CeleryTypeOK'
    BY <1>7, <1>9, <2>1, <2>2 DEF OnSubscriptionCanceled, Attached
  <2> QED
    BY <2>1, <2>3 DEF TypeOK, HttpTypeOK
<1> QED
  BY <1>6, <1>8, <1>9

\* A worker that goes on to enqueue a dunning task keeps Celery's types.
LEMMA HoldTenantType ==
    ASSUME CeleryTypeOK, NEW w \in Workers, NEW c \in Customers,
           worker[w].msg \in Messages, UNCHANGED <<queue, result>>,
           worker' = [worker EXCEPT ![w] = [@ EXCEPT !.pc = "dunning", !.tenant = c]]
    PROVE  CeleryTypeOK'
<1>1. queue' \subseteq Messages
  BY DEF CeleryTypeOK
<1>2. result' \in [Kinds -> [Deliveries -> {"none", "processed", "failed", "sent", "no_owner"}]]
  BY DEF CeleryTypeOK
<1>3. [worker[w] EXCEPT !.pc = "dunning", !.tenant = c] \in
         [pc : {"idle", "running", "dunning", "acking"}, msg : Messages \cup {NoMessage},
          tenant : Customers \cup {NoCustomer}]
  BY DEF CeleryTypeOK
<1>4. worker' \in [Workers -> [pc : {"idle", "running", "dunning", "acking"},
                              msg : Messages \cup {NoMessage},
                              tenant : Customers \cup {NoCustomer}]]
  BY <1>3 DEF CeleryTypeOK
<1>5. \A v \in Workers : /\ worker'[v].pc # "idle" => worker'[v].msg \in Messages
                         /\ worker'[v].pc = "dunning" => worker'[v].tenant \in Customers
  BY DEF CeleryTypeOK
<1> QED
  BY <1>1, <1>2, <1>4, <1>5 DEF CeleryTypeOK

\* The handlers of invoices and of the trial's end keep the types.
LEMMA InvoiceType ==
    ASSUME TypeOK, MessagesBacked, NEW w \in Workers,
           \/ OnPaymentSucceeded(w) \/ OnPaymentFailed(w)
           \/ EnqueueDunning(w) \/ OnTrialEnding(w)
    PROVE  TypeOK'
<1> DEFINE m == worker[w].msg
           e == Ev(m.id)
<1>1. worker[w].pc # "idle"
  BY DEF OnPaymentSucceeded, OnPaymentFailed, EnqueueDunning, OnTrialEnding, Handling, Running
<1>2. m \in Messages /\ m.id \in Deliveries
  BY <1>1, EventOfTask
<1>3. ASSUME Finish(w, "processed"), queue' \subseteq Messages  PROVE CeleryTypeOK'
  BY <1>1, <1>3, FinishType DEF TypeOK, Answers
<1>4. ASSUME Skip(w), UNCHANGED queue  PROVE RowsTypeOK' /\ CeleryTypeOK'
  BY <1>3, <1>4 DEF TypeOK, CeleryTypeOK, RowsTypeOK, Skip, rows
<1>5. \A c \in Customers : sub[c] \in Row
  BY DEF TypeOK, RowsTypeOK
<1>6. CASE OnPaymentSucceeded(w)
  <2>1. UNCHANGED <<event, http, inbox, queue, now, lost>>
    BY <1>6 DEF OnPaymentSucceeded
  <2>2. ASSUME NEW c \in Customers,
               Commit(w, c, [sub[c] EXCEPT !.status = "active", !.grace = NoGrace]),
               Outcome(c, "paid"), Finish(w, "processed")
        PROVE  RowsTypeOK' /\ CeleryTypeOK'
    <3>1. [sub[c] EXCEPT !.status = "active", !.grace = NoGrace] \in Row
      BY <1>5 DEF Row, Status, NoGrace
    <3>2. queue' \subseteq Messages
      BY <2>1 DEF TypeOK, CeleryTypeOK
    <3> QED
      BY <1>2, <1>3, <2>1, <2>2, <3>1, <3>2, CommitType, OutcomeType DEF TypeOK, RowsTypeOK
  <2>3. RowsTypeOK' /\ CeleryTypeOK'
    BY <1>4, <1>6, <2>1, <2>2 DEF OnPaymentSucceeded, Attached
  <2> QED
    BY <2>1, <2>3 DEF TypeOK, HttpTypeOK
<1>7. CASE OnPaymentFailed(w)
  <2>1. UNCHANGED <<event, http, inbox, queue, now, lost>>
    BY <1>7 DEF OnPaymentFailed
  <2>2. ASSUME NEW c \in Customers,
               Commit(w, c, [sub[c] EXCEPT !.status = "past_due", !.grace = now + Grace]),
               Outcome(c, "failed"), UNCHANGED result,
               worker' = [worker EXCEPT ![w] = [@ EXCEPT !.pc = "dunning", !.tenant = c]]
        PROVE  RowsTypeOK' /\ CeleryTypeOK'
    <3>1. [sub[c] EXCEPT !.status = "past_due", !.grace = now + Grace] \in Row
      <4>1. now + Grace \in Nat
        <5>1. now \in Nat
          BY DEF TypeOK
        <5> QED
          BY <5>1, BillingAssumption
      <4>2. "past_due" \in Status
        BY DEF Status
      <4> QED
        BY <1>5, <4>1, <4>2 DEF Row
    <3>2. RowsTypeOK'
      BY <1>2, <2>2, <3>1, CommitType, OutcomeType DEF TypeOK, RowsTypeOK
    <3>3. CeleryTypeOK'
      BY <1>2, <2>1, <2>2, HoldTenantType DEF TypeOK
    <3> QED
      BY <3>2, <3>3
  <2>3. RowsTypeOK' /\ CeleryTypeOK'
    BY <1>4, <1>7, <2>1, <2>2 DEF OnPaymentFailed, Attached
  <2> QED
    BY <2>1, <2>3 DEF TypeOK, HttpTypeOK
<1>8. CASE EnqueueDunning(w)
  <2>1. worker[w].tenant \in Customers
    BY <1>8 DEF EnqueueDunning, TypeOK, CeleryTypeOK
  <2>2. DunningTask(m.id, worker[w].tenant) \in Messages
    BY <1>2, <2>1 DEF DunningTask, Messages, Kinds
  <2>3. CeleryTypeOK'
    BY <1>3, <1>8, <2>2 DEF EnqueueDunning, TypeOK, CeleryTypeOK
  <2> QED
    BY <1>8, <2>3 DEF EnqueueDunning, TypeOK, HttpTypeOK, RowsTypeOK, rows
<1>9. CASE OnTrialEnding(w)
  BY <1>4, <1>9 DEF OnTrialEnding, TypeOK, HttpTypeOK
<1> QED
  BY <1>6, <1>7, <1>8, <1>9

\* Celery's own steps, and the dunning task, keep the types.
LEMMA CeleryType ==
    ASSUME TypeOK, NEW w \in Workers,
           \/ \E m \in queue : Fetch(w, m)
           \/ HandlerRaises(w) \/ SendDunningEmail(w) \/ DunningRaises(w)
           \/ Ack(w) \/ WorkerLost(w)
    PROVE  TypeOK'
<1>1. ASSUME NEW m \in queue, Fetch(w, m)  PROVE TypeOK'
  BY <1>1 DEF Fetch, TypeOK, HttpTypeOK, CeleryTypeOK, RowsTypeOK, rows
<1>2. ASSUME Retry(w), worker[w].pc # "idle", UNCHANGED <<event, http, inbox, rows, now, lost>>
      PROVE  TypeOK'
  BY <1>2, RetryType DEF TypeOK, HttpTypeOK, RowsTypeOK, rows
<1>3. CASE HandlerRaises(w)
  BY <1>2, <1>3 DEF HandlerRaises, Running
<1>4. CASE DunningRaises(w)
  BY <1>2, <1>4 DEF DunningRaises, Running
<1>5. CASE SendDunningEmail(w)
  <2>1. worker[w].pc # "idle" /\ queue' \subseteq Messages
    BY <1>5 DEF SendDunningEmail, Running, TypeOK, CeleryTypeOK
  <2>2. CeleryTypeOK'
    BY <1>5, <2>1, FinishType DEF SendDunningEmail, Answers, TypeOK
  <2> QED
    BY <1>5, <2>2 DEF SendDunningEmail, TypeOK, HttpTypeOK, RowsTypeOK, rows
<1>6. CASE Ack(w)
  BY <1>6 DEF Ack, IdleWorker, TypeOK, HttpTypeOK, CeleryTypeOK, RowsTypeOK, rows
<1>7. CASE WorkerLost(w)
  <2>1. worker[w].msg \in Messages
    BY <1>7 DEF WorkerLost, TypeOK, CeleryTypeOK
  <2> QED
    BY <1>7, <2>1 DEF WorkerLost, IdleWorker, TypeOK, HttpTypeOK, CeleryTypeOK, RowsTypeOK, rows
<1> QED
  BY <1>1, <1>3, <1>4, <1>5, <1>6, <1>7

\* The initial states are well typed: the administrators' rows included.
LEMMA InitType == Init => TypeOK
<1> SUFFICES ASSUME Init PROVE TypeOK
  OBVIOUS
<1>1. CeleryTypeOK
  BY DEF Init, CeleryTypeOK, IdleWorker
<1>2. RowsTypeOK /\ event \in [Events -> Content]
  BY BillingAssumption DEF Init, RowsTypeOK
<1>3. HttpTypeOK
  BY DEF Init, HttpTypeOK
<1> QED
  BY <1>1, <1>2, <1>3 DEF Init, TypeOK

\* So is every state after a step from a state of IndInv.
LEMMA StepType == TypeOK /\ MessagesBacked /\ [Next]_vars => TypeOK'
<1> SUFFICES ASSUME TypeOK, MessagesBacked, [Next]_vars PROVE TypeOK'
  OBVIOUS
<1>1. ASSUME NEW d \in Deliveries,
             (\E e \in Events : Receive(d, e)) \/ LogEvent(d) \/ Dispatch(d) \/ Abort(d)
      PROVE  TypeOK'
  BY <1>1, EndpointType
<1>2. ASSUME NEW w \in Workers, Work(w) \/ WorkerLost(w)  PROVE TypeOK'
  BY <1>2, SubscriptionType, InvoiceType, CeleryType DEF Work
<1>3. CASE Tick
  BY <1>3 DEF Tick, TypeOK, HttpTypeOK, CeleryTypeOK, RowsTypeOK, celery, rows
<1>4. CASE UNCHANGED vars
  BY <1>4 DEF vars, TypeOK, HttpTypeOK, CeleryTypeOK, RowsTypeOK
<1> QED
  BY <1>1, <1>2, <1>3, <1>4 DEF Next

-----------------------------------------------------------------------------
(* At most one task for each event *)

\* Where the messages come from after a step of worker w.
Source(w) ==
    /\ http' = http /\ inbox' = inbox
    /\ \A m \in queue' : m \in queue \/ (worker[w].pc # "idle" /\ m.id = worker[w].msg.id)
    /\ \A v \in Workers : worker'[v].pc # "idle" =>
          \/ worker[v].pc # "idle" /\ worker'[v].msg = worker[v].msg
          \/ worker'[v].msg \in queue

\* A worker that returns from its task sends nothing new.
LEMMA FinishSource ==
    ASSUME TypeOK, NEW w \in Workers, worker[w].pc # "idle", NEW answer, Finish(w, answer),
           UNCHANGED <<http, inbox>>,
           \A m \in queue' : m \in queue \/ m.id = worker[w].msg.id
    PROVE  Source(w)
BY DEF Finish, Source, TypeOK, CeleryTypeOK

\* One that retries sends its own task again.
LEMMA RetrySource ==
    ASSUME TypeOK, NEW w \in Workers, worker[w].pc # "idle", Retry(w), UNCHANGED <<http, inbox>>
    PROVE  Source(w)
<1> DEFINE m == worker[w].msg
<1>1. m \in Messages
  BY DEF TypeOK, CeleryTypeOK
<1>2. CASE m.retries >= Max_retries(m.kind)
  BY <1>2, FinishSource DEF Retry
<1>3. CASE ~(m.retries >= Max_retries(m.kind))
  <2>1. [m EXCEPT !.retries = @ + 1].id = m.id
    BY <1>1 DEF Messages
  <2>2. /\ queue' = queue \cup {[m EXCEPT !.retries = @ + 1]}
        /\ worker' = [worker EXCEPT ![w].pc = "acking"]
    BY <1>3 DEF Retry
  <2>3. \A n \in queue' : n \in queue \/ n.id = m.id
    BY <2>1, <2>2
  <2>4. \A v \in Workers : worker'[v].pc # "idle" =>
          worker[v].pc # "idle" /\ worker'[v].msg = worker[v].msg
    BY <2>2 DEF TypeOK, CeleryTypeOK
  <2> QED
    BY <2>3, <2>4 DEF Source
<1> QED
  BY <1>2, <1>3

\* Every step of a worker keeps to its own task and to what the broker holds.
LEMMA WorkSource ==
    ASSUME TypeOK, NEW w \in Workers, Work(w) \/ WorkerLost(w)
    PROVE  Source(w)
<1>1. ASSUME NEW answer, Finish(w, answer), worker[w].pc # "idle", UNCHANGED <<http, inbox, queue>>
      PROVE  Source(w)
  BY <1>1, FinishSource
<1>2. ASSUME NEW m \in queue, Fetch(w, m)  PROVE Source(w)
  BY <1>2 DEF Fetch, Source, TypeOK, CeleryTypeOK
<1>3. CASE OnSubscriptionCreated(w)
  <2>1. worker[w].pc # "idle" /\ UNCHANGED <<http, inbox>>
    BY <1>3 DEF OnSubscriptionCreated, Handling, Running
  <2>2. Retry(w) \/ (Finish(w, "processed") /\ UNCHANGED queue)
    BY <1>3 DEF OnSubscriptionCreated, Skip
  <2> QED
    BY <1>1, <2>1, <2>2, RetrySource
<1>4. CASE OnSubscriptionUpdated(w) \/ OnSubscriptionCanceled(w) \/ OnPaymentSucceeded(w) \/ OnTrialEnding(w)
  <2>1. worker[w].pc # "idle" /\ UNCHANGED <<http, inbox, queue>>
    BY <1>4 DEF OnSubscriptionUpdated, OnSubscriptionCanceled, OnPaymentSucceeded, OnTrialEnding,
                Handling, Running
  <2>2. Finish(w, "processed")
    BY <1>4 DEF OnSubscriptionUpdated, OnSubscriptionCanceled, OnPaymentSucceeded, OnTrialEnding, Skip
  <2> QED
    BY <1>1, <2>1, <2>2
<1>5. CASE OnPaymentFailed(w)
  <2>1. worker[w].pc # "idle" /\ UNCHANGED <<http, inbox, queue>>
    BY <1>5 DEF OnPaymentFailed, Handling, Running
  <2>2. ASSUME NEW c \in Customers,
               worker' = [worker EXCEPT ![w] = [@ EXCEPT !.pc = "dunning", !.tenant = c]]
        PROVE  Source(w)
    BY <2>1, <2>2 DEF Source, TypeOK, CeleryTypeOK
  <2>3. \/ Finish(w, "processed")
        \/ \E c \in Customers :
              worker' = [worker EXCEPT ![w] = [@ EXCEPT !.pc = "dunning", !.tenant = c]]
    BY <1>5 DEF OnPaymentFailed, Attached, Skip
  <2> QED
    BY <1>1, <2>1, <2>2, <2>3
<1>6. CASE EnqueueDunning(w)
  <2>1. worker[w].pc # "idle" /\ UNCHANGED <<http, inbox>> /\ Finish(w, "processed")
    BY <1>6 DEF EnqueueDunning
  <2>2. \A m \in queue' : m \in queue \/ m.id = worker[w].msg.id
    BY <1>6 DEF EnqueueDunning, DunningTask
  <2> QED
    BY <2>1, <2>2, FinishSource
<1>7. CASE HandlerRaises(w) \/ DunningRaises(w)
  <2>1. worker[w].pc # "idle" /\ UNCHANGED <<http, inbox>> /\ Retry(w)
    BY <1>7 DEF HandlerRaises, DunningRaises, Running
  <2> QED
    BY <2>1, RetrySource
<1>8. CASE SendDunningEmail(w)
  BY <1>1, <1>8 DEF SendDunningEmail, Running
<1>9. CASE Ack(w)
  BY <1>9 DEF Ack, IdleWorker, Source, TypeOK, CeleryTypeOK
<1>10. CASE WorkerLost(w)
  BY <1>10 DEF WorkerLost, IdleWorker, Source, TypeOK, CeleryTypeOK
<1> QED
  BY <1>2, <1>3, <1>4, <1>5, <1>6, <1>7, <1>8, <1>9, <1>10 DEF Work

\* The strengthening of TypeOK and DispatchedOnce is inductive.
LEMMA IndInvStep == IndInv /\ [Next]_vars => IndInv'
<1> SUFFICES ASSUME IndInv, [Next]_vars PROVE IndInv'
  OBVIOUS
<1>1. TypeOK /\ MessagesBacked /\ ClaimedOnce
  BY DEF IndInv
<1>2. TypeOK'
  BY <1>1, StepType
<1>3. http \in [Deliveries -> [ev : Events \cup {NoEvent},
                 pc : {"unsent", "received", "rejected", "ignored", "duplicate",
                       "created", "queued", "error"}]]
  BY <1>1 DEF TypeOK, HttpTypeOK
<1>4. ASSUME NEW w \in Workers, Source(w)  PROVE MessagesBacked' /\ ClaimedOnce'
  BY <1>1, <1>4 DEF Source, MessagesBacked, ClaimedOnce, Claimed
<1>5. \A m \in queue : m.id \in Deliveries
  BY <1>1 DEF TypeOK, CeleryTypeOK, Messages
<1>6. \A w \in Workers : worker[w].pc # "idle" => worker[w].msg.id \in Deliveries
  BY <1>1 DEF TypeOK, CeleryTypeOK, Messages
<1>7. ASSUME NEW d \in Deliveries,
             (\E e \in Events : Receive(d, e)) \/ LogEvent(d) \/ Dispatch(d) \/ Abort(d)
      PROVE  MessagesBacked' /\ ClaimedOnce'
  <2>1. ASSUME NEW e \in Events, Receive(d, e)  PROVE MessagesBacked' /\ ClaimedOnce'
    <3>1. UNCHANGED <<queue, worker, inbox>>
      BY <2>1 DEF Receive, celery
    <3>2. http[d].pc = "unsent" /\ ~Claimed(d)' /\ \A x \in Deliveries \ {d} : http'[x] = http[x]
      BY <1>3, <2>1 DEF Receive, Claimed
    <3> QED
      BY <1>1, <1>5, <1>6, <3>1, <3>2 DEF MessagesBacked, ClaimedOnce, Claimed
  <2>2. CASE LogEvent(d)
    <3>1. UNCHANGED <<queue, worker>> /\ inbox' = inbox \cup {http[d].ev}
      BY <2>2 DEF LogEvent, celery
    <3>2. /\ http[d].pc = "received" /\ http'[d].ev = http[d].ev
          /\ http'[d].pc = IF http[d].ev \in inbox THEN "duplicate" ELSE "created"
          /\ \A x \in Deliveries \ {d} : http'[x] = http[x]
      BY <1>3, <2>2 DEF LogEvent
    <3>3. MessagesBacked'
      BY <1>1, <1>5, <1>6, <3>1, <3>2 DEF MessagesBacked
    <3>4. ClaimedOnce'
      BY <1>1, <3>1, <3>2 DEF ClaimedOnce, Claimed
    <3> QED
      BY <3>3, <3>4
  <2>3. CASE Dispatch(d)
    <3>1. UNCHANGED <<worker, inbox>> /\ queue' = queue \cup {EventTask(d)}
      BY <2>3 DEF Dispatch, celery
    <3>2. /\ http[d].pc = "created" /\ http'[d].ev = http[d].ev /\ http'[d].pc = "queued"
          /\ \A x \in Deliveries \ {d} : http'[x] = http[x]
      BY <1>3, <2>3 DEF Dispatch
    <3>3. MessagesBacked'
      BY <1>1, <1>5, <1>6, <3>1, <3>2 DEF MessagesBacked, EventTask
    <3>4. ClaimedOnce'
      BY <1>1, <3>1, <3>2 DEF ClaimedOnce, Claimed
    <3> QED
      BY <3>3, <3>4
  <2>4. CASE Abort(d)
    <3>1. UNCHANGED <<queue, worker, inbox>>
      BY <2>4 DEF Abort, celery
    <3>2. /\ http[d].pc # "queued" /\ ~Claimed(d)'
          /\ \A x \in Deliveries \ {d} : http'[x] = http[x]
      BY <1>3, <2>4 DEF Abort, Claimed
    <3> QED
      BY <1>1, <1>5, <1>6, <3>1, <3>2 DEF MessagesBacked, ClaimedOnce, Claimed
  <2> QED
    BY <1>7, <2>1, <2>2, <2>3, <2>4
<1>8. ASSUME Tick \/ UNCHANGED vars  PROVE MessagesBacked' /\ ClaimedOnce'
  <2>1. UNCHANGED <<http, inbox, queue, worker>>
    BY <1>8 DEF Tick, celery, vars
  <2> QED
    BY <1>1, <2>1 DEF MessagesBacked, ClaimedOnce, Claimed
<1>9. MessagesBacked' /\ ClaimedOnce'
  <2>1. ASSUME NEW w \in Workers, Work(w) \/ WorkerLost(w)  PROVE MessagesBacked' /\ ClaimedOnce'
    BY <1>1, <1>4, <2>1, WorkSource
  <2> QED
    BY <1>7, <1>8, <2>1 DEF Next
<1> QED
  BY <1>2, <1>9 DEF IndInv

\* The inductive invariant holds throughout.
THEOREM IndInvHolds == Spec => []IndInv
<1>1. Init => IndInv
  <2>1. Init => MessagesBacked /\ ClaimedOnce
    BY DEF Init, IdleWorker, MessagesBacked, ClaimedOnce, Claimed
  <2> QED
    BY <2>1, InitType DEF IndInv
<1> QED
  BY <1>1, IndInvStep, PTL DEF Spec

\* The state always has its types, whatever Stripe sends: no handler stores a
\* status, a row or a message that is not one.
THEOREM TypeCorrect == Spec => []TypeOK
<1>1. IndInv => TypeOK
  BY DEF IndInv
<1> QED
  BY <1>1, IndInvHolds, PTL

\* At most one delivery of an event enqueues its task, for any number of
\* deliveries at the same time.
THEOREM AtMostOneDispatch == Spec => []DispatchedOnce
<1>1. IndInv => DispatchedOnce
  BY DEF IndInv, ClaimedOnce, Claimed, DispatchedOnce
<1> QED
  BY <1>1, IndInvHolds, PTL

-----------------------------------------------------------------------------
(* No task is lost. A message is carried while it is in the broker or with a *)
(* worker; what an acknowledging worker drops has been answered or has a     *)
(* later attempt somewhere.                                                  *)

Carried(m) == m \in queue \/ \E w \in Workers : worker[w].pc # "idle" /\ worker[w].msg = m

Answered(kind, d) == result[kind][d] # "none"

Attempt(kind, d) == \E m \in Messages : Carried(m) /\ m.kind = kind /\ m.id = d

\* The task has been enqueued: it is carried or has its result.
Enqueued(kind, d) == Answered(kind, d) \/ Attempt(kind, d)

\* The message has its successor: a result, or a message with more retries.
Succeeded(m) ==
    \/ Answered(m.kind, m.id)
    \/ \E n \in Messages : Carried(n) /\ n.kind = m.kind /\ n.id = m.id /\ n.retries > m.retries

NextAttempt == \A w \in Workers : worker[w].pc = "acking" => Succeeded(worker[w].msg)

QueuedEnqueued == \A d \in Deliveries : http[d].pc = "queued" => Enqueued("event", d)

CarryInv == NextAttempt /\ QueuedEnqueued

\* What a step of worker w does to the messages: the others' are left alone, no
\* answer is withdrawn, only an acknowledgement drops a message, and who comes to
\* acknowledge has left a successor.
Keeps(w) ==
    /\ \A v \in Workers \ {w} : worker'[v] = worker[v]
    /\ \A k \in Kinds, d \in Deliveries : Answered(k, d) => Answered(k, d)'
    /\ \A m \in Messages : Carried(m) => Carried(m)' \/ (worker[w].pc = "acking" /\ m = worker[w].msg)
    /\ \A m \in Messages : worker'[w].pc = "acking" /\ worker'[w].msg = m => Succeeded(m)'

\* A step that leaves no message behind keeps every message of worker w too.
LEMMA HolderKeeps ==
    ASSUME TypeOK, NEW w \in Workers, NEW h,
           worker' = [worker EXCEPT ![w] = h], h.pc # "idle", h.msg = worker[w].msg,
           queue \subseteq queue'
    PROVE  \A m : Carried(m) => Carried(m)'
BY DEF TypeOK, CeleryTypeOK, Carried

\* A task that returns has its answer.
LEMMA FinishKeeps ==
    ASSUME TypeOK, NEW w \in Workers, worker[w].pc \notin {"idle", "acking"},
           NEW answer \in Answers, Finish(w, answer), queue \subseteq queue'
    PROVE  Keeps(w)
<1> DEFINE m == worker[w].msg
           h == [worker[w] EXCEPT !.pc = "acking"]
<1>1. m \in Messages /\ m.kind \in Kinds /\ m.id \in Deliveries
  BY DEF TypeOK, CeleryTypeOK, Messages
<1>2. worker' = [worker EXCEPT ![w] = h]
  BY DEF Finish, TypeOK, CeleryTypeOK
<1>3. h.pc = "acking" /\ h.msg = m
  BY DEF TypeOK, CeleryTypeOK
<1>4. worker'[w] = h /\ \A v \in Workers \ {w} : worker'[v] = worker[v]
  BY <1>2 DEF TypeOK, CeleryTypeOK
<1>5. \A n : Carried(n) => Carried(n)'
  <2> HIDE DEF h
  <2> QED
    BY <1>2, <1>3, HolderKeeps
<1>6. /\ result'[m.kind][m.id] = answer
      /\ \A k \in Kinds, d \in Deliveries : result[k][d] # "none" => result'[k][d] # "none"
  BY <1>1 DEF Finish, TypeOK, CeleryTypeOK, Answers
<1>7. ASSUME NEW n \in Messages, worker'[w].msg = n  PROVE Succeeded(n)'
  <2>1. answer # "none" /\ n = m
    BY <1>3, <1>4, <1>7 DEF Answers
  <2> QED
    BY <1>6, <2>1 DEF Succeeded, Answered
<1> QED
  BY <1>1, <1>3, <1>4, <1>5, <1>6, <1>7 DEF Keeps, Answered

\* A task that raises has its answer or a message with one retry more.
LEMMA RetryKeeps ==
    ASSUME TypeOK, NEW w \in Workers, worker[w].pc \notin {"idle", "acking"}, Retry(w)
    PROVE  Keeps(w)
<1> DEFINE m == worker[w].msg
           h == [worker[w] EXCEPT !.pc = "acking"]
           n == [m EXCEPT !.retries = @ + 1]
<1>1. CASE m.retries >= Max_retries(m.kind)
  BY <1>1, FinishKeeps DEF Retry, Answers
<1>2. CASE ~(m.retries >= Max_retries(m.kind))
  <2>1. m \in Messages
    BY DEF TypeOK, CeleryTypeOK
  <2>2. n \in Messages /\ n.kind = m.kind /\ n.id = m.id /\ n.retries > m.retries
    BY <2>1 DEF Messages
  <2>3. queue' = queue \cup {n} /\ result' = result /\ worker' = [worker EXCEPT ![w] = h]
    BY <1>2 DEF Retry, TypeOK, CeleryTypeOK
  <2>4. h.pc = "acking" /\ h.msg = m
    BY DEF TypeOK, CeleryTypeOK
  <2>5. worker'[w] = h /\ \A v \in Workers \ {w} : worker'[v] = worker[v]
    BY <2>3 DEF TypeOK, CeleryTypeOK
  <2>6. \A x : Carried(x) => Carried(x)'
    <3> HIDE DEF h, n
    <3> QED
      BY <2>3, <2>4, HolderKeeps
  <2>7. \E y : y = n /\ Carried(y)'
    BY <2>3 DEF Carried
  <2>8. ASSUME NEW x \in Messages, worker'[w].msg = x  PROVE Succeeded(x)'
    <3>1. x = m
      BY <2>4, <2>5, <2>8
    <3>2. n \in Messages /\ n.kind = x.kind /\ n.id = x.id /\ n.retries > x.retries
      BY <2>2, <3>1
    <3>3. PICK y : y = n /\ Carried(y)'
      BY <2>7
    <3> QED
      BY <3>2, <3>3 DEF Succeeded
  <2> QED
    BY <2>1, <2>3, <2>4, <2>5, <2>6, <2>8 DEF Keeps, Answered
<1> QED
  BY <1>1, <1>2

\* Every step of a worker is of this kind.
LEMMA WorkKeeps ==
    ASSUME TypeOK, NEW w \in Workers, Work(w) \/ WorkerLost(w)
    PROVE  Keeps(w)
<1>1. ASSUME NEW answer \in Answers, Finish(w, answer), worker[w].pc \notin {"idle", "acking"},
             queue \subseteq queue'
      PROVE  Keeps(w)
  BY <1>1, FinishKeeps
<1>2. "processed" \in Answers /\ "sent" \in Answers /\ "no_owner" \in Answers
  BY DEF Answers
<1>3. ASSUME NEW m \in queue, Fetch(w, m)  PROVE Keeps(w)
  <2>1. /\ worker[w].pc = "idle" /\ queue' = queue \ {m} /\ result' = result
        /\ worker'[w].pc = "running" /\ worker'[w].msg = m
        /\ \A v \in Workers \ {w} : worker'[v] = worker[v]
    BY <1>3 DEF Fetch, TypeOK, CeleryTypeOK
  <2> QED
    BY <2>1 DEF Keeps, Carried, Answered
<1>4. CASE OnSubscriptionCreated(w)
  <2>1. worker[w].pc \notin {"idle", "acking"}
    BY <1>4 DEF OnSubscriptionCreated, Handling, Running
  <2>2. Retry(w) \/ (Finish(w, "processed") /\ UNCHANGED queue)
    BY <1>4 DEF OnSubscriptionCreated, Skip
  <2> QED
    BY <1>1, <1>2, <2>1, <2>2, RetryKeeps
<1>5. CASE OnSubscriptionUpdated(w) \/ OnSubscriptionCanceled(w) \/ OnPaymentSucceeded(w) \/ OnTrialEnding(w)
  <2>1. worker[w].pc \notin {"idle", "acking"} /\ UNCHANGED queue
    BY <1>5 DEF OnSubscriptionUpdated, OnSubscriptionCanceled, OnPaymentSucceeded, OnTrialEnding,
                Handling, Running
  <2>2. Finish(w, "processed")
    BY <1>5 DEF OnSubscriptionUpdated, OnSubscriptionCanceled, OnPaymentSucceeded, OnTrialEnding, Skip
  <2> QED
    BY <1>1, <1>2, <2>1, <2>2
<1>6. CASE OnPaymentFailed(w)
  <2>1. worker[w].pc \notin {"idle", "acking"} /\ UNCHANGED queue
    BY <1>6 DEF OnPaymentFailed, Handling, Running
  <2>2. ASSUME NEW c \in Customers, UNCHANGED result,
               worker' = [worker EXCEPT ![w] = [@ EXCEPT !.pc = "dunning", !.tenant = c]]
        PROVE  Keeps(w)
    <3> DEFINE h == [worker[w] EXCEPT !.pc = "dunning", !.tenant = c]
    <3>1. worker' = [worker EXCEPT ![w] = h]
      BY <2>2
    <3>2. h.pc = "dunning" /\ h.msg = worker[w].msg
      BY DEF TypeOK, CeleryTypeOK
    <3>3. worker'[w] = h /\ \A v \in Workers \ {w} : worker'[v] = worker[v]
      BY <3>1 DEF TypeOK, CeleryTypeOK
    <3>4. \A m : Carried(m) => Carried(m)'
      <4> HIDE DEF h
      <4> QED
        BY <2>1, <3>1, <3>2, HolderKeeps
    <3> QED
      BY <2>2, <3>2, <3>3, <3>4 DEF Keeps, Answered
  <2>3. \/ Finish(w, "processed")
        \/ /\ UNCHANGED result
           /\ \E c \in Customers :
                 worker' = [worker EXCEPT ![w] = [@ EXCEPT !.pc = "dunning", !.tenant = c]]
    BY <1>6 DEF OnPaymentFailed, Attached, Skip
  <2> QED
    BY <1>1, <1>2, <2>1, <2>2, <2>3
<1>7. CASE EnqueueDunning(w)
  BY <1>1, <1>2, <1>7 DEF EnqueueDunning
<1>8. CASE HandlerRaises(w) \/ DunningRaises(w)
  <2>1. worker[w].pc \notin {"idle", "acking"} /\ Retry(w)
    BY <1>8 DEF HandlerRaises, DunningRaises, Running
  <2> QED
    BY <2>1, RetryKeeps
<1>9. CASE SendDunningEmail(w)
  <2>1. worker[w].pc \notin {"idle", "acking"} /\ UNCHANGED queue
    BY <1>9 DEF SendDunningEmail, Running
  <2>2. Finish(w, "sent") \/ Finish(w, "no_owner")
    BY <1>9 DEF SendDunningEmail
  <2> QED
    BY <1>1, <1>2, <2>1, <2>2
<1>10. CASE Ack(w)
  <2>1. /\ worker[w].pc = "acking" /\ worker'[w].pc = "idle" /\ UNCHANGED <<queue, result>>
        /\ \A v \in Workers \ {w} : worker'[v] = worker[v]
    BY <1>10 DEF Ack, IdleWorker, TypeOK, CeleryTypeOK
  <2> QED
    BY <2>1 DEF Keeps, Carried, Answered
<1>11. CASE WorkerLost(w)
  <2>1. /\ worker[w].pc # "idle" /\ worker'[w].pc = "idle"
        /\ queue' = queue \cup {worker[w].msg} /\ result' = result
        /\ \A v \in Workers \ {w} : worker'[v] = worker[v]
    BY <1>11 DEF WorkerLost, IdleWorker, TypeOK, CeleryTypeOK
  <2> QED
    BY <2>1 DEF Keeps, Carried, Answered
<1> QED
  BY <1>3, <1>4, <1>5, <1>6, <1>7, <1>8, <1>9, <1>10, <1>11 DEF Work

\* The steps of the endpoint and of the clock keep every message and answer.
LEMMA EndpointKeeps ==
    ASSUME TypeOK, UNCHANGED <<worker, result>>, queue \subseteq queue'
    PROVE  /\ \A m : Carried(m) => Carried(m)'
           /\ \A k \in Kinds, d \in Deliveries : Answered(k, d) => Answered(k, d)'
BY DEF Carried, Answered

\* After an acknowledgement another attempt, or the answer, is left.
LEMMA EnqueuedStays ==
    ASSUME TypeOK, NextAttempt, NEW w \in Workers, Keeps(w),
           NEW k \in Kinds, NEW d \in Deliveries, Enqueued(k, d)
    PROVE  Enqueued(k, d)'
<1>1. CASE Answered(k, d)
  BY <1>1 DEF Keeps, Enqueued
<1>2. ASSUME NEW m \in Messages, Carried(m), m.kind = k, m.id = d, ~Answered(k, d)
      PROVE  Attempt(k, d)'
  <2>1. CASE Carried(m)'
    BY <1>2, <2>1 DEF Attempt
  <2>2. CASE worker[w].pc = "acking" /\ m = worker[w].msg
    <3>1. PICK n \in Messages : Carried(n) /\ n.kind = k /\ n.id = d /\ n.retries > m.retries
      BY <1>2, <2>2 DEF NextAttempt, Succeeded
    <3>2. n # m
      BY <3>1 DEF Messages
    <3>3. Carried(n)'
      BY <2>2, <3>1, <3>2 DEF Keeps
    <3> QED
      BY <3>1, <3>3 DEF Attempt
  <2> QED
    BY <1>2, <2>1, <2>2 DEF Keeps
<1> QED
  BY <1>1, <1>2 DEF Enqueued, Attempt

\* A message that has its successor keeps one.
LEMMA SucceededStays ==
    ASSUME TypeOK, NextAttempt, NEW w \in Workers, Keeps(w),
           NEW m \in Messages, Succeeded(m)
    PROVE  Succeeded(m)'
<1>1. m.kind \in Kinds /\ m.id \in Deliveries
  BY DEF Messages
<1>2. CASE Answered(m.kind, m.id)
  BY <1>1, <1>2 DEF Keeps, Succeeded
<1>3. ASSUME NEW n \in Messages, Carried(n), n.kind = m.kind, n.id = m.id, n.retries > m.retries,
             ~Answered(m.kind, m.id)
      PROVE  Succeeded(m)'
  <2>1. CASE Carried(n)'
    BY <1>3, <2>1 DEF Succeeded
  <2>2. CASE worker[w].pc = "acking" /\ n = worker[w].msg
    <3>1. PICK o \in Messages :
             Carried(o) /\ o.kind = m.kind /\ o.id = m.id /\ o.retries > n.retries
      BY <1>3, <2>2 DEF NextAttempt, Succeeded
    <3>2. o # n /\ o.retries > m.retries
      BY <1>3, <3>1 DEF Messages
    <3>3. Carried(o)'
      BY <2>2, <3>1, <3>2 DEF Keeps
    <3> QED
      BY <3>1, <3>2, <3>3 DEF Succeeded
  <2> QED
    BY <1>3, <2>1, <2>2 DEF Keeps
<1> QED
  BY <1>2, <1>3 DEF Succeeded

\* CarryInv is inductive relative to IndInv.
LEMMA CarryInvStep == IndInv /\ CarryInv /\ [Next]_vars => CarryInv'
<1> SUFFICES ASSUME IndInv, CarryInv, [Next]_vars PROVE CarryInv'
  OBVIOUS
<1>1. TypeOK /\ NextAttempt /\ QueuedEnqueued
  BY DEF IndInv, CarryInv
<1>2. ASSUME NEW w \in Workers, Work(w) \/ WorkerLost(w)  PROVE CarryInv'
  <2>1. Keeps(w) /\ http' = http
    BY <1>1, <1>2, WorkKeeps, WorkSource DEF Source
  <2>2. QueuedEnqueued'
    BY <1>1, <2>1, EnqueuedStays DEF QueuedEnqueued, Kinds
  <2>3. ASSUME NEW v \in Workers, worker'[v].pc = "acking",
               NEW m \in Messages, worker'[v].msg = m
        PROVE  Succeeded(m)'
    <3>1. CASE v = w
      BY <2>1, <2>3, <3>1 DEF Keeps
    <3>2. CASE v # w
      <4>1. Succeeded(m)
        BY <1>1, <2>1, <2>3, <3>2 DEF Keeps, NextAttempt
      <4> QED
        BY <1>1, <2>1, <4>1, SucceededStays
    <3> QED
      BY <3>1, <3>2
  <2>4. NextAttempt'
    <3>1. \A v \in Workers : worker'[v].pc = "acking" => worker'[v].msg \in Messages
      BY <1>1, <1>2, StepType DEF IndInv, Next, TypeOK, CeleryTypeOK
    <3> QED
      BY <2>3, <3>1 DEF NextAttempt, Succeeded
  <2> QED
    BY <2>2, <2>4 DEF CarryInv
<1>3. ASSUME UNCHANGED <<worker, result>>, queue \subseteq queue',
             \A d \in Deliveries : http'[d].pc = "queued" =>
                http[d].pc = "queued" \/ EventTask(d) \in queue'
      PROVE  CarryInv'
  <2>1. /\ \A m : Carried(m) => Carried(m)'
        /\ \A k \in Kinds, d \in Deliveries : Answered(k, d) => Answered(k, d)'
    BY <1>1, <1>3, EndpointKeeps
  <2>2. \A m \in Messages : m.kind \in Kinds /\ m.id \in Deliveries
    BY DEF Messages
  <2>3. \A m \in Messages : Succeeded(m) => Succeeded(m)'
    BY <2>1, <2>2 DEF Succeeded
  <2>4. NextAttempt'
    BY <1>1, <1>3, <2>3 DEF NextAttempt, TypeOK, CeleryTypeOK
  <2>5. ASSUME NEW d \in Deliveries, http'[d].pc = "queued"  PROVE Enqueued("event", d)'
    <3>1. CASE http[d].pc = "queued"
      BY <1>1, <2>1, <3>1 DEF QueuedEnqueued, Enqueued, Attempt, Kinds
    <3>2. CASE EventTask(d) \in queue'
      <4>1. EventTask(d) \in Messages /\ EventTask(d).kind = "event" /\ EventTask(d).id = d
        BY DEF EventTask, Messages, Kinds
      <4> QED
        BY <3>2, <4>1 DEF Enqueued, Attempt, Carried
    <3> QED
      BY <1>3, <2>5, <3>1, <3>2
  <2> QED
    BY <2>4, <2>5 DEF CarryInv, QueuedEnqueued
<1>4. ASSUME NEW d \in Deliveries,
             (\E e \in Events : Receive(d, e)) \/ LogEvent(d) \/ Dispatch(d) \/ Abort(d)
      PROVE  CarryInv'
  <2>1. UNCHANGED <<worker, result>> /\ queue \subseteq queue'
    BY <1>4 DEF Receive, LogEvent, Dispatch, Abort, celery
  <2>2. \A x \in Deliveries \ {d} : http'[x] = http[x]
    BY <1>1, <1>4 DEF Receive, LogEvent, Dispatch, Abort, TypeOK, HttpTypeOK
  <2>3. http'[d].pc = "queued" => EventTask(d) \in queue'
    BY <1>1, <1>4 DEF Receive, LogEvent, Dispatch, Abort, TypeOK, HttpTypeOK
  <2> QED
    BY <1>3, <2>1, <2>2, <2>3
<1>5. CASE Tick \/ UNCHANGED vars
  BY <1>3, <1>5 DEF Tick, celery, vars
<1> QED
  BY <1>2, <1>4, <1>5 DEF Next

\* So it holds throughout.
LEMMA CarryInvHolds == Spec => []CarryInv
<1>1. Init => CarryInv
  BY DEF Init, IdleWorker, CarryInv, NextAttempt, QueuedEnqueued
<1> QED
  BY <1>1, CarryInvStep, IndInvHolds, PTL DEF Spec

\* A task that was enqueued is with the broker or a worker until it has its
\* result: late acknowledgement and retries lose none, however many workers are
\* lost and in whatever order the messages are acknowledged.
THEOREM TasksAreNotLost == Spec => []TaskNotLost
<1>1. CarryInv => TaskNotLost
  BY DEF CarryInv, QueuedEnqueued, Enqueued, Attempt, Answered, Carried,
         TaskNotLost, InFlight, Held
<1> QED
  BY <1>1, CarryInvHolds, PTL

-----------------------------------------------------------------------------
(* Dunning e-mails: for every failed payment that is committed, and only for *)
(* those                                                                     *)

\* The task of d has committed a failed payment.
Owes(d) == applied[d] # {} /\ Ev(d).type = "payment_failed"

AppliedQueued == \A d \in Deliveries : applied[d] # {} => http[d].pc = "queued"

DunningIsOwed ==
    /\ \A m \in queue : m.kind = "dunning" => Owes(m.id)
    /\ \A w \in Workers :
          worker[w].pc # "idle" /\ worker[w].msg.kind = "dunning" => Owes(worker[w].msg.id)
    /\ \A w \in Workers :
          worker[w].pc = "dunning" => worker[w].msg.kind = "event" /\ Owes(worker[w].msg.id)
    /\ \A d \in Deliveries : result["dunning"][d] # "none" => Owes(d)

\* A tenant of d has since been given another subscription by a created event.
Moved(d) ==
    \E new \in Deliveries : /\ applied[new] \cap applied[d] # {}
                            /\ Ev(new).type = "created" /\ Ev(new).sub # Ev(d).sub

\* A row that a failed payment changed is found again by a rerun of its task.
StillAttached ==
    \A d \in Deliveries : Owes(d) => Moved(d) \/ \E c \in applied[d] : c \in Attached(Ev(d).sub)

\* The event task of d is still to be run to its end.
Pending(d) ==
    \/ \E m \in queue : m.kind = "event" /\ m.id = d
    \/ \E w \in Workers : /\ worker[w].pc \in {"running", "dunning"}
                          /\ worker[w].msg.kind = "event" /\ worker[w].msg.id = d

DunningComes ==
    \A d \in Deliveries :
        Owes(d) /\ result["event"][d] = "processed" =>
            Moved(d) \/ Enqueued("dunning", d) \/ Pending(d)

DunningInv == AppliedQueued /\ DunningIsOwed /\ StillAttached /\ DunningComes

\* The grace period of a row is the one of its latest failed payment.
GraceOfFailure ==
    \A c \in Customers :
        sub[c].grace # NoGrace =>
            invoice[c].outcome = "failed" /\ sub[c].grace = invoice[c].at + Grace

-----------------------------------------------------------------------------
(* What a step of worker w does to the rows, the messages and its task *)

RowMoves(w) ==
    /\ http' = http /\ event' = event
    /\ \A d \in Deliveries : applied[d] \subseteq applied'[d]
    /\ \A d \in Deliveries :
          applied'[d] # applied[d] => worker[w].pc # "idle" /\ d = worker[w].msg.id
    /\ \A c \in Customers :
          \/ sub'[c].subId = sub[c].subId
          \/ \E d \in Deliveries :
                c \in applied'[d] /\ Ev(d).type = "created" /\ sub'[c].subId = Ev(d).sub

\* Only a task's own message is sent again; a dunning task comes after the commit.
MessageMoves(w) ==
    /\ \A m \in queue' : \/ m \in queue
                         \/ /\ worker[w].pc # "idle" /\ m.id = worker[w].msg.id
                            /\ m.kind = worker[w].msg.kind \/ worker[w].pc = "dunning"
    /\ \A v \in Workers : worker'[v].pc # "idle" =>
          \/ worker[v].pc # "idle" /\ worker'[v].msg = worker[v].msg
          \/ worker'[v].msg \in queue
    /\ \A k \in Kinds, d \in Deliveries : result'[k][d] # result[k][d] =>
          worker[w].pc # "idle" /\ worker[w].msg.kind = k /\ worker[w].msg.id = d

\* A failed payment's task stops only when it has failed, has enqueued the dunning
\* task or has found no row; while it commits it goes on.
FailedMoves(w) ==
    \A d \in Deliveries : Ev(d).type = "payment_failed" =>
        /\ applied'[d] # applied[d] =>
              /\ worker[w].pc = "running" /\ worker[w].msg.kind = "event"
              /\ worker'[w].pc = "dunning" /\ worker'[w].msg = worker[w].msg
              /\ \E c \in applied'[d] : Ev(d).sub # NoSub /\ sub'[c].subId = Ev(d).sub
        /\ Pending(d) \/ result'["event"][d] # result["event"][d] =>
              \/ Pending(d)' \/ result'["event"][d] # "processed"
              \/ Attempt("dunning", d)' \/ Attached(Ev(d).sub) = {}

\* A transaction moves no subscription id but to the one of a created event.
LEMMA CommitMoves ==
    ASSUME TypeOK, NEW w \in Workers, worker[w].pc # "idle", worker[w].msg.id \in Deliveries,
           NEW c \in Customers, NEW r, Commit(w, c, r), UNCHANGED <<http, event>>,
           \/ r.subId = sub[c].subId
           \/ Ev(worker[w].msg.id).type = "created" /\ r.subId = Ev(worker[w].msg.id).sub
    PROVE  /\ RowMoves(w) /\ sub'[c] = r /\ c \in applied'[worker[w].msg.id]
           /\ \A d \in Deliveries \ {worker[w].msg.id} : applied'[d] = applied[d]
<1> DEFINE id == worker[w].msg.id
<1>1. /\ applied'[id] = applied[id] \cup {c}
      /\ \A d \in Deliveries \ {id} : applied'[d] = applied[d]
      /\ sub'[c] = r /\ \A o \in Customers \ {c} : sub'[o] = sub[o]
  BY DEF Commit, TypeOK, RowsTypeOK
<1> QED
  BY <1>1 DEF RowMoves

\* Every step of a worker moves the rows so.
LEMMA WorkRowMoves ==
    ASSUME TypeOK, MessagesBacked, NEW w \in Workers, Work(w) \/ WorkerLost(w)
    PROVE  RowMoves(w)
<1>1. ASSUME UNCHANGED <<http, event, sub, applied>>  PROVE RowMoves(w)
  BY <1>1 DEF RowMoves
<1>2. ASSUME NEW m \in queue, Fetch(w, m)  PROVE RowMoves(w)
  BY <1>1, <1>2 DEF Fetch, rows
<1>3. CASE \/ EnqueueDunning(w) \/ OnTrialEnding(w) \/ HandlerRaises(w) \/ SendDunningEmail(w)
           \/ DunningRaises(w) \/ Ack(w) \/ WorkerLost(w)
  BY <1>1, <1>3 DEF EnqueueDunning, OnTrialEnding, HandlerRaises, SendDunningEmail,
                    DunningRaises, Ack, WorkerLost, Skip, rows
<1> DEFINE e == Ev(worker[w].msg.id)
<1>4. CASE \/ OnSubscriptionCreated(w) \/ OnSubscriptionUpdated(w) \/ OnSubscriptionCanceled(w)
           \/ OnPaymentSucceeded(w) \/ OnPaymentFailed(w)
  <2>1. worker[w].pc # "idle" /\ UNCHANGED <<http, event>>
    BY <1>4 DEF OnSubscriptionCreated, OnSubscriptionUpdated, OnSubscriptionCanceled,
                OnPaymentSucceeded, OnPaymentFailed, Handling, Running
  <2>2. worker[w].msg.id \in Deliveries /\ \A c \in Customers : sub[c] \in Row
    BY <2>1, EventOfTask DEF TypeOK, RowsTypeOK
  <2>3. ASSUME NEW c \in Customers, NEW r, Commit(w, c, r), r.subId = sub[c].subId
        PROVE  RowMoves(w)
    BY <2>1, <2>2, <2>3, CommitMoves
  <2>4. ASSUME UNCHANGED rows  PROVE RowMoves(w)
    BY <1>1, <2>1, <2>4 DEF rows
  <2>5. CASE OnSubscriptionCreated(w)
    <3>1. e.type = "created"
      BY <2>5 DEF OnSubscriptionCreated, Handling
    <3>2. ASSUME e.customer \in Customers,
                 Commit(w, e.customer, [sub[e.customer] EXCEPT !.subId = e.sub, !.status = e.status])
          PROVE  RowMoves(w)
      <4> DEFINE r == [sub[e.customer] EXCEPT !.subId = e.sub, !.status = e.status]
      <4>1. r.subId = e.sub
        BY <2>2, <3>2 DEF Row
      <4>2. Commit(w, e.customer, r)
        BY <3>2
      <4> HIDE DEF r
      <4> QED
        BY <2>1, <2>2, <3>1, <3>2, <4>1, <4>2, CommitMoves
    <3> QED
      BY <2>4, <2>5, <3>2 DEF OnSubscriptionCreated, Skip
  <2>6. \A c \in Customers : \A s : [sub[c] EXCEPT !.status = s].subId = sub[c].subId
    BY <2>2 DEF Row
  <2>7. CASE OnSubscriptionUpdated(w)
    BY <2>3, <2>4, <2>6, <2>7 DEF OnSubscriptionUpdated, Skip, Attached
  <2>8. CASE OnSubscriptionCanceled(w)
    <3> DEFINE r(c) == [sub[c] EXCEPT !.status = "canceled", !.grace = NoGrace]
    <3>1. ASSUME NEW c \in Customers, Commit(w, c, r(c))  PROVE RowMoves(w)
      <4>1. r(c).subId = sub[c].subId
        BY <2>2 DEF Row
      <4> HIDE DEF r
      <4> QED
        BY <2>3, <3>1, <4>1
    <3>2. (\E c \in Customers : Commit(w, c, r(c))) \/ UNCHANGED rows
      BY <2>8 DEF OnSubscriptionCanceled, Skip, Attached
    <3> QED
      BY <2>4, <3>1, <3>2
  <2>9. CASE OnPaymentSucceeded(w)
    <3> DEFINE r(c) == [sub[c] EXCEPT !.status = "active", !.grace = NoGrace]
    <3>1. ASSUME NEW c \in Customers, Commit(w, c, r(c))  PROVE RowMoves(w)
      <4>1. r(c).subId = sub[c].subId
        BY <2>2 DEF Row
      <4> HIDE DEF r
      <4> QED
        BY <2>3, <3>1, <4>1
    <3>2. (\E c \in Customers : Commit(w, c, r(c))) \/ UNCHANGED rows
      BY <2>9 DEF OnPaymentSucceeded, Skip, Attached
    <3> QED
      BY <2>4, <3>1, <3>2
  <2>10. CASE OnPaymentFailed(w)
    <3> DEFINE r(c) == [sub[c] EXCEPT !.status = "past_due", !.grace = now + Grace]
    <3>1. ASSUME NEW c \in Customers, Commit(w, c, r(c))  PROVE RowMoves(w)
      <4>1. r(c).subId = sub[c].subId
        BY <2>2 DEF Row
      <4> HIDE DEF r
      <4> QED
        BY <2>3, <3>1, <4>1
    <3>2. (\E c \in Customers : Commit(w, c, r(c))) \/ UNCHANGED rows
      BY <2>10 DEF OnPaymentFailed, Skip, Attached
    <3> QED
      BY <2>4, <3>1, <3>2
  <2> QED
    BY <1>4, <2>5, <2>7, <2>8, <2>9, <2>10
<1> QED
  BY <1>2, <1>3, <1>4 DEF Work

\* A task that returns or raises sends no message but its own.
LEMMA ReturnMoves ==
    ASSUME TypeOK, NEW w \in Workers, worker[w].pc # "idle", NEW answer,
           Retry(w) \/ (Finish(w, answer) /\ UNCHANGED queue)
    PROVE  MessageMoves(w)
<1> DEFINE m == worker[w].msg
           n == [m EXCEPT !.retries = @ + 1]
<1>1. m \in Messages /\ m.kind \in Kinds /\ m.id \in Deliveries
  BY DEF TypeOK, CeleryTypeOK, Messages
<1>2. \A v \in Workers : worker'[v].pc # "idle" =>
          worker[v].pc # "idle" /\ worker'[v].msg = worker[v].msg
  BY DEF Retry, Finish, TypeOK, CeleryTypeOK
<1>3. n.id = m.id /\ n.kind = m.kind
  BY <1>1 DEF Messages
<1>4. \A x \in queue' : x \in queue \/ x = n
  BY DEF Retry
<1>5. \A k \in Kinds, d \in Deliveries :
         result'[k][d] # result[k][d] => m.kind = k /\ m.id = d
  BY <1>1 DEF Retry, Finish, TypeOK, CeleryTypeOK
<1> HIDE DEF n
<1> QED
  BY <1>2, <1>3, <1>4, <1>5 DEF MessageMoves

\* Every step of a worker sends and answers only so.
LEMMA WorkMessageMoves ==
    ASSUME TypeOK, NEW w \in Workers, Work(w) \/ WorkerLost(w)
    PROVE  MessageMoves(w)
<1>1. ASSUME NEW m \in queue, Fetch(w, m)  PROVE MessageMoves(w)
  <2>1. /\ queue' \subseteq queue /\ result' = result /\ worker'[w].msg = m
        /\ \A v \in Workers \ {w} : worker'[v] = worker[v]
    BY <1>1 DEF Fetch, TypeOK, CeleryTypeOK
  <2> QED
    BY <2>1 DEF MessageMoves
<1>2. CASE OnSubscriptionCreated(w) \/ HandlerRaises(w) \/ DunningRaises(w)
  <2>1. worker[w].pc # "idle" /\ (Retry(w) \/ (Finish(w, "processed") /\ UNCHANGED queue))
    BY <1>2 DEF OnSubscriptionCreated, HandlerRaises, DunningRaises, Handling, Running, Skip
  <2> QED
    BY <2>1, ReturnMoves
<1>3. CASE OnSubscriptionUpdated(w) \/ OnSubscriptionCanceled(w) \/ OnPaymentSucceeded(w) \/ OnTrialEnding(w)
  <2>1. worker[w].pc # "idle" /\ Finish(w, "processed") /\ UNCHANGED queue
    BY <1>3 DEF OnSubscriptionUpdated, OnSubscriptionCanceled, OnPaymentSucceeded, OnTrialEnding,
                Handling, Running, Skip
  <2> QED
    BY <2>1, ReturnMoves
<1>4. CASE OnPaymentFailed(w)
  <2>1. worker[w].pc # "idle" /\ UNCHANGED queue
    BY <1>4 DEF OnPaymentFailed, Handling, Running
  <2>2. ASSUME NEW c \in Customers, UNCHANGED result,
               worker' = [worker EXCEPT ![w] = [@ EXCEPT !.pc = "dunning", !.tenant = c]]
        PROVE  MessageMoves(w)
    BY <2>1, <2>2 DEF MessageMoves, TypeOK, CeleryTypeOK
  <2>3. \/ Finish(w, "processed")
        \/ /\ UNCHANGED result
           /\ \E c \in Customers :
                 worker' = [worker EXCEPT ![w] = [@ EXCEPT !.pc = "dunning", !.tenant = c]]
    BY <1>4 DEF OnPaymentFailed, Attached, Skip
  <2> QED
    BY <2>1, <2>2, <2>3, ReturnMoves
<1>5. CASE EnqueueDunning(w)
  <2>1. /\ worker[w].pc = "dunning" /\ Finish(w, "processed")
        /\ queue' = queue \cup {DunningTask(worker[w].msg.id, worker[w].tenant)}
    BY <1>5 DEF EnqueueDunning
  <2>2. worker[w].msg.kind \in Kinds /\ worker[w].msg.id \in Deliveries
    BY <2>1 DEF TypeOK, CeleryTypeOK, Messages
  <2>3. \A v \in Workers : worker'[v].pc # "idle" =>
          worker[v].pc # "idle" /\ worker'[v].msg = worker[v].msg
    BY <2>1 DEF Finish, TypeOK, CeleryTypeOK
  <2>4. \A k \in Kinds, d \in Deliveries :
           result'[k][d] # result[k][d] => worker[w].msg.kind = k /\ worker[w].msg.id = d
    BY <2>1, <2>2 DEF Finish, TypeOK, CeleryTypeOK
  <2> QED
    BY <2>1, <2>3, <2>4 DEF MessageMoves, DunningTask
<1>6. CASE SendDunningEmail(w)
  <2>1. worker[w].pc # "idle" /\ UNCHANGED queue /\ \E answer : Finish(w, answer)
    BY <1>6 DEF SendDunningEmail, Running
  <2> QED
    BY <2>1, ReturnMoves
<1>7. CASE Ack(w) \/ WorkerLost(w)
  <2>1. /\ worker[w].pc # "idle" /\ worker'[w].pc = "idle" /\ result' = result
        /\ queue' \subseteq queue \cup {worker[w].msg}
        /\ \A v \in Workers \ {w} : worker'[v] = worker[v]
    BY <1>7 DEF Ack, WorkerLost, IdleWorker, TypeOK, CeleryTypeOK
  <2> QED
    BY <2>1 DEF MessageMoves
<1> QED
  BY <1>1, <1>2, <1>3, <1>4, <1>5, <1>6, <1>7 DEF Work

\* A task that returns or raises leaves the others' as they are.
LEMMA OthersPending ==
    ASSUME TypeOK, NEW w \in Workers, worker[w].pc # "idle", NEW d \in Deliveries,
           ~(worker[w].msg.kind = "event" /\ worker[w].msg.id = d),
           NEW answer, Retry(w) \/ (Finish(w, answer) /\ queue \subseteq queue')
    PROVE  result'["event"][d] = result["event"][d] /\ (Pending(d) => Pending(d)')
<1> DEFINE m == worker[w].msg
<1>1. m.kind \in Kinds /\ m.id \in Deliveries
  BY DEF TypeOK, CeleryTypeOK, Messages
<1>2. queue \subseteq queue' /\ \A v \in Workers \ {w} : worker'[v] = worker[v]
  BY DEF Retry, Finish, TypeOK, CeleryTypeOK
<1>3. result'["event"][d] = result["event"][d]
  BY <1>1 DEF Retry, Finish, TypeOK, CeleryTypeOK, Kinds
<1>4. Pending(d) => Pending(d)'
  BY <1>2 DEF Pending
<1> QED
  BY <1>3, <1>4

\* An event task that raises goes on or has failed.
LEMMA RaisePending ==
    ASSUME TypeOK, NEW w \in Workers, worker[w].pc # "idle", NEW d \in Deliveries,
           worker[w].msg.kind = "event", worker[w].msg.id = d, Retry(w)
    PROVE  Pending(d)' \/ result'["event"][d] # "processed"
<1> DEFINE m == worker[w].msg
           n == [m EXCEPT !.retries = @ + 1]
<1>1. CASE m.retries >= Max_retries(m.kind)
  BY <1>1 DEF Retry, Finish, TypeOK, CeleryTypeOK, Kinds
<1>2. CASE ~(m.retries >= Max_retries(m.kind))
  <2>1. n.kind = "event" /\ n.id = d
    BY DEF TypeOK, CeleryTypeOK, Messages
  <2>2. n \in queue'
    BY <1>2 DEF Retry
  <2> HIDE DEF n
  <2> QED
    BY <2>1, <2>2 DEF Pending
<1> QED
  BY <1>1, <1>2

\* Every step of a worker treats a failed payment so.
LEMMA WorkFailedMoves ==
    ASSUME TypeOK, MessagesBacked, DunningIsOwed, NEW w \in Workers, Work(w) \/ WorkerLost(w)
    PROVE  FailedMoves(w)
<1> SUFFICES ASSUME NEW d \in Deliveries, Ev(d).type = "payment_failed"
             PROVE  /\ applied'[d] # applied[d] =>
                          /\ worker[w].pc = "running" /\ worker[w].msg.kind = "event"
                          /\ worker'[w].pc = "dunning" /\ worker'[w].msg = worker[w].msg
                          /\ \E c \in applied'[d] : Ev(d).sub # NoSub /\ sub'[c].subId = Ev(d).sub
                    /\ Pending(d) \/ result'["event"][d] # result["event"][d] =>
                          \/ Pending(d)' \/ result'["event"][d] # "processed"
                          \/ Attempt("dunning", d)' \/ Attached(Ev(d).sub) = {}
  BY DEF FailedMoves
<1> DEFINE m == worker[w].msg
<1>1. RowMoves(w)
  BY WorkRowMoves
<1>2. ASSUME NEW x \in queue, Fetch(w, x)
      PROVE  applied' = applied /\ result' = result /\ (Pending(d) => Pending(d)')
  <2>1. /\ applied' = applied /\ result' = result /\ queue' = queue \ {x}
        /\ worker[w].pc = "idle" /\ worker'[w].pc = "running" /\ worker'[w].msg = x
        /\ \A v \in Workers \ {w} : worker'[v] = worker[v]
    BY <1>2 DEF Fetch, rows, TypeOK, CeleryTypeOK
  <2> QED
    BY <2>1 DEF Pending
<1>3. CASE \/ OnSubscriptionCreated(w) \/ OnSubscriptionUpdated(w) \/ OnSubscriptionCanceled(w)
           \/ OnPaymentSucceeded(w) \/ OnTrialEnding(w)
  <2>1. worker[w].pc # "idle" /\ Ev(m.id).type # "payment_failed"
    BY <1>3 DEF OnSubscriptionCreated, OnSubscriptionUpdated, OnSubscriptionCanceled,
                OnPaymentSucceeded, OnTrialEnding, Handling, Running
  <2>2. Retry(w) \/ (Finish(w, "processed") /\ queue \subseteq queue')
    BY <1>3 DEF OnSubscriptionCreated, OnSubscriptionUpdated, OnSubscriptionCanceled,
                OnPaymentSucceeded, OnTrialEnding, Skip
  <2>3. m.id # d
    BY <2>1
  <2>4. applied'[d] = applied[d]
    BY <1>1, <2>3 DEF RowMoves
  <2> QED
    BY <2>1, <2>2, <2>3, <2>4, OthersPending
<1>4. CASE SendDunningEmail(w) \/ DunningRaises(w)
  <2>1. worker[w].pc # "idle" /\ m.kind = "dunning" /\ applied' = applied
    BY <1>4 DEF SendDunningEmail, DunningRaises, Running, rows
  <2>2. Retry(w) \/ \E answer : Finish(w, answer) /\ queue \subseteq queue'
    BY <1>4 DEF SendDunningEmail, DunningRaises
  <2> QED
    BY <2>1, <2>2, OthersPending
<1>5. CASE HandlerRaises(w)
  <2>1. worker[w].pc # "idle" /\ Retry(w) /\ applied' = applied
    BY <1>5 DEF HandlerRaises, Running, rows
  <2> QED
    BY <2>1, OthersPending, RaisePending
<1>6. CASE EnqueueDunning(w)
  <2>1. /\ worker[w].pc = "dunning" /\ Finish(w, "processed") /\ applied' = applied
        /\ queue' = queue \cup {DunningTask(m.id, worker[w].tenant)}
    BY <1>6 DEF EnqueueDunning, rows
  <2>2. worker[w].tenant \in Customers /\ m.kind = "event" /\ m.id \in Deliveries
    BY <2>1 DEF TypeOK, CeleryTypeOK, Messages, DunningIsOwed
  <2>3. CASE m.id = d
    <3> DEFINE n == DunningTask(m.id, worker[w].tenant)
    <3>1. n \in Messages /\ n.kind = "dunning" /\ n.id = d
      BY <2>2, <2>3 DEF DunningTask, Messages, Kinds
    <3>2. n \in queue'
      BY <2>1
    <3> HIDE DEF n
    <3>3. Attempt("dunning", d)'
      BY <3>1, <3>2 DEF Attempt, Carried
    <3> QED
      BY <2>1, <3>3
  <2>4. CASE m.id # d
    BY <2>1, <2>4, OthersPending
  <2> QED
    BY <2>3, <2>4
<1>7. CASE OnPaymentFailed(w)
  <2>1. worker[w].pc = "running" /\ m.kind = "event" /\ queue' = queue
    BY <1>7 DEF OnPaymentFailed, Handling, Running
  <2>2. m.id \in Deliveries /\ \A c \in Customers : sub[c] \in Row
    BY <2>1, EventOfTask DEF TypeOK, RowsTypeOK
  <2>3. ASSUME Attached(Ev(m.id).sub) = {}, Skip(w)
        PROVE  /\ applied' = applied
               /\ m.id # d => result'["event"][d] = result["event"][d] /\ (Pending(d) => Pending(d)')
    BY <2>1, <2>3, OthersPending DEF Skip, rows
  <2>4. ASSUME NEW c \in Attached(Ev(m.id).sub),
               Commit(w, c, [sub[c] EXCEPT !.status = "past_due", !.grace = now + Grace]),
               worker' = [worker EXCEPT ![w] = [@ EXCEPT !.pc = "dunning", !.tenant = c]],
               UNCHANGED result
        PROVE  /\ applied'[d] # applied[d] =>
                     /\ worker'[w].pc = "dunning" /\ worker'[w].msg = m
                     /\ \E o \in applied'[d] : Ev(d).sub # NoSub /\ sub'[o].subId = Ev(d).sub
               /\ result' = result /\ (Pending(d) => Pending(d)')
    <3> DEFINE r == [sub[c] EXCEPT !.status = "past_due", !.grace = now + Grace]
    <3>1. c \in Customers /\ Ev(m.id).sub # NoSub /\ sub[c].subId = Ev(m.id).sub
      BY DEF Attached
    <3>2. r.subId = sub[c].subId
      BY <2>2, <3>1 DEF Row
    <3>3. /\ worker'[w].pc = "dunning" /\ worker'[w].msg = m
          /\ \A v \in Workers \ {w} : worker'[v] = worker[v]
      BY <2>4 DEF TypeOK, CeleryTypeOK
    <3>4. Pending(d) => Pending(d)'
      BY <2>1, <3>3 DEF Pending
    <3>5. applied'[d] # applied[d] => d = m.id
      BY <1>1 DEF RowMoves
    <3>6. sub'[c].subId = Ev(m.id).sub /\ c \in applied'[m.id]
      <4>1. Commit(w, c, r)
        BY <2>4
      <4> HIDE DEF r
      <4> QED
        BY <2>2, <3>1, <3>2, <4>1 DEF Commit, TypeOK, RowsTypeOK
    <3> QED
      BY <2>4, <3>1, <3>3, <3>4, <3>5, <3>6
  <2>5. \/ Attached(Ev(m.id).sub) = {} /\ Skip(w)
        \/ \E c \in Attached(Ev(m.id).sub) :
              /\ Commit(w, c, [sub[c] EXCEPT !.status = "past_due", !.grace = now + Grace])
              /\ worker' = [worker EXCEPT ![w] = [@ EXCEPT !.pc = "dunning", !.tenant = c]]
              /\ UNCHANGED result
    BY <1>7 DEF OnPaymentFailed
  <2>6. CASE Attached(Ev(m.id).sub) = {} /\ Skip(w)
    BY <2>3, <2>6
  <2>7. ASSUME NEW c \in Attached(Ev(m.id).sub),
               Commit(w, c, [sub[c] EXCEPT !.status = "past_due", !.grace = now + Grace]),
               worker' = [worker EXCEPT ![w] = [@ EXCEPT !.pc = "dunning", !.tenant = c]],
               UNCHANGED result
        PROVE  /\ applied'[d] # applied[d] =>
                     /\ worker[w].pc = "running" /\ m.kind = "event"
                     /\ worker'[w].pc = "dunning" /\ worker'[w].msg = m
                     /\ \E o \in applied'[d] : Ev(d).sub # NoSub /\ sub'[o].subId = Ev(d).sub
               /\ result' = result /\ (Pending(d) => Pending(d)')
    BY <2>1, <2>4, <2>7
  <2> QED
    BY <2>5, <2>6, <2>7
<1>8. CASE Ack(w)
  <2>1. /\ worker[w].pc = "acking" /\ UNCHANGED <<queue, result, applied>>
        /\ \A v \in Workers \ {w} : worker'[v] = worker[v]
    BY <1>8 DEF Ack, rows, TypeOK, CeleryTypeOK
  <2> QED
    BY <2>1 DEF Pending
<1>9. CASE WorkerLost(w)
  <2>1. /\ queue' = queue \cup {m} /\ UNCHANGED <<result, applied>>
        /\ \A v \in Workers \ {w} : worker'[v] = worker[v]
    BY <1>9 DEF WorkerLost, rows, TypeOK, CeleryTypeOK
  <2> QED
    BY <2>1 DEF Pending
<1> QED
  BY <1>2, <1>3, <1>4, <1>5, <1>6, <1>7, <1>8, <1>9 DEF Work

\* A worker comes to enqueue a dunning task only from a committed failed payment.
LEMMA DunningAfterCommit ==
    ASSUME TypeOK, MessagesBacked, NEW w \in Workers, Work(w) \/ WorkerLost(w),
           worker'[w].pc = "dunning"
    PROVE  /\ worker[w].pc = "running" /\ worker[w].msg.kind = "event"
           /\ worker'[w].msg = worker[w].msg
           /\ Ev(worker[w].msg.id).type = "payment_failed" /\ applied'[worker[w].msg.id] # {}
<1>1. \A m \in queue : ~Fetch(w, m)
  BY DEF Fetch, TypeOK, CeleryTypeOK
<1>2. ~(\E answer : Finish(w, answer)) /\ ~Retry(w)
  BY DEF Finish, Retry, TypeOK, CeleryTypeOK
<1>3. /\ ~OnSubscriptionCreated(w) /\ ~OnSubscriptionUpdated(w) /\ ~OnSubscriptionCanceled(w)
      /\ ~OnPaymentSucceeded(w) /\ ~OnTrialEnding(w)
  BY <1>2 DEF OnSubscriptionCreated, OnSubscriptionUpdated, OnSubscriptionCanceled,
              OnPaymentSucceeded, OnTrialEnding, Skip
<1>4. ~EnqueueDunning(w) /\ ~HandlerRaises(w) /\ ~SendDunningEmail(w) /\ ~DunningRaises(w)
  BY <1>2 DEF EnqueueDunning, HandlerRaises, SendDunningEmail, DunningRaises
<1>5. ~Ack(w) /\ ~WorkerLost(w)
  BY DEF Ack, WorkerLost, IdleWorker, TypeOK, CeleryTypeOK
<1>6. OnPaymentFailed(w)
  BY <1>1, <1>3, <1>4, <1>5 DEF Work
<1>7. worker[w].pc = "running" /\ worker[w].msg.kind = "event" /\ Ev(worker[w].msg.id).type = "payment_failed"
  BY <1>6 DEF OnPaymentFailed, Handling, Running
<1>8. PICK c \in Customers :
         /\ \E r : Commit(w, c, r)
         /\ worker' = [worker EXCEPT ![w] = [@ EXCEPT !.pc = "dunning", !.tenant = c]]
  BY <1>2, <1>6 DEF OnPaymentFailed, Attached, Skip
<1>9. worker'[w].msg = worker[w].msg
  BY <1>8 DEF TypeOK, CeleryTypeOK
<1>10. worker[w].msg.id \in Deliveries
  BY <1>7, EventOfTask
<1> QED
  BY <1>7, <1>8, <1>9, <1>10 DEF Commit, TypeOK, RowsTypeOK

\* What a task has committed stays committed, and its event is what it was.
LEMMA OwesStays ==
    ASSUME NEW w \in Workers, RowMoves(w), NEW d \in Deliveries
    PROVE  /\ Ev(d)' = Ev(d)
           /\ Owes(d) => Owes(d)'
           /\ Moved(d) => Moved(d)'
<1>1. \A x \in Deliveries : Ev(x)' = Ev(x) /\ applied[x] \subseteq applied'[x]
  BY DEF RowMoves, Ev
<1>2. Owes(d) => Owes(d)'
  BY <1>1 DEF Owes
<1>3. Moved(d) => Moved(d)'
  BY <1>1 DEF Moved
<1> QED
  BY <1>1, <1>2, <1>3

\* A step of a worker keeps the four parts of DunningInv.
LEMMA WorkDunningInv ==
    ASSUME IndInv, CarryInv, DunningInv, NEW w \in Workers, Work(w) \/ WorkerLost(w)
    PROVE  DunningInv'
<1>1. TypeOK /\ MessagesBacked /\ NextAttempt
  BY DEF IndInv, CarryInv
<1>2. AppliedQueued /\ DunningIsOwed /\ StillAttached /\ DunningComes
  BY DEF DunningInv
<1>3. RowMoves(w) /\ MessageMoves(w) /\ FailedMoves(w) /\ Keeps(w)
  BY <1>1, <1>2, WorkRowMoves, WorkMessageMoves, WorkFailedMoves, WorkKeeps
<1>4. \A d \in Deliveries :
         /\ Ev(d)' = Ev(d)
         /\ Owes(d) => Owes(d)'
         /\ Moved(d) => Moved(d)'
  BY <1>3, OwesStays
<1>5. \A v \in Workers : worker[v].pc # "idle" =>
         worker[v].msg.id \in Deliveries /\ http[worker[v].msg.id].pc = "queued"
  BY <1>1 DEF MessagesBacked, TypeOK, CeleryTypeOK, Messages
<1>6. \A m \in queue : m.id \in Deliveries
  BY <1>1 DEF TypeOK, CeleryTypeOK, Messages
<1>7. AppliedQueued'
  BY <1>2, <1>3, <1>5 DEF AppliedQueued, RowMoves
<1>8. DunningIsOwed'
  <2>1. ASSUME NEW m \in queue', m.kind = "dunning"  PROVE Owes(m.id)'
    <3>1. CASE m \in queue
      BY <1>2, <1>4, <1>6, <3>1, <2>1 DEF DunningIsOwed
    <3>2. CASE m \notin queue
      <4>1. worker[w].pc # "idle" /\ m.id = worker[w].msg.id /\ Owes(worker[w].msg.id)
        BY <1>2, <1>3, <2>1, <3>2 DEF MessageMoves, DunningIsOwed
      <4>2. m.id \in Deliveries /\ Owes(m.id)
        BY <1>5, <4>1
      <4> QED
        BY <1>4, <4>2
    <3> QED
      BY <3>1, <3>2
  <2>2. ASSUME NEW v \in Workers, worker'[v].pc # "idle", NEW m, m = worker'[v].msg,
               m.kind = "dunning"
        PROVE  Owes(m.id)'
    <3>1. m.id \in Deliveries /\ Owes(m.id)
      <4>1. CASE worker[v].pc # "idle" /\ m = worker[v].msg
        BY <1>2, <1>5, <2>2, <4>1 DEF DunningIsOwed
      <4>2. CASE m \in queue
        BY <1>2, <1>6, <2>2, <4>2 DEF DunningIsOwed
      <4> QED
        BY <1>3, <2>2, <4>1, <4>2 DEF MessageMoves
    <3> QED
      BY <1>4, <3>1
  <2>3. ASSUME NEW v \in Workers, worker'[v].pc = "dunning", NEW m, m = worker'[v].msg
        PROVE  m.kind = "event" /\ Owes(m.id)'
    <3>1. CASE v = w
      <4>1. /\ m.kind = "event" /\ m.id \in Deliveries
            /\ Ev(m.id).type = "payment_failed" /\ applied'[m.id] # {}
        BY <1>1, <1>5, <2>3, <3>1, DunningAfterCommit
      <4> QED
        BY <1>4, <4>1 DEF Owes
    <3>2. CASE v # w
      <4>1. worker[v].pc = "dunning" /\ m = worker[v].msg
        BY <1>3, <2>3, <3>2 DEF Keeps
      <4>2. m.kind = "event" /\ m.id \in Deliveries /\ Owes(m.id)
        BY <1>2, <1>5, <4>1 DEF DunningIsOwed
      <4> QED
        BY <1>4, <4>2
    <3> QED
      BY <3>1, <3>2
  <2>4. ASSUME NEW d \in Deliveries, result'["dunning"][d] # "none"  PROVE Owes(d)'
    <3>1. Owes(d)
      BY <1>2, <1>3, <2>4 DEF MessageMoves, DunningIsOwed, Kinds
    <3> QED
      BY <1>4, <3>1
  <2> QED
    BY <2>1, <2>2, <2>3, <2>4 DEF DunningIsOwed, Owes, Ev
<1>9. ASSUME NEW d \in Deliveries, Owes(d)', ~Owes(d)
      PROVE  Pending(d)' /\ \E c \in applied'[d] : (c \in Attached(Ev(d).sub))'
  <2>1. Ev(d).type = "payment_failed" /\ applied'[d] # applied[d]
    BY <1>4, <1>9 DEF Owes
  <2>2. /\ worker[w].pc = "running" /\ worker[w].msg.kind = "event" /\ d = worker[w].msg.id
        /\ worker'[w].pc = "dunning" /\ worker'[w].msg = worker[w].msg
        /\ \E c \in applied'[d] : Ev(d).sub # NoSub /\ sub'[c].subId = Ev(d).sub
    BY <1>3, <2>1 DEF FailedMoves, RowMoves
  <2>3. Pending(d)'
    BY <2>2 DEF Pending
  <2>4. applied'[d] \subseteq Customers
    BY <1>1, StepType DEF TypeOK, RowsTypeOK, Next
  <2> QED
    BY <1>4, <2>2, <2>3, <2>4 DEF Attached
<1>10. StillAttached'
  <2> SUFFICES ASSUME NEW d \in Deliveries, Owes(d)'
               PROVE  Moved(d)' \/ \E c \in applied'[d] : (c \in Attached(Ev(d).sub))'
    BY DEF StillAttached
  <2>1. CASE ~Owes(d)
    BY <1>9, <2>1
  <2>2. CASE Moved(d)
    BY <1>4, <2>2
  <2>3. ASSUME NEW c \in applied[d], c \in Attached(Ev(d).sub)
        PROVE  Moved(d)' \/ \E o \in applied'[d] : (o \in Attached(Ev(d).sub))'
    <3>1. c \in Customers /\ sub[c].subId = Ev(d).sub /\ Ev(d).sub # NoSub /\ c \in applied'[d]
      BY <1>3, <2>3 DEF Attached, RowMoves
    <3>2. CASE sub'[c].subId = Ev(d).sub
      BY <1>4, <3>1, <3>2 DEF Attached
    <3>3. CASE sub'[c].subId # Ev(d).sub
      <4>1. PICK new \in Deliveries :
               c \in applied'[new] /\ Ev(new).type = "created" /\ sub'[c].subId = Ev(new).sub
        BY <1>3, <3>1, <3>3 DEF RowMoves
      <4>2. Ev(new).sub # Ev(d).sub /\ c \in applied'[new] \cap applied'[d]
        BY <3>1, <3>3, <4>1
      <4> QED
        BY <1>4, <4>1, <4>2 DEF Moved
    <3> QED
      BY <3>2, <3>3
  <2> QED
    BY <1>2, <2>1, <2>2, <2>3 DEF StillAttached
<1>11. DunningComes'
  <2> SUFFICES ASSUME NEW d \in Deliveries, Owes(d)', result'["event"][d] = "processed"
               PROVE  Moved(d)' \/ Enqueued("dunning", d)' \/ Pending(d)'
    BY DEF DunningComes
  <2>1. CASE ~Owes(d)
    BY <1>9, <2>1
  <2>2. CASE Moved(d)
    BY <1>4, <2>2
  <2>3. CASE Enqueued("dunning", d)
    BY <1>1, <1>3, <2>3, EnqueuedStays DEF Kinds
  <2>4. CASE Owes(d) /\ (Pending(d) \/ result'["event"][d] # result["event"][d])
    <3>1. Pending(d)' \/ Attempt("dunning", d)' \/ Attached(Ev(d).sub) = {}
      BY <1>3, <2>4 DEF FailedMoves, Owes
    <3>2. CASE Attached(Ev(d).sub) = {}
      <4>1. Moved(d)
        BY <1>2, <2>4, <3>2 DEF StillAttached
      <4> QED
        BY <1>4, <4>1
    <3> QED
      BY <3>1, <3>2 DEF Enqueued
  <2> QED
    BY <1>2, <2>1, <2>2, <2>3, <2>4 DEF DunningComes
<1> QED
  BY <1>7, <1>8, <1>10, <1>11 DEF DunningInv

\* The endpoint and the clock leave the rows and the committed tasks' events alone.
LEMMA EndpointDunningInv ==
    ASSUME IndInv, DunningInv, UNCHANGED <<event, worker, result, sub, applied>>,
           queue \subseteq queue', \A m \in queue' : m \in queue \/ m.kind = "event",
           \A d \in Deliveries : http[d].pc = "queued" => http'[d] = http[d]
    PROVE  DunningInv'
<1>1. TypeOK /\ MessagesBacked
  BY DEF IndInv
<1>2. AppliedQueued /\ DunningIsOwed /\ StillAttached /\ DunningComes
  BY DEF DunningInv
<1>3. \A d \in Deliveries : applied[d] # {} => Ev(d)' = Ev(d)
  BY <1>2 DEF AppliedQueued, Ev
<1>4. \A d \in Deliveries : Owes(d)' = Owes(d)
  BY <1>3 DEF Owes
<1>5. \A d \in Deliveries : Moved(d) => Moved(d)'
  BY <1>3 DEF Moved
<1>6. \A d \in Deliveries : Pending(d) => Pending(d)'
  BY DEF Pending
<1>7. \A m \in Messages : m.kind \in Kinds /\ m.id \in Deliveries
  BY DEF Messages
<1>8. \A d \in Deliveries : Enqueued("dunning", d) => Enqueued("dunning", d)'
  BY <1>1, EndpointKeeps DEF Enqueued, Attempt, Kinds
<1>9. AppliedQueued'
  BY <1>2 DEF AppliedQueued
<1>10. \A v \in Workers : worker[v].pc # "idle" => worker[v].msg.id \in Deliveries
  BY <1>1, <1>7 DEF TypeOK, CeleryTypeOK
<1>11. \A m \in queue : m.id \in Deliveries
  BY <1>1, <1>7 DEF TypeOK, CeleryTypeOK
<1>12. DunningIsOwed'
  <2>1. ASSUME NEW m \in queue', m.kind = "dunning"  PROVE Owes(m.id)'
    BY <1>2, <1>4, <1>11, <2>1 DEF DunningIsOwed
  <2>2. ASSUME NEW v \in Workers, NEW m, m = worker[v].msg, worker[v].pc # "idle", m.kind = "dunning"
        PROVE  Owes(m.id)'
    BY <1>2, <1>4, <1>10, <2>2 DEF DunningIsOwed
  <2>3. ASSUME NEW v \in Workers, NEW m, m = worker[v].msg, worker[v].pc = "dunning"
        PROVE  m.kind = "event" /\ Owes(m.id)'
    BY <1>2, <1>4, <1>10, <2>3 DEF DunningIsOwed
  <2>4. \A d \in Deliveries : result'["dunning"][d] # "none" => Owes(d)'
    BY <1>2, <1>4 DEF DunningIsOwed
  <2> QED
    BY <2>1, <2>2, <2>3, <2>4 DEF DunningIsOwed, Owes, Ev
<1>13. StillAttached'
  <2> SUFFICES ASSUME NEW d \in Deliveries, Owes(d)'
               PROVE  Moved(d)' \/ \E c \in applied'[d] : (c \in Attached(Ev(d).sub))'
    BY DEF StillAttached
  <2>1. Owes(d) /\ Ev(d)' = Ev(d)
    BY <1>3, <1>4 DEF Owes
  <2> QED
    BY <1>2, <1>5, <2>1 DEF StillAttached, Attached
<1>14. DunningComes'
  <2> SUFFICES ASSUME NEW d \in Deliveries, Owes(d)', result'["event"][d] = "processed"
               PROVE  Moved(d)' \/ Enqueued("dunning", d)' \/ Pending(d)'
    BY DEF DunningComes
  <2> QED
    BY <1>2, <1>4, <1>5, <1>6, <1>8 DEF DunningComes
<1> QED
  BY <1>9, <1>12, <1>13, <1>14 DEF DunningInv

\* DunningInv is inductive relative to IndInv and CarryInv.
LEMMA DunningInvStep == IndInv /\ CarryInv /\ DunningInv /\ [Next]_vars => DunningInv'
<1> SUFFICES ASSUME IndInv, CarryInv, DunningInv, [Next]_vars PROVE DunningInv'
  OBVIOUS
<1>1. ASSUME NEW w \in Workers, Work(w) \/ WorkerLost(w)  PROVE DunningInv'
  BY <1>1, WorkDunningInv
<1>2. ASSUME NEW d \in Deliveries,
             (\E e \in Events : Receive(d, e)) \/ LogEvent(d) \/ Dispatch(d) \/ Abort(d)
      PROVE  DunningInv'
  <2>1. UNCHANGED <<event, worker, result, sub, applied>>
    BY <1>2 DEF Receive, LogEvent, Dispatch, Abort, celery, rows
  <2>2. queue \subseteq queue' /\ \A m \in queue' : m \in queue \/ m.kind = "event"
    BY <1>2 DEF Receive, LogEvent, Dispatch, Abort, EventTask
  <2>3. \A x \in Deliveries : http[x].pc = "queued" => http'[x] = http[x]
    BY <1>2 DEF Receive, LogEvent, Dispatch, Abort, IndInv, TypeOK, HttpTypeOK
  <2> QED
    BY <2>1, <2>2, <2>3, EndpointDunningInv
<1>3. CASE Tick \/ UNCHANGED vars
  <2>1. UNCHANGED <<event, worker, result, sub, applied, queue, http>>
    BY <1>3 DEF Tick, celery, rows, vars
  <2> QED
    BY <2>1, EndpointDunningInv
<1> QED
  BY <1>1, <1>2, <1>3 DEF Next

\* So it holds throughout.
LEMMA DunningInvHolds == Spec => []DunningInv
<1>1. Init => DunningInv
  <2> SUFFICES ASSUME Init PROVE DunningInv
    OBVIOUS
  <2>1. /\ \A d \in Deliveries : applied[d] = {} /\ result["dunning"][d] = "none"
        /\ queue = {} /\ \A w \in Workers : worker[w].pc = "idle"
    BY DEF Init, IdleWorker, Kinds
  <2> QED
    BY <2>1 DEF DunningInv, AppliedQueued, DunningIsOwed, StillAttached, DunningComes, Owes
<1> QED
  BY <1>1, DunningInvStep, CarryInvHolds, IndInvHolds, PTL DEF Spec

\* A dunning e-mail goes out only for a failed payment that is committed, whatever
\* is retried, lost and handed out again.
THEOREM DunningIsBacked == Spec => []DunningBacked
<1>1. DunningInv => DunningBacked
  BY DEF DunningInv, DunningIsOwed, DunningBacked, Owes
<1> QED
  BY <1>1, DunningInvHolds, PTL

\* The commit and the delay after it are not one step, and yet no failed payment
\* stays without its dunning task: the task runs again until it has enqueued one,
\* has failed, or its tenant has moved to another subscription.
THEOREM DunningDoesFollow == Spec => []DunningFollows
<1>1. IndInv /\ DunningInv => DunningFollows
  <2> SUFFICES ASSUME IndInv, DunningInv, NEW d \in Deliveries,
                      result["event"][d] = "processed", Ev(d).type = "payment_failed",
                      applied[d] # {}, ~InFlight("event", d)
               PROVE  \/ InFlight("dunning", d) \/ result["dunning"][d] # "none"
                      \/ \E new \in Deliveries :
                            /\ applied[new] \cap applied[d] # {}
                            /\ Ev(new).type = "created" /\ Ev(new).sub # Ev(d).sub
    BY DEF DunningFollows
  <2>1. ~Pending(d)
    BY DEF Pending, InFlight, Held
  <2>2. Moved(d) \/ Enqueued("dunning", d)
    BY <2>1 DEF DunningInv, DunningComes, Owes
  <2>3. Enqueued("dunning", d) => InFlight("dunning", d) \/ result["dunning"][d] # "none"
    BY DEF Enqueued, Answered, Attempt, Carried, InFlight, Held
  <2> QED
    BY <2>2, <2>3 DEF Moved
<1> QED
  BY <1>1, DunningInvHolds, IndInvHolds, PTL

-----------------------------------------------------------------------------
(* A grace period is never older than the latest failed payment *)

\* What one transaction does to a row and to the record of its invoices.
LEMMA CommitGrace ==
    ASSUME TypeOK, GraceOfFailure, NEW w \in Workers, NEW c \in Customers, NEW r, Commit(w, c, r),
           \/ r.grace = NoGrace
           \/ r.grace = sub[c].grace /\ invoice'[c] = invoice[c]
           \/ /\ r.grace = now + Grace
              /\ invoice'[c].outcome = "failed" /\ invoice'[c].at = now,
           \A o \in Customers \ {c} : invoice'[o] = invoice[o]
    PROVE  GraceOfFailure'
<1>1. sub'[c] = r /\ \A o \in Customers \ {c} : sub'[o] = sub[o]
  BY DEF Commit, TypeOK, RowsTypeOK
<1> QED
  BY <1>1 DEF GraceOfFailure

\* Every step keeps a row's grace period that of its latest failed payment.
LEMMA GraceStep == TypeOK /\ MessagesBacked /\ GraceOfFailure /\ [Next]_vars => GraceOfFailure'
<1> SUFFICES ASSUME TypeOK, MessagesBacked, GraceOfFailure, [Next]_vars PROVE GraceOfFailure'
  OBVIOUS
<1>1. ASSUME UNCHANGED rows  PROVE GraceOfFailure'
  BY <1>1 DEF rows, GraceOfFailure
<1>2. \A c \in Customers : sub[c] \in Row
  BY DEF TypeOK, RowsTypeOK
<1>3. ASSUME NEW w \in Workers, OnSubscriptionCreated(w)  PROVE GraceOfFailure'
  <2> DEFINE e == Ev(worker[w].msg.id)
             r == [sub[e.customer] EXCEPT !.subId = e.sub, !.status = e.status]
  <2>1. \/ UNCHANGED rows
        \/ e.customer \in Customers /\ Commit(w, e.customer, r) /\ UNCHANGED invoice
    BY <1>3 DEF OnSubscriptionCreated, Skip
  <2>2. e.customer \in Customers => r.grace = sub[e.customer].grace
    BY <1>2 DEF Row
  <2> HIDE DEF r
  <2> QED
    BY <1>1, <2>1, <2>2, CommitGrace
<1>4. ASSUME NEW w \in Workers, OnSubscriptionUpdated(w)  PROVE GraceOfFailure'
  <2> DEFINE e == Ev(worker[w].msg.id)
             r(c) == [sub[c] EXCEPT !.status = e.status]
  <2>1. \/ UNCHANGED rows
        \/ \E c \in Customers : Commit(w, c, r(c)) /\ UNCHANGED invoice
    BY <1>4 DEF OnSubscriptionUpdated, Skip, Attached
  <2>2. \A c \in Customers : r(c).grace = sub[c].grace
    BY <1>2 DEF Row
  <2> HIDE DEF r
  <2> QED
    BY <1>1, <2>1, <2>2, CommitGrace
<1>5. ASSUME NEW w \in Workers, NEW c \in Customers, NEW status,
             Commit(w, c, [sub[c] EXCEPT !.status = status, !.grace = NoGrace]),
             NEW o, Outcome(c, o)
      PROVE  GraceOfFailure'
  <2> DEFINE r == [sub[c] EXCEPT !.status = status, !.grace = NoGrace]
  <2>1. r.grace = NoGrace
    BY <1>2 DEF Row
  <2>2. Commit(w, c, r)
    BY <1>5
  <2>3. \A x \in Customers \ {c} : invoice'[x] = invoice[x]
    BY <1>5 DEF Outcome, TypeOK, RowsTypeOK
  <2> HIDE DEF r
  <2> QED
    BY <2>1, <2>2, <2>3, CommitGrace
<1>6. ASSUME NEW w \in Workers, OnSubscriptionCanceled(w) \/ OnPaymentSucceeded(w)
      PROVE  GraceOfFailure'
  <2>1. \/ UNCHANGED rows
        \/ \E c \in Customers : \E status, o :
              /\ Commit(w, c, [sub[c] EXCEPT !.status = status, !.grace = NoGrace])
              /\ Outcome(c, o)
    BY <1>6 DEF OnSubscriptionCanceled, OnPaymentSucceeded, Skip, Attached
  <2> QED
    BY <1>1, <1>5, <2>1
<1>7. ASSUME NEW w \in Workers, OnPaymentFailed(w)  PROVE GraceOfFailure'
  <2> DEFINE r(c) == [sub[c] EXCEPT !.status = "past_due", !.grace = now + Grace]
  <2>1. ASSUME NEW c \in Customers, Commit(w, c, r(c)), Outcome(c, "failed")  PROVE GraceOfFailure'
    <3>1. r(c).grace = now + Grace
      BY <1>2 DEF Row
    <3>2. /\ invoice'[c].outcome = "failed" /\ invoice'[c].at = now
          /\ \A x \in Customers \ {c} : invoice'[x] = invoice[x]
      BY <2>1 DEF Outcome, TypeOK, RowsTypeOK
    <3> HIDE DEF r
    <3> QED
      BY <2>1, <3>1, <3>2, CommitGrace
  <2>2. \/ UNCHANGED rows
        \/ \E c \in Customers : Commit(w, c, r(c)) /\ Outcome(c, "failed")
    BY <1>7 DEF OnPaymentFailed, Skip, Attached
  <2> QED
    BY <1>1, <2>1, <2>2
<1>8. ASSUME NEW w \in Workers,
             \/ \E m \in queue : Fetch(w, m)
             \/ EnqueueDunning(w) \/ OnTrialEnding(w) \/ HandlerRaises(w)
             \/ SendDunningEmail(w) \/ DunningRaises(w) \/ Ack(w) \/ WorkerLost(w)
      PROVE  UNCHANGED rows
  BY <1>8 DEF Fetch, EnqueueDunning, OnTrialEnding, HandlerRaises, SendDunningEmail,
              DunningRaises, Ack, WorkerLost, Skip
<1>9. ASSUME NEW d \in Deliveries,
             (\E e \in Events : Receive(d, e)) \/ LogEvent(d) \/ Dispatch(d) \/ Abort(d)
      PROVE  UNCHANGED rows
  BY <1>9 DEF Receive, LogEvent, Dispatch, Abort
<1>10. ASSUME Tick \/ UNCHANGED vars  PROVE UNCHANGED rows
  BY <1>10 DEF Tick, rows, vars
<1>11. ASSUME NEW w \in Workers, Work(w) \/ WorkerLost(w)  PROVE GraceOfFailure'
  BY <1>1, <1>3, <1>4, <1>6, <1>7, <1>8, <1>11 DEF Work
<1> QED
  BY <1>1, <1>9, <1>10, <1>11 DEF Next

\* A past-due tenant has access only for the grace period after the latest failed
\* payment: no order of created, updated, paid and cancelled events revives an
\* older one, and a later payment or cancellation ends it.
THEOREM GraceIsJustified == Spec => []GraceJustified
<1>1. Init => GraceOfFailure
  <2> SUFFICES ASSUME Init PROVE GraceOfFailure
    OBVIOUS
  <2>1. \A c \in Customers : sub[c].grace = NoGrace
    BY BillingAssumption DEF Init
  <2> QED
    BY <2>1 DEF GraceOfFailure
<1>2. IndInv /\ GraceOfFailure /\ [Next]_vars => GraceOfFailure'
  BY GraceStep DEF IndInv
<1>3. GraceOfFailure => GraceJustified
  BY DEF GraceOfFailure, GraceJustified, AccessAllowed
<1> QED
  BY <1>1, <1>2, <1>3, IndInvHolds, PTL DEF Spec

-----------------------------------------------------------------------------
(* The pipeline implements WebhookInbox *)

AnsweredQueued == \A d \in Deliveries : Answered("event", d) => http[d].pc = "queued"

\* Only tasks that were enqueued have results.
LEMMA AnsweredQueuedStep == IndInv /\ AnsweredQueued /\ [Next]_vars => AnsweredQueued'
<1> SUFFICES ASSUME IndInv, AnsweredQueued, [Next]_vars PROVE AnsweredQueued'
  OBVIOUS
<1>1. TypeOK /\ MessagesBacked
  BY DEF IndInv
<1>2. ASSUME NEW w \in Workers, Work(w) \/ WorkerLost(w)  PROVE AnsweredQueued'
  <2>1. MessageMoves(w) /\ http' = http
    BY <1>1, <1>2, WorkMessageMoves, WorkSource DEF Source
  <2> QED
    BY <1>1, <2>1 DEF MessageMoves, AnsweredQueued, Answered, MessagesBacked, Kinds
<1>3. ASSUME NEW d \in Deliveries,
             (\E e \in Events : Receive(d, e)) \/ LogEvent(d) \/ Dispatch(d) \/ Abort(d)
      PROVE  AnsweredQueued'
  <2>1. result' = result
    BY <1>3 DEF Receive, LogEvent, Dispatch, Abort, celery
  <2>2. \A x \in Deliveries : http[x].pc = "queued" => http'[x] = http[x]
    BY <1>1, <1>3 DEF Receive, LogEvent, Dispatch, Abort, TypeOK, HttpTypeOK
  <2> QED
    BY <2>1, <2>2 DEF AnsweredQueued, Answered
<1>4. CASE Tick \/ UNCHANGED vars
  BY <1>4 DEF Tick, vars, celery, AnsweredQueued, Answered
<1> QED
  BY <1>2, <1>3, <1>4 DEF Next

\* How often an event has been dispatched: once or not at all.
LEMMA DispatchedCount ==
    ASSUME IndInv, NEW e \in Events
    PROVE  /\ Dispatched(e) = {} => Cardinality(Dispatched(e)) = 0
           /\ \A d \in Dispatched(e) : Dispatched(e) = {d}
           /\ Dispatched(e) # {} => Cardinality(Dispatched(e)) = 1
<1>1. \A d \in Dispatched(e) : Dispatched(e) = {d}
  BY DEF IndInv, ClaimedOnce, Claimed, Dispatched
<1>2. Cardinality({}) = 0 /\ \A d : Cardinality({d}) = 1
  BY FS_EmptySet, FS_Singleton
<1> QED
  BY <1>1, <1>2

\* A step that leaves the deliveries' dispatches and the results alone is a step
\* of the abstract inbox that accepts at most.
LEMMA InboxStutter ==
    ASSUME \A e \in Events : Dispatched(e)' = Dispatched(e), UNCHANGED result
    PROVE  /\ UNCHANGED [e \in Events |-> Cardinality(Dispatched(e))]
           /\ UNCHANGED {e \in Events : \E d \in Dispatched(e) : result["event"][d] # "none"}
<1>1. \A e \in Events : Cardinality(Dispatched(e))' = Cardinality(Dispatched(e))
  OBVIOUS
<1> QED
  BY <1>1

\* Every step of the pipeline is a step of the abstract inbox, or none.
LEMMA InboxStep ==
    IndInv /\ AnsweredQueued /\ [Next]_vars => [Inbox!Next]_(Inbox!vars)
<1> SUFFICES ASSUME IndInv, AnsweredQueued, [Next]_vars PROVE [Inbox!Next]_(Inbox!vars)
  OBVIOUS
<1> DEFINE counts == [e \in Events |-> Cardinality(Dispatched(e))]
           done == {e \in Events : \E d \in Dispatched(e) : result["event"][d] # "none"}
<1>1. TypeOK /\ MessagesBacked /\ ClaimedOnce
  BY DEF IndInv
<1>2. ASSUME UNCHANGED <<inbox, result>>, \A e \in Events : Dispatched(e)' = Dispatched(e)
      PROVE  UNCHANGED Inbox!vars
  BY <1>2, InboxStutter DEF Inbox!vars
<1>3. ASSUME NEW d \in Deliveries, NEW e \in Events, Receive(d, e)  PROVE UNCHANGED Inbox!vars
  <2>1. UNCHANGED <<inbox, result>>
    BY <1>3 DEF Receive, celery
  <2>2. http'[d].pc # "queued" /\ http[d].pc # "queued" /\ \A x \in Deliveries \ {d} : http'[x] = http[x]
    BY <1>1, <1>3 DEF Receive, TypeOK, HttpTypeOK
  <2>3. \A x \in Events : Dispatched(x)' = Dispatched(x)
    BY <2>2 DEF Dispatched
  <2> QED
    BY <1>2, <2>1, <2>3
<1>4. ASSUME NEW d \in Deliveries, Abort(d)  PROVE UNCHANGED Inbox!vars
  <2>1. UNCHANGED <<inbox, result>>
    BY <1>4 DEF Abort, celery
  <2>2. http'[d].pc # "queued" /\ http[d].pc # "queued" /\ \A x \in Deliveries \ {d} : http'[x] = http[x]
    BY <1>1, <1>4 DEF Abort, TypeOK, HttpTypeOK
  <2>3. \A x \in Events : Dispatched(x)' = Dispatched(x)
    BY <2>2 DEF Dispatched
  <2> QED
    BY <1>2, <2>1, <2>3
<1>5. ASSUME NEW d \in Deliveries, LogEvent(d)  PROVE [Inbox!Next]_(Inbox!vars)
  <2>1. /\ http[d].pc = "received" /\ inbox' = inbox \cup {http[d].ev} /\ result' = result
        /\ http[d].ev \in Events
    BY <1>1, <1>5 DEF LogEvent, celery, TypeOK, HttpTypeOK
  <2>2. http'[d].pc # "queued" /\ \A x \in Deliveries \ {d} : http'[x] = http[x]
    BY <1>1, <1>5 DEF LogEvent, TypeOK, HttpTypeOK
  <2>3. \A x \in Events : Dispatched(x)' = Dispatched(x)
    BY <2>1, <2>2 DEF Dispatched
  <2>4. CASE http[d].ev \in inbox
    BY <1>2, <2>1, <2>3, <2>4
  <2>5. CASE http[d].ev \notin inbox
    <3>1. Inbox!Accept(http[d].ev)
      BY <2>1, <2>3, <2>5, InboxStutter DEF Inbox!Accept
    <3> QED
      BY <2>1, <3>1 DEF Inbox!Next
  <2> QED
    BY <2>4, <2>5
<1>6. ASSUME NEW d \in Deliveries, Dispatch(d)  PROVE [Inbox!Next]_(Inbox!vars)
  <2>1. PICK e \in Events : e = http[d].ev
    BY <1>1, <1>6 DEF Dispatch, TypeOK, HttpTypeOK
  <2>2. http[d].pc = "created" /\ inbox' = inbox /\ result' = result /\ e \in Events /\ e \in inbox
    BY <1>1, <1>6, <2>1 DEF Dispatch, celery, ClaimedOnce, Claimed
  <2>3. /\ http'[d].pc = "queued" /\ http'[d].ev = e
        /\ \A x \in Deliveries \ {d} : http'[x] = http[x]
    BY <1>1, <1>6, <2>1 DEF Dispatch, TypeOK, HttpTypeOK
  <2>4. Dispatched(e) = {}
    BY <1>1, <2>1, <2>2 DEF Dispatched, ClaimedOnce, Claimed
  <2>5. Dispatched(e)' = {d} /\ \A x \in Events \ {e} : Dispatched(x)' = Dispatched(x)
    <3>1. \A x \in Events, o \in Deliveries :
             o \in Dispatched(x)' <=> o \in Dispatched(x) \/ (o = d /\ x = e)
      BY <2>1, <2>2, <2>3 DEF Dispatched
    <3>2. \A x \in Events : Dispatched(x)' \subseteq Deliveries /\ Dispatched(x) \subseteq Deliveries
      BY DEF Dispatched
    <3> QED
      BY <2>2, <2>4, <3>1, <3>2
  <2>6. Cardinality({}) = 0 /\ Cardinality({d}) = 1
    BY FS_EmptySet, FS_Singleton
  <2>7. counts[e] = 0 /\ counts' = [counts EXCEPT ![e] = 1]
    <3>1. counts[e] = 0
      BY <2>2, <2>4, <2>6
    <3>2. \A x \in Events : Cardinality(Dispatched(x))' = IF x = e THEN 1 ELSE Cardinality(Dispatched(x))
      BY <2>5, <2>6
    <3>3. \A x \in Events : counts[x] = Cardinality(Dispatched(x))
      OBVIOUS
    <3>4. counts' = [x \in Events |-> Cardinality(Dispatched(x))']
      OBVIOUS
    <3> QED
      BY <2>2, <3>1, <3>2, <3>3, <3>4
  <2>8. done' = done
    <3>1. result["event"][d] = "none"
      BY <2>2 DEF AnsweredQueued, Answered
    <3>2. \A x \in Events :
             (\E o \in Dispatched(x)' : result'["event"][o] # "none")
                <=> (\E o \in Dispatched(x) : result["event"][o] # "none")
      BY <2>2, <2>4, <2>5, <3>1
    <3> QED
      BY <3>2
  <2>9. Inbox!Dispatch(e)
    BY <2>2, <2>7, <2>8 DEF Inbox!Dispatch
  <2> QED
    BY <2>2, <2>9 DEF Inbox!Next
<1>7. ASSUME NEW w \in Workers, Work(w) \/ WorkerLost(w)  PROVE [Inbox!Next]_(Inbox!vars)
  <2> DEFINE id == worker[w].msg.id
             e == http[id].ev
  <2>1. Keeps(w) /\ MessageMoves(w) /\ http' = http /\ inbox' = inbox
    BY <1>1, <1>7, WorkKeeps, WorkMessageMoves, WorkSource DEF Source
  <2>2. \A x \in Events : Dispatched(x)' = Dispatched(x)
    BY <2>1 DEF Dispatched
  <2>3. counts' = counts
    BY <2>2
  <2>4. CASE done' = done
    BY <2>1, <2>3, <2>4 DEF Inbox!vars
  <2>5. CASE done' # done
    <3>1. \A d \in Deliveries : result["event"][d] # "none" => result'["event"][d] # "none"
      BY <2>1 DEF Keeps, Answered, Kinds
    <3>2. \A x \in Events : x \in done => x \in done'
      BY <2>2, <3>1 DEF Dispatched
    <3>3. \A x \in done' : x \in Events /\ (x \notin done =>
             /\ worker[w].pc # "idle" /\ id \in Dispatched(x))
      <4>1. ASSUME NEW x \in Events, NEW d \in Dispatched(x), result'["event"][d] # "none", x \notin done
            PROVE  worker[w].pc # "idle" /\ id \in Dispatched(x)
        <5>1. d \in Deliveries /\ result["event"][d] = "none"
          BY <4>1 DEF Dispatched
        <5> QED
          BY <2>1, <4>1, <5>1 DEF MessageMoves, Kinds
      <4> QED
        BY <2>2, <4>1
    <3>4. PICK y \in done' : y \notin done
      BY <2>5, <3>2
    <3>5. y \in Events /\ id \in Dispatched(y)
      BY <3>3, <3>4
    <3>6. y = e /\ \A x \in done' : x \in done \/ x = y
      BY <3>3, <3>5 DEF Dispatched
    <3>7. done' = done \cup {y}
      BY <3>2, <3>4, <3>6
    <3>8. counts[y] = 1
      BY <3>5, DispatchedCount
    <3>9. Inbox!Settle(y)
      BY <2>1, <2>3, <3>4, <3>7, <3>8 DEF Inbox!Settle
    <3> QED
      BY <3>5, <3>9 DEF Inbox!Next
  <2> QED
    BY <2>4, <2>5
<1>8. ASSUME Tick \/ UNCHANGED vars  PROVE UNCHANGED Inbox!vars
  <2>1. UNCHANGED <<inbox, result, http>>
    BY <1>8 DEF Tick, vars, celery
  <2>2. \A x \in Events : Dispatched(x)' = Dispatched(x)
    BY <2>1 DEF Dispatched
  <2> QED
    BY <1>2, <2>1, <2>2
<1> QED
  BY <1>3, <1>4, <1>5, <1>6, <1>7, <1>8 DEF Next

\* The pipeline implements WebhookInbox but for its fairness: each event is
\* accepted once, dispatched at most once and only when accepted, and settled
\* only when dispatched, for any deliveries, workers, losses and retries.
THEOREM ImplementsInbox == Spec => Inbox!Spec
<1>1. Init => Inbox!Init /\ AnsweredQueued
  <2> SUFFICES ASSUME Init PROVE Inbox!Init /\ AnsweredQueued
    OBVIOUS
  <2>1. \A e \in Events : Dispatched(e) = {}
    BY DEF Init, Dispatched
  <2>2. Cardinality({}) = 0
    BY FS_EmptySet
  <2>3. inbox = {}
    BY DEF Init
  <2>4. [e \in Events |-> Cardinality(Dispatched(e))] = [e \in Events |-> 0]
    BY <2>1, <2>2
  <2>5. {e \in Events : \E d \in Dispatched(e) : result["event"][d] # "none"} = {}
    BY <2>1
  <2>6. AnsweredQueued
    BY DEF Init, AnsweredQueued, Answered, Kinds
  <2> QED
    BY <2>3, <2>4, <2>5, <2>6 DEF Inbox!Init
<1> QED
  BY <1>1, InboxStep, AnsweredQueuedStep, IndInvHolds, PTL DEF Spec, Inbox!Spec
=============================================================================
