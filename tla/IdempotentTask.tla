--------------------------- MODULE IdempotentTask ---------------------------
(***************************************************************************)
(* IdempotencyService.run (services/common/idempotency.py) as the e-mail    *)
(* tasks send_welcome_email and send_email_notification use it, under       *)
(* Celery's at-least-once delivery: read the cache, run the operation,      *)
(* write the cache.  Nothing makes the three steps one.                     *)
(***************************************************************************)
EXTENDS Integers, FiniteSets

CONSTANTS
    Keys,        \* idempotency keys, {task_name}:{business_id}
    Calls,       \* calls of delay; two with one key are a double enqueue
    KeyOf,       \* the key of each call
    Workers,
    Retries,     \* TASK_MAX_RETRIES
    Ttl,         \* DEFAULT_TTL_SECONDS
    MaxTime,     \* bound: the last tick of the clock
    MaxFaults,   \* bound: workers lost and calls that raise after taking effect
    NoMessage

VARIABLES
    queue,      \* messages no worker holds
    called,     \* the calls of delay made so far
    worker,
    cache,      \* per key: the stored result and when it expires
    present,    \* keys whose user or notification row exists
    result,     \* stored task results
    sends,      \* e-mails sent per key
    early,      \* history: an e-mail was sent before the entry its run began under expired
    excuses,    \* history: faults and overlaps that may repeat an operation
    now,
    faults

vars == <<queue, called, worker, cache, present, result, sends, early, excuses, now, faults>>

ASSUME IdempotentAssumption ==
    /\ KeyOf \in [Calls -> Keys]
    /\ Retries \in Nat /\ Ttl \in Nat \ {0} /\ MaxTime \in Nat /\ MaxFaults \in Nat

Messages == [call : Calls, retries : Nat]
Results == {"none", "sent", "skipped", "failed"}

\* What a worker that waits for a message looks like.
Waiting == [pc |-> "idle", msg |-> NoMessage, answer |-> "none", until |-> 0]

Init ==
    /\ queue = {} /\ called = {}
    /\ worker = [w \in Workers |-> Waiting]
    /\ cache = [k \in Keys |-> [answer |-> "none", until |-> 0]]
    /\ present = Keys
    /\ result = [c \in Calls |-> "none"]
    /\ sends = [k \in Keys |-> 0]
    /\ early = FALSE
    /\ excuses = [k \in Keys |-> 0]
    /\ now = 0 /\ faults = 0

-----------------------------------------------------------------------------
Key(w) == KeyOf[worker[w].msg.call]

\* cache.get(full_key) is not None.
Cached(k) == now < cache[k].until

\* Runs that have missed the cache and not yet stored a result.
Operating(k) ==
    {w \in Workers : worker[w].pc \in {"read", "send", "store"} /\ Key(w) = k}

history == <<sends, early>>
world == <<called, present, now>>

Call(c) ==
    /\ c \notin called
    /\ called' = called \cup {c}
    /\ queue' = queue \cup {[call |-> c, retries |-> 0]}
    /\ UNCHANGED <<worker, cache, present, result, history, excuses, now, faults>>

Fetch(w, m) ==
    /\ worker[w].pc = "idle" /\ m \in queue
    /\ queue' = queue \ {m}
    /\ worker' = [worker EXCEPT ![w] =
          [pc |-> "get", msg |-> m, answer |-> "none",
           until |-> IF Cached(KeyOf[m.call]) THEN cache[KeyOf[m.call]].until ELSE 0]]
    /\ UNCHANGED <<world, cache, result, history, excuses, faults>>

\* The task returns: its result is stored, the acknowledgement is to come.
Return(w, answer) ==
    /\ result' = [result EXCEPT ![worker[w].msg.call] = answer]
    /\ worker' = [worker EXCEPT ![w].pc = "acking"]

\* Mutant: a new call of delay instead of a retry.
RaiseForever(w) ==
    /\ queue' = queue \cup {worker[w].msg}
    /\ worker' = [worker EXCEPT ![w].pc = "acking"]
    /\ result' = result

\* autoretry_for = (Exception,), up to max_retries.
Raise(w) ==
    LET m == worker[w].msg IN
    IF m.retries >= Retries
    THEN Return(w, "failed") /\ queue' = queue
    ELSE /\ queue' = queue \cup {[m EXCEPT !.retries = @ + 1]}
         /\ worker' = [worker EXCEPT ![w].pc = "acking"]
         /\ result' = result

-----------------------------------------------------------------------------
(* IdempotencyService.run *)

\* Mutant: the key that is read is not the key that is written.
GetMisses(w) ==
    /\ worker[w].pc = "get"
    /\ worker' = [worker EXCEPT ![w].pc = "read"]
    /\ excuses' = [excuses EXCEPT ![Key(w)] = IF Operating(Key(w)) = {} THEN @ ELSE @ + 1]
    /\ UNCHANGED <<queue, world, cache, result, history, faults>>

\* Mutant: cache.add first, the operation afterwards.
GetClaims(w) ==
    /\ worker[w].pc = "get"
    /\ IF Cached(Key(w))
       THEN Return(w, cache[Key(w)].answer) /\ UNCHANGED <<cache, excuses>>
       ELSE /\ worker' = [worker EXCEPT ![w].pc = "read"]
            /\ cache' = [cache EXCEPT ![Key(w)] = [answer |-> "sent", until |-> now + Ttl]]
            /\ UNCHANGED <<result, excuses>>
    /\ UNCHANGED <<queue, world, history, faults>>

Get(w) ==
    /\ worker[w].pc = "get"
    /\ IF Cached(Key(w))
       THEN Return(w, cache[Key(w)].answer) /\ UNCHANGED excuses
       ELSE /\ worker' = [worker EXCEPT ![w].pc = "read"]
            /\ excuses' = [excuses EXCEPT ![Key(w)] = IF Operating(Key(w)) = {} THEN @ ELSE @ + 1]
            /\ UNCHANGED result
    /\ UNCHANGED <<queue, world, cache, history, faults>>

\* operation(): User.objects.get or Notification.objects.get; a missing row is
\* answered by a "skipped" result, which is cached like any other.
ReadSubject(w) ==
    /\ worker[w].pc = "read"
    /\ worker' = IF Key(w) \in present
                 THEN [worker EXCEPT ![w].pc = "send"]
                 ELSE [worker EXCEPT ![w].pc = "store", ![w].answer = "skipped"]
    /\ UNCHANGED <<queue, world, cache, result, history, excuses, faults>>

Deliver(w) ==
    /\ sends' = [sends EXCEPT ![Key(w)] = @ + 1]
    /\ early' = (early \/ now < worker[w].until)

\* EmailService.send
Send(w) ==
    /\ worker[w].pc = "send"
    /\ Deliver(w)
    /\ worker' = [worker EXCEPT ![w].pc = "store", ![w].answer = "sent"]
    /\ UNCHANGED <<queue, world, cache, result, excuses, faults>>

\* Mutant: the result is returned and not stored.
StoreNothing(w) ==
    /\ worker[w].pc = "store"
    /\ Return(w, worker[w].answer)
    /\ UNCHANGED <<queue, world, cache, history, excuses, faults>>

\* cache.set(full_key, result, timeout=ttl_seconds)
Store(w) ==
    /\ worker[w].pc = "store"
    /\ cache' = [cache EXCEPT ![Key(w)] = [answer |-> worker[w].answer, until |-> now + Ttl]]
    /\ Return(w, worker[w].answer)
    /\ UNCHANGED <<queue, world, history, excuses, faults>>

\* Mutant: a failure is cached like a result.
StepRaisesCached(w) ==
    /\ worker[w].pc \in {"get", "read", "send"}
    /\ Raise(w)
    /\ cache' = [cache EXCEPT ![Key(w)] = [answer |-> "failed", until |-> now + Ttl]]
    /\ UNCHANGED <<world, history, excuses, faults>>

\* The cache, the database or the mail server cannot be reached.
StepRaises(w) ==
    /\ worker[w].pc \in {"get", "read", "send"}
    /\ Raise(w)
    /\ UNCHANGED <<world, cache, history, excuses, faults>>

-----------------------------------------------------------------------------
(* Faults *)

Fault(w) ==
    /\ faults < MaxFaults
    /\ faults' = faults + 1
    /\ excuses' = [excuses EXCEPT ![Key(w)] = @ + 1]

\* The mail server took the message and the connection broke.
SendRaisesLate(w) ==
    /\ worker[w].pc = "send"
    /\ Deliver(w)
    /\ Raise(w)
    /\ Fault(w)
    /\ UNCHANGED <<world, cache>>

\* cache.set raises after the operation has run.
StoreRaises(w) ==
    /\ worker[w].pc = "store"
    /\ Raise(w)
    /\ Fault(w)
    /\ UNCHANGED <<world, cache, history>>

\* The message was not acknowledged: it is handed out again.
WorkerLost(w) ==
    /\ worker[w].pc # "idle"
    /\ queue' = queue \cup {worker[w].msg}
    /\ worker' = [worker EXCEPT ![w] = Waiting]
    /\ Fault(w)
    /\ UNCHANGED <<world, cache, result, history>>

-----------------------------------------------------------------------------
Ack(w) ==
    /\ worker[w].pc = "acking"
    /\ worker' = [worker EXCEPT ![w] = Waiting]
    /\ UNCHANGED <<queue, world, cache, result, history, excuses, faults>>

\* The user or the notification is deleted.
Delete(k) ==
    /\ k \in present
    /\ present' = present \ {k}
    /\ UNCHANGED <<queue, called, worker, cache, result, history, excuses, now, faults>>

Tick ==
    /\ now < MaxTime
    /\ now' = now + 1
    /\ excuses' = [k \in Keys |-> IF cache[k].until = now' THEN excuses[k] + 1 ELSE excuses[k]]
    /\ UNCHANGED <<queue, called, worker, cache, present, result, history, faults>>

Work(w) ==
    \/ \E m \in queue : Fetch(w, m)
    \/ Get(w) \/ ReadSubject(w) \/ Send(w) \/ Store(w) \/ StepRaises(w)
    \/ SendRaisesLate(w) \/ StoreRaises(w) \/ Ack(w)

Next ==
    \/ \E c \in Calls : Call(c)
    \/ \E w \in Workers : Work(w) \/ WorkerLost(w)
    \/ \E k \in Keys : Delete(k)
    \/ Tick

Spec == Init /\ [][Next]_vars

FairSpec == Spec /\ \A w \in Workers : WF_vars(Work(w))

-----------------------------------------------------------------------------
(* Properties *)

\* The types of the variables.
TypeOK ==
    /\ queue \subseteq Messages /\ called \subseteq Calls
    /\ worker \in [Workers ->
          [pc : {"idle", "get", "read", "send", "store", "acking"},
           msg : Messages \cup {NoMessage}, answer : {"none", "sent", "skipped"}, until : Nat]]
    /\ cache \in [Keys -> [answer : {"none", "sent", "skipped"}, until : Nat]]
    /\ present \subseteq Keys
    /\ result \in [Calls -> Results]
    /\ sends \in [Keys -> Nat] /\ excuses \in [Keys -> Nat] /\ early \in BOOLEAN
    /\ now \in Nat /\ faults \in Nat

\* A run that begins when the key is cached sends no e-mail before that entry
\* expires, whatever other runs, retries and losses there are: the promise
\* "duplicate runs return the cached result" of docs/background-jobs.md.
CachedRunsAreQuiet == ~early

\* E-mails are repeated only for a cause: the worker was lost, a call took effect
\* and raised, the entry expired, or two runs both missed the cache.
ExtraSendsExplained == \A k \in Keys : sends[k] <= 1 + excuses[k]

\* A task that reports "sent", be it from the cache, has had its e-mail sent.
SentIsTrue == \A c \in Calls : result[c] = "sent" => sends[KeyOf[c]] > 0

\* Every call of delay comes to a result: retries and losses do not go on for ever.
CallsSettle == \A c \in Calls : c \in called ~> result[c] # "none"

\* The operation runs at most once for each key within the time to live.
RunsOncePerKey == now < Ttl => \A k \in Keys : sends[k] <= 1
=============================================================================
