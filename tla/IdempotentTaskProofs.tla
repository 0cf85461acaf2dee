------------------------- MODULE IdempotentTaskProofs -------------------------
(***************************************************************************)
(* Proofs about IdempotentTask, for any keys, calls, workers and faults.    *)
(***************************************************************************)
EXTENDS IdempotentTask, FiniteSetTheorems, TLAPS

Run ==
    [pc : {"idle", "get", "read", "send", "store", "acking"},
     msg : Messages \cup {NoMessage}, answer : {"none", "sent", "skipped"}, until : Nat]

Entry == [answer : {"none", "sent", "skipped"}, until : Nat]

\* What a run x relies on: the entry it saw when it began is no longer than the key's,
\* and has expired once the key was missed; a result "sent" was sent.
Sound(x, entries, sent, hour) ==
    /\ x.pc # "idle" => x.msg \in Messages
    /\ x.pc = "get" => x.until <= entries[KeyOf[x.msg.call]].until
    /\ x.pc \in {"read", "send"} => x.until <= hour
    /\ x.pc = "store" /\ x.answer = "sent" => sent[KeyOf[x.msg.call]] > 0

RunsSound == \A w \in Workers : Sound(worker[w], cache, sends, now)

\* An entry expires within the time to live, and "sent" in it is true.
CacheSound ==
    \A k \in Keys : cache[k].until <= now + Ttl /\ (cache[k].answer = "sent" => sends[k] > 0)

IndInv == TypeOK /\ RunsSound /\ CacheSound /\ CachedRunsAreQuiet /\ SentIsTrue

\* What all steps have in common.
Moves ==
    /\ \A k \in Keys : cache[k].until <= cache'[k].until /\ sends[k] <= sends'[k]
    /\ now <= now'

\* The variables that steps change one by one.
Typed ==
    /\ cache \in [Keys -> Entry] /\ sends \in [Keys -> Nat] /\ now \in Nat

\* A message is of a call, and a call has a key.
LEMMA MessageFacts ==
    ASSUME NEW m \in Messages
    PROVE  m.call \in Calls /\ KeyOf[m.call] \in Keys /\ m.retries \in Nat
  BY IdempotentAssumption DEF Messages

\* A worker without a task relies on nothing.
LEMMA WaitingFacts ==
    /\ Waiting \in Run /\ Waiting.pc = "idle"
    /\ \A entries, sent, hour : Sound(Waiting, entries, sent, hour)
  BY DEF Waiting, Run, Sound

\* The steps of others and of the clock leave a run sound.
LEMMA SoundKept ==
    ASSUME Typed, Typed', Moves, NEW x \in Run, Sound(x, cache, sends, now)
    PROVE  Sound(x, cache', sends', now')
<1>1. CASE x.pc = "idle"
  BY <1>1 DEF Sound
<1>2. CASE x.pc # "idle"
  <2> DEFINE k == KeyOf[x.msg.call]
  <2>1. k \in Keys
    BY <1>2, MessageFacts DEF Sound
  <2>2. cache[k].until <= cache'[k].until /\ sends[k] <= sends'[k] /\ now <= now'
    BY <2>1 DEF Moves
  <2>3. /\ cache[k].until \in Nat /\ cache'[k].until \in Nat /\ sends[k] \in Nat /\ sends'[k] \in Nat
        /\ now \in Nat /\ now' \in Nat /\ x.until \in Nat
    BY <2>1 DEF Typed, Entry, Run
  <2>4. x.pc = "get" => x.until <= cache'[k].until
    BY <2>2, <2>3 DEF Sound
  <2>5. x.pc \in {"read", "send"} => x.until <= now'
    BY <2>2, <2>3 DEF Sound
  <2>6. x.pc = "store" /\ x.answer = "sent" => sends'[k] > 0
    BY <2>2, <2>3 DEF Sound
  <2> QED BY <2>4, <2>5, <2>6 DEF Sound
<1> QED BY <1>1, <1>2

\* One worker moves: the runs stay sound when its own does.
LEMMA WorkerMoves ==
    ASSUME IndInv, Typed', Moves, NEW w \in Workers, NEW new \in Run,
           worker' = [worker EXCEPT ![w] = new], Sound(new, cache', sends', now')
    PROVE  worker' \in [Workers -> Run] /\ RunsSound'
<1>1. worker \in [Workers -> Run] /\ Typed
  BY DEF IndInv, TypeOK, Run, Typed, Entry
<1>2. worker' \in [Workers -> Run] /\ \A v \in Workers : worker'[v] = IF v = w THEN new ELSE worker[v]
  BY <1>1
<1>3. ASSUME NEW v \in Workers PROVE Sound(worker'[v], cache', sends', now')
  <2>1. CASE v = w
    BY <1>2, <2>1
  <2>2. CASE v # w
    <3>1. worker'[v] = worker[v] /\ worker[v] \in Run /\ Sound(worker[v], cache, sends, now)
      BY <1>1, <1>2, <2>2 DEF IndInv, RunsSound
    <3> QED BY <1>1, <3>1, SoundKept
  <2> QED BY <2>1, <2>2
<1> QED BY <1>2, <1>3 DEF RunsSound

\* A worker moves and neither the cache, the clock nor what was sent changes.
LEMMA QuietMove ==
    ASSUME IndInv, UNCHANGED <<cache, sends, early, now>>, NEW w \in Workers, NEW new \in Run,
           worker' = [worker EXCEPT ![w] = new], Sound(new, cache, sends, now),
           queue' \subseteq Messages, called' \subseteq Calls, present' \subseteq Keys,
           result' \in [Calls -> Results], excuses' \in [Keys -> Nat], faults' \in Nat,
           \A c \in Calls : result'[c] = "sent" => result[c] = "sent" \/ sends[KeyOf[c]] > 0
    PROVE  IndInv'
<1>1. Typed /\ Typed'
  BY DEF Typed, IndInv, TypeOK, Entry
<1>2. Moves
  BY <1>1 DEF Moves, Typed, Entry
<1>3. Sound(new, cache', sends', now')
  OBVIOUS
<1>4. worker' \in [Workers -> Run] /\ RunsSound'
  BY <1>1, <1>2, <1>3, WorkerMoves
<1>5. TypeOK'
  BY <1>4 DEF IndInv, TypeOK, Run
<1> QED BY <1>4, <1>5 DEF IndInv, CacheSound, CachedRunsAreQuiet, SentIsTrue

\* At the start nothing is cached, sent or under way.
LEMMA InitEstablishes == Init => IndInv
<1> SUFFICES ASSUME Init PROVE IndInv
  OBVIOUS
<1>1. TypeOK
  BY IdempotentAssumption, WaitingFacts DEF Init, TypeOK, Run, Results
<1>2. RunsSound
  BY WaitingFacts DEF Init, RunsSound
<1>3. CacheSound
  BY IdempotentAssumption DEF Init, CacheSound
<1> QED BY <1>1, <1>2, <1>3 DEF IndInv, Init, CachedRunsAreQuiet, SentIsTrue

\* Where a run at w only moves its program counter, with an answer perhaps.
LEMMA PcMoves ==
    ASSUME NEW x \in Run, NEW pc \in {"read", "send", "store", "acking"}
    PROVE  /\ [x EXCEPT !.pc = pc] \in Run /\ [x EXCEPT !.pc = pc].pc = pc
           /\ [x EXCEPT !.pc = pc].msg = x.msg /\ [x EXCEPT !.pc = pc].until = x.until
  BY DEF Run

\* A run that has its answer keeps the rest of its record.
LEMMA AnswerMoves ==
    ASSUME NEW x \in Run, NEW pc \in {"read", "send", "store", "acking"}, NEW answer \in {"sent", "skipped"}
    PROVE  /\ [x EXCEPT !.pc = pc, !.answer = answer] \in Run
           /\ [x EXCEPT !.pc = pc, !.answer = answer].pc = pc
           /\ [x EXCEPT !.pc = pc, !.answer = answer].msg = x.msg
           /\ [x EXCEPT !.pc = pc, !.answer = answer].until = x.until
           /\ [x EXCEPT !.pc = pc, !.answer = answer].answer = answer
  BY DEF Run

\* The run of a busy worker.
LEMMA BusyFacts ==
    ASSUME IndInv, NEW w \in Workers, worker[w].pc # "idle"
    PROVE  /\ worker[w] \in Run /\ worker[w].msg \in Messages /\ worker[w].msg.call \in Calls
           /\ Key(w) \in Keys /\ worker \in [Workers -> Run] /\ Sound(worker[w], cache, sends, now)
<1>1. worker[w] \in Run /\ worker \in [Workers -> Run] /\ Sound(worker[w], cache, sends, now)
  BY DEF IndInv, TypeOK, Run, RunsSound
<1>2. worker[w].msg \in Messages
  BY <1>1 DEF Sound
<1> QED BY <1>1, <1>2, MessageFacts DEF Key

\* A run that has nothing left but its acknowledgement.
LEMMA AckingFacts ==
    ASSUME IndInv, NEW w \in Workers, worker[w].pc # "idle",
           worker' = [worker EXCEPT ![w].pc = "acking"]
    PROVE  \E new \in Run :
              /\ worker' = [worker EXCEPT ![w] = new] /\ new.pc = "acking"
              /\ new.msg = worker[w].msg
              /\ \A entries, sent, hour : Sound(new, entries, sent, hour)
<1> DEFINE x == worker[w]
           new == [x EXCEPT !.pc = "acking"]
<1>1. x \in Run /\ x.msg \in Messages /\ worker \in [Workers -> Run]
  BY BusyFacts
<1>2. worker' = [worker EXCEPT ![w] = new]
  BY <1>1
<1> HIDE DEF x
<1>3. new \in Run /\ new.pc = "acking" /\ new.msg = x.msg
  BY <1>1, PcMoves
<1> HIDE DEF new
<1>4. \A entries, sent, hour : Sound(new, entries, sent, hour)
  BY <1>1, <1>3 DEF Sound
<1> QED BY <1>2, <1>3, <1>4 DEF x

\* What the return and the raise of a run write.
LEMMA ReturnFacts ==
    ASSUME IndInv, NEW w \in Workers, worker[w].pc # "idle", NEW answer \in Results, Return(w, answer)
    PROVE  /\ result' \in [Calls -> Results] /\ worker' = [worker EXCEPT ![w].pc = "acking"]
           /\ \A c \in Calls : result'[c] = result[c] \/ (result'[c] = answer /\ KeyOf[c] = Key(w))
  BY BusyFacts DEF Return, Key, IndInv, TypeOK

\* The retry policy publishes the next attempt or stores a failure.
LEMMA RaiseFacts ==
    ASSUME IndInv, NEW w \in Workers, worker[w].pc # "idle", Raise(w)
    PROVE  /\ result' \in [Calls -> Results] /\ worker' = [worker EXCEPT ![w].pc = "acking"]
           /\ \A c \in Calls : result'[c] = result[c] \/ result'[c] = "failed"
           /\ queue' \subseteq Messages
<1> DEFINE m == worker[w].msg
<1>1. m \in Messages /\ queue \subseteq Messages /\ result \in [Calls -> Results]
  BY BusyFacts DEF IndInv, TypeOK
<1>2. CASE m.retries >= Retries
  <2>1. Return(w, "failed") /\ queue' = queue
    BY <1>2 DEF Raise
  <2> QED BY <1>1, <2>1, ReturnFacts DEF Results
<1>3. CASE ~(m.retries >= Retries)
  <2>1. /\ queue' = queue \cup {[m EXCEPT !.retries = @ + 1]}
        /\ worker' = [worker EXCEPT ![w].pc = "acking"] /\ result' = result
    BY <1>3 DEF Raise
  <2> HIDE DEF m
  <2>2. [m EXCEPT !.retries = @ + 1] \in Messages
    BY <1>1 DEF Messages
  <2> QED BY <1>1, <2>1, <2>2
<1> QED BY <1>2, <1>3

\* delay enqueues a message for its call.
LEMMA CallStep == ASSUME IndInv, NEW c \in Calls, Call(c) PROVE Moves /\ IndInv'
<1>1. [call |-> c, retries |-> 0] \in Messages
  BY DEF Messages
<1>2. /\ UNCHANGED <<worker, cache, present, result, sends, early, excuses, now, faults>>
      /\ queue' \subseteq Messages /\ called' \subseteq Calls
  BY <1>1 DEF Call, history, IndInv, TypeOK
<1>3. Moves
  BY <1>2 DEF Moves, IndInv, TypeOK
<1> QED BY <1>2, <1>3 DEF IndInv, TypeOK, RunsSound, CacheSound, CachedRunsAreQuiet, SentIsTrue

\* A worker takes a message and begins with no knowledge of the cache.
LEMMA FetchStep == ASSUME IndInv, NEW w \in Workers, NEW m \in queue, Fetch(w, m) PROVE IndInv'
<1> DEFINE seen == IF Cached(KeyOf[m.call]) THEN cache[KeyOf[m.call]].until ELSE 0
           new == [pc |-> "get", msg |-> m, answer |-> "none", until |-> seen]
<1>1. /\ UNCHANGED <<called, present, now, cache, result, sends, early, excuses, faults>>
      /\ queue' = queue \ {m} /\ worker' = [worker EXCEPT ![w] = new]
  BY DEF Fetch, world, history
<1>2. m \in Messages /\ KeyOf[m.call] \in Keys /\ cache[KeyOf[m.call]].until \in Nat
  BY MessageFacts DEF IndInv, TypeOK
<1>3. seen \in Nat /\ seen <= cache[KeyOf[m.call]].until
  BY <1>2
<1> HIDE DEF seen
<1>4. new \in Run /\ new.pc = "get" /\ new.msg = m /\ new.until = seen
  BY <1>2, <1>3 DEF Run
<1> HIDE DEF new
<1>5. Sound(new, cache, sends, now)
  BY <1>2, <1>3, <1>4 DEF Sound
<1>6. /\ queue' \subseteq Messages /\ called' \subseteq Calls /\ present' \subseteq Keys
      /\ result' \in [Calls -> Results] /\ excuses' \in [Keys -> Nat] /\ faults' \in Nat
  BY <1>1 DEF IndInv, TypeOK
<1>7. \A c \in Calls : result'[c] = "sent" => result[c] = "sent" \/ sends[KeyOf[c]] > 0
  BY <1>1
<1>8. UNCHANGED <<cache, sends, early, now>>
  BY <1>1
<1> QED BY <1>1, <1>4, <1>5, <1>6, <1>7, <1>8, QuietMove

\* What is left of a run to a return or a raise that changes neither the cache nor
\* what was sent.
LEMMA EndsQuietly ==
    ASSUME IndInv, NEW w \in Workers, worker[w].pc # "idle", worker' = [worker EXCEPT ![w].pc = "acking"],
           UNCHANGED <<called, present, now, cache, sends, early>>,
           queue' \subseteq Messages, result' \in [Calls -> Results], excuses' \in [Keys -> Nat], faults' \in Nat,
           \A c \in Calls : result'[c] = "sent" => result[c] = "sent" \/ sends[KeyOf[c]] > 0
    PROVE  IndInv'
<1>1. PICK new \in Run :
         /\ worker' = [worker EXCEPT ![w] = new] /\ new.pc = "acking"
         /\ \A entries, sent, hour : Sound(new, entries, sent, hour)
  BY AckingFacts
<1>2. called' \subseteq Calls /\ present' \subseteq Keys
  BY DEF IndInv, TypeOK
<1>3. UNCHANGED <<cache, sends, early, now>>
  OBVIOUS
<1> QED BY <1>1, <1>2, <1>3, QuietMove

\* A run that misses the cache knows that the entry it might have seen has expired.
LEMMA GetStep == ASSUME IndInv, NEW w \in Workers, Get(w) PROVE IndInv'
<1> DEFINE k == Key(w)
           x == worker[w]
<1>1. /\ x.pc = "get" /\ UNCHANGED <<queue, called, present, now, cache, sends, early, faults>>
      /\ x \in Run /\ x.msg \in Messages /\ k \in Keys /\ worker \in [Workers -> Run]
      /\ Sound(x, cache, sends, now)
  BY BusyFacts DEF Get, world, history
<1>2. /\ queue' \subseteq Messages /\ called' \subseteq Calls /\ present' \subseteq Keys /\ faults' \in Nat
      /\ cache[k].until \in Nat /\ now \in Nat /\ cache[k].answer \in {"none", "sent", "skipped"}
      /\ excuses \in [Keys -> Nat] /\ result \in [Calls -> Results] /\ x.until \in Nat
  BY <1>1 DEF IndInv, TypeOK
<1>3. CASE Cached(k)
  <2>1. Return(w, cache[k].answer) /\ UNCHANGED excuses
    BY <1>3 DEF Get
  <2>2. /\ result' \in [Calls -> Results] /\ worker' = [worker EXCEPT ![w].pc = "acking"]
        /\ \A c \in Calls : result'[c] = result[c] \/ (result'[c] = cache[k].answer /\ KeyOf[c] = k)
    BY <1>1, <1>2, <2>1, ReturnFacts DEF Results
  <2>3. \A c \in Calls : result'[c] = "sent" => result[c] = "sent" \/ sends[KeyOf[c]] > 0
    BY <1>1, <2>2 DEF IndInv, CacheSound
  <2>4. excuses' \in [Keys -> Nat]
    BY <1>2, <2>1
  <2> HIDE DEF k
  <2> QED BY <1>1, <1>2, <2>2, <2>3, <2>4, EndsQuietly
<1>4. CASE ~Cached(k)
  <2> DEFINE new == [x EXCEPT !.pc = "read"]
             n == IF Operating(k) = {} THEN excuses[k] ELSE excuses[k] + 1
  <2>1. worker' = [worker EXCEPT ![w] = new] /\ excuses' = [excuses EXCEPT ![k] = n] /\ UNCHANGED result
    BY <1>1, <1>2, <1>4 DEF Get
  <2>2. n \in Nat
    BY <1>1, <1>2
  <2>3. excuses' \in [Keys -> Nat]
    <3> HIDE DEF n
    <3> QED BY <1>2, <2>1, <2>2
  <2>4. x.until <= cache[k].until
    BY <1>1 DEF Sound, Key
  <2>5. x.until <= now
    BY <1>2, <1>4, <2>4 DEF Cached
  <2>6. new \in Run /\ new.pc = "read" /\ new.msg = x.msg /\ new.until = x.until
    BY <1>1, PcMoves
  <2> HIDE DEF x, new
  <2>7. Sound(new, cache, sends, now)
    BY <1>1, <2>5, <2>6 DEF Sound
  <2>8. /\ \A c \in Calls : result'[c] = "sent" => result[c] = "sent" \/ sends[KeyOf[c]] > 0
        /\ result' \in [Calls -> Results]
    BY <1>2, <2>1
  <2>9. UNCHANGED <<cache, sends, early, now>>
    BY <1>1
  <2> QED BY <1>2, <2>1, <2>3, <2>6, <2>7, <2>8, <2>9, QuietMove
<1> QED BY <1>3, <1>4

\* A subject that is gone makes the answer skipped, not sent.
LEMMA ReadSubjectStep == ASSUME IndInv, NEW w \in Workers, ReadSubject(w) PROVE IndInv'
<1> DEFINE x == worker[w]
<1>1. /\ x.pc = "read"
      /\ UNCHANGED <<queue, called, present, now, cache, result, sends, early, excuses, faults>>
      /\ x \in Run /\ x.msg \in Messages /\ worker \in [Workers -> Run] /\ Sound(x, cache, sends, now)
  BY BusyFacts DEF ReadSubject, world, history
<1>2. \E new \in Run : /\ worker' = [worker EXCEPT ![w] = new] /\ Sound(new, cache, sends, now)
  <2>1. CASE worker' = [worker EXCEPT ![w].pc = "send"]
    <3> DEFINE new == [x EXCEPT !.pc = "send"]
    <3>1. worker' = [worker EXCEPT ![w] = new]
      BY <1>1, <2>1
    <3>2. new \in Run /\ new.pc = "send" /\ new.msg = x.msg /\ new.until = x.until
      BY <1>1, PcMoves
    <3> HIDE DEF new, x
    <3>3. Sound(new, cache, sends, now)
      BY <1>1, <3>2 DEF Sound
    <3> QED BY <3>1, <3>2, <3>3
  <2>2. CASE worker' = [worker EXCEPT ![w].pc = "store", ![w].answer = "skipped"]
    <3> DEFINE new == [x EXCEPT !.pc = "store", !.answer = "skipped"]
    <3>1. worker' = [worker EXCEPT ![w] = new]
      BY <1>1, <2>2
    <3>2. new \in Run /\ new.pc = "store" /\ new.msg = x.msg /\ new.answer = "skipped"
      BY <1>1, AnswerMoves
    <3> HIDE DEF new, x
    <3>3. Sound(new, cache, sends, now)
      BY <1>1, <3>2 DEF Sound
    <3> QED BY <3>1, <3>2, <3>3
  <2> QED BY <2>1, <2>2 DEF ReadSubject
<1>3. PICK new \in Run : worker' = [worker EXCEPT ![w] = new] /\ Sound(new, cache, sends, now)
  BY <1>2
<1>4. /\ queue' \subseteq Messages /\ called' \subseteq Calls /\ present' \subseteq Keys
      /\ result' \in [Calls -> Results] /\ excuses' \in [Keys -> Nat] /\ faults' \in Nat
      /\ \A c \in Calls : result'[c] = "sent" => result[c] = "sent" \/ sends[KeyOf[c]] > 0
  BY <1>1 DEF IndInv, TypeOK
<1>5. UNCHANGED <<cache, sends, early, now>>
  BY <1>1
<1> QED BY <1>3, <1>4, <1>5, QuietMove

\* A step that raises before its effect changes only the message.
LEMMA StepRaisesStep == ASSUME IndInv, NEW w \in Workers, StepRaises(w) PROVE IndInv'
<1>1. /\ worker[w].pc # "idle" /\ Raise(w)
      /\ UNCHANGED <<called, present, now, cache, sends, early, excuses, faults>>
  BY DEF StepRaises, world, history
<1>2. /\ result' \in [Calls -> Results] /\ worker' = [worker EXCEPT ![w].pc = "acking"]
      /\ \A c \in Calls : result'[c] = result[c] \/ result'[c] = "failed"
      /\ queue' \subseteq Messages
  BY <1>1, RaiseFacts
<1>3. excuses' \in [Keys -> Nat] /\ faults' \in Nat
  BY <1>1 DEF IndInv, TypeOK
<1>4. \A c \in Calls : result'[c] = "sent" => result[c] = "sent" \/ sends[KeyOf[c]] > 0
  BY <1>2
<1> QED BY <1>1, <1>2, <1>3, <1>4, EndsQuietly

\* Faults are counted for the key of the run.
LEMMA FaultFacts ==
    ASSUME IndInv, NEW w \in Workers, worker[w].pc # "idle", Fault(w)
    PROVE  /\ excuses' \in [Keys -> Nat] /\ faults' \in Nat
           /\ \A k \in Keys : excuses'[k] = IF k = Key(w) THEN excuses[k] + 1 ELSE excuses[k]
<1>1. Key(w) \in Keys /\ excuses \in [Keys -> Nat] /\ faults \in Nat
  BY BusyFacts DEF IndInv, TypeOK
<1>2. excuses' = [excuses EXCEPT ![Key(w)] = excuses[Key(w)] + 1] /\ faults' = faults + 1
  BY DEF Fault
<1> QED BY <1>1, <1>2

\* A cache.set that raises leaves the cache as it is.
LEMMA StoreRaisesStep == ASSUME IndInv, NEW w \in Workers, StoreRaises(w) PROVE IndInv'
<1>1. /\ worker[w].pc # "idle" /\ Raise(w) /\ Fault(w)
      /\ UNCHANGED <<called, present, now, cache, sends, early>>
  BY DEF StoreRaises, world, history
<1>2. /\ result' \in [Calls -> Results] /\ worker' = [worker EXCEPT ![w].pc = "acking"]
      /\ \A c \in Calls : result'[c] = result[c] \/ result'[c] = "failed"
      /\ queue' \subseteq Messages
  BY <1>1, RaiseFacts
<1>3. excuses' \in [Keys -> Nat] /\ faults' \in Nat
  BY <1>1, FaultFacts
<1>4. \A c \in Calls : result'[c] = "sent" => result[c] = "sent" \/ sends[KeyOf[c]] > 0
  BY <1>2
<1> QED BY <1>1, <1>2, <1>3, <1>4, EndsQuietly

\* A lost worker's message goes back to the broker.
LEMMA WorkerLostStep == ASSUME IndInv, NEW w \in Workers, WorkerLost(w) PROVE IndInv'
<1>1. /\ worker[w].pc # "idle" /\ Fault(w) /\ queue' = queue \cup {worker[w].msg}
      /\ worker' = [worker EXCEPT ![w] = Waiting]
      /\ UNCHANGED <<called, present, now, cache, result, sends, early>>
  BY DEF WorkerLost, world, history
<1>2. /\ queue' \subseteq Messages /\ called' \subseteq Calls /\ present' \subseteq Keys
      /\ result' \in [Calls -> Results]
      /\ \A c \in Calls : result'[c] = "sent" => result[c] = "sent" \/ sends[KeyOf[c]] > 0
  BY <1>1, BusyFacts DEF IndInv, TypeOK
<1>3. excuses' \in [Keys -> Nat] /\ faults' \in Nat
  BY <1>1, FaultFacts
<1>4. UNCHANGED <<cache, sends, early, now>>
  BY <1>1
<1> QED BY <1>1, <1>2, <1>3, <1>4, WaitingFacts, QuietMove

\* The answer that is acknowledged is the cached one or that of the run.
LEMMA AckStep == ASSUME IndInv, NEW w \in Workers, Ack(w) PROVE IndInv'
<1>1. /\ worker' = [worker EXCEPT ![w] = Waiting]
      /\ UNCHANGED <<queue, called, present, now, cache, result, sends, early, excuses, faults>>
  BY DEF Ack, world, history
<1>2. /\ queue' \subseteq Messages /\ called' \subseteq Calls /\ present' \subseteq Keys
      /\ result' \in [Calls -> Results] /\ excuses' \in [Keys -> Nat] /\ faults' \in Nat
      /\ \A c \in Calls : result'[c] = "sent" => result[c] = "sent" \/ sends[KeyOf[c]] > 0
  BY <1>1 DEF IndInv, TypeOK
<1>3. UNCHANGED <<cache, sends, early, now>>
  BY <1>1
<1> QED BY <1>1, <1>2, <1>3, WaitingFacts, QuietMove

\* An e-mail goes out, and never before the entry that its run began under expired.
LEMMA DeliverFacts ==
    ASSUME IndInv, NEW w \in Workers, worker[w].pc = "send", Deliver(w), UNCHANGED <<cache, now>>
    PROVE  /\ sends' \in [Keys -> Nat] /\ sends'[Key(w)] > 0 /\ early' = FALSE
           /\ \A k \in Keys : sends'[k] = IF k = Key(w) THEN sends[k] + 1 ELSE sends[k]
           /\ Moves /\ Typed'
<1>1. /\ Key(w) \in Keys /\ worker[w].until <= now /\ worker[w].until \in Nat
      /\ sends \in [Keys -> Nat] /\ now \in Nat /\ early = FALSE
  BY BusyFacts DEF Sound, IndInv, TypeOK, CachedRunsAreQuiet
<1>2. /\ sends' = [sends EXCEPT ![Key(w)] = sends[Key(w)] + 1]
      /\ early' = (early \/ now < worker[w].until)
  BY DEF Deliver
<1>3. /\ sends' \in [Keys -> Nat]
      /\ \A k \in Keys : sends'[k] = IF k = Key(w) THEN sends[k] + 1 ELSE sends[k]
  BY <1>1, <1>2
<1>4. early' = FALSE
  <2> DEFINE soon == now < worker[w].until
  <2>1. soon = FALSE
    BY <1>1
  <2>2. early' = (early \/ soon)
    BY <1>2
  <2> HIDE DEF soon
  <2> QED BY <1>1, <2>1, <2>2
<1>5. Typed'
  BY <1>3 DEF Typed, IndInv, TypeOK, Entry
<1>6. Moves
  BY <1>1, <1>3 DEF Moves, IndInv, TypeOK
<1> QED BY <1>1, <1>3, <1>4, <1>5, <1>6

\* A run sends only after the entry it might have seen has expired.
LEMMA SendStep == ASSUME IndInv, NEW w \in Workers, Send(w) PROVE IndInv'
<1> DEFINE x == worker[w]
           new == [x EXCEPT !.pc = "store", !.answer = "sent"]
<1>1. /\ x.pc = "send" /\ UNCHANGED <<queue, called, present, now, cache, result, excuses, faults>>
      /\ x \in Run /\ x.msg \in Messages /\ worker \in [Workers -> Run]
      /\ sends' \in [Keys -> Nat] /\ sends'[Key(w)] > 0 /\ early' = FALSE
      /\ \A k \in Keys : sends'[k] = IF k = Key(w) THEN sends[k] + 1 ELSE sends[k]
      /\ Moves /\ Typed'
  BY BusyFacts, DeliverFacts DEF Send, world
<1>2. worker' = [worker EXCEPT ![w] = new] /\ Key(w) = KeyOf[x.msg.call]
  BY <1>1 DEF Send, Key
<1> HIDE DEF x
<1>3. new \in Run /\ new.pc = "store" /\ new.msg = x.msg
  BY <1>1, AnswerMoves
<1> HIDE DEF new
<1>4. Sound(new, cache', sends', now')
  BY <1>1, <1>2, <1>3 DEF Sound
<1>5. worker' \in [Workers -> Run] /\ RunsSound'
  BY <1>1, <1>2, <1>3, <1>4, WorkerMoves
<1>6. TypeOK'
  BY <1>1, <1>5 DEF IndInv, TypeOK, Run
<1>7. \A k \in Keys : sends[k] > 0 => sends'[k] > 0
  BY <1>1 DEF IndInv, TypeOK
<1>8. CacheSound' /\ SentIsTrue' /\ CachedRunsAreQuiet'
  BY <1>1, <1>7, IdempotentAssumption DEF IndInv, CacheSound, SentIsTrue, CachedRunsAreQuiet
<1> QED BY <1>5, <1>6, <1>8 DEF IndInv

\* So does one whose mail server breaks off after taking the message.
LEMMA SendRaisesLateStep == ASSUME IndInv, NEW w \in Workers, SendRaisesLate(w) PROVE Moves /\ IndInv'
<1>1. /\ worker[w].pc = "send" /\ UNCHANGED <<called, present, now, cache>> /\ Fault(w) /\ Raise(w)
      /\ sends' \in [Keys -> Nat] /\ early' = FALSE
      /\ \A k \in Keys : sends'[k] = IF k = Key(w) THEN sends[k] + 1 ELSE sends[k]
      /\ Moves /\ Typed'
  BY DeliverFacts DEF SendRaisesLate, world
<1>2. /\ result' \in [Calls -> Results] /\ worker' = [worker EXCEPT ![w].pc = "acking"]
      /\ \A c \in Calls : result'[c] = result[c] \/ result'[c] = "failed"
      /\ queue' \subseteq Messages
  BY <1>1, RaiseFacts
<1>3. excuses' \in [Keys -> Nat] /\ faults' \in Nat
  BY <1>1, FaultFacts
<1>4. PICK new \in Run :
         /\ worker' = [worker EXCEPT ![w] = new]
         /\ \A entries, sent, hour : Sound(new, entries, sent, hour)
  BY <1>1, <1>2, AckingFacts
<1>5. worker' \in [Workers -> Run] /\ RunsSound'
  BY <1>1, <1>4, WorkerMoves
<1>6. TypeOK'
  BY <1>1, <1>2, <1>3, <1>5 DEF IndInv, TypeOK, Run
<1>7. \A k \in Keys : sends[k] > 0 => sends'[k] > 0
  BY <1>1 DEF IndInv, TypeOK
<1>8. CacheSound' /\ SentIsTrue' /\ CachedRunsAreQuiet'
  BY <1>1, <1>2, <1>7, IdempotentAssumption DEF IndInv, CacheSound, SentIsTrue, CachedRunsAreQuiet
<1> QED BY <1>1, <1>5, <1>6, <1>8 DEF IndInv

\* What is cached is the answer of a run that sent or found nothing to send to.
LEMMA StoreStep == ASSUME IndInv, NEW w \in Workers, Store(w) PROVE IndInv'
<1> DEFINE k == Key(w)
           x == worker[w]
           entry == [answer |-> x.answer, until |-> now + Ttl]
<1>1. /\ x.pc = "store" /\ UNCHANGED <<queue, called, present, now, sends, early, excuses, faults>>
      /\ x \in Run /\ x.msg \in Messages /\ k \in Keys /\ Sound(x, cache, sends, now)
      /\ cache' = [cache EXCEPT ![k] = entry] /\ Return(w, x.answer) /\ x.answer \in Results
  BY BusyFacts DEF Store, world, history, Run, Results
<1>2. now \in Nat /\ Ttl \in Nat /\ now + Ttl \in Nat /\ x.answer \in {"none", "sent", "skipped"}
  BY <1>1, IdempotentAssumption DEF IndInv, TypeOK, Run
<1>3. entry \in Entry /\ entry.answer = x.answer /\ entry.until = now + Ttl
  BY <1>2 DEF Entry
<1>4. x.answer = "sent" => sends[k] > 0
  BY <1>1 DEF Sound, Key
<1>5. /\ result' \in [Calls -> Results] /\ worker' = [worker EXCEPT ![w].pc = "acking"]
      /\ \A c \in Calls : result'[c] = result[c] \/ (result'[c] = x.answer /\ KeyOf[c] = k)
  BY <1>1, ReturnFacts
<1>6. PICK new \in Run :
         /\ worker' = [worker EXCEPT ![w] = new]
         /\ \A entries, sent, hour : Sound(new, entries, sent, hour)
  BY <1>1, <1>5, AckingFacts
<1> HIDE DEF entry, x, k
<1>7. cache' \in [Keys -> Entry] /\ \A j \in Keys : cache'[j] = IF j = k THEN entry ELSE cache[j]
  BY <1>1, <1>3 DEF IndInv, TypeOK, Entry
<1>8. Typed'
  BY <1>1, <1>7 DEF Typed, IndInv, TypeOK
<1>9. CacheSound'
  BY <1>1, <1>2, <1>3, <1>4, <1>7 DEF IndInv, CacheSound
<1>10. Moves
  BY <1>1, <1>2, <1>3, <1>7 DEF Moves, IndInv, TypeOK, CacheSound
<1>11. worker' \in [Workers -> Run] /\ RunsSound'
  BY <1>6, <1>8, <1>10, WorkerMoves
<1>12. TypeOK'
  BY <1>1, <1>5, <1>7, <1>11 DEF IndInv, TypeOK, Run, Entry
<1>13. SentIsTrue' /\ CachedRunsAreQuiet'
  BY <1>1, <1>4, <1>5 DEF IndInv, SentIsTrue, CachedRunsAreQuiet
<1> QED BY <1>9, <1>11, <1>12, <1>13 DEF IndInv

\* A subject that is deleted touches no run.
LEMMA DeleteStep == ASSUME IndInv, NEW k \in Keys, Delete(k) PROVE IndInv'
<1>1. /\ UNCHANGED <<queue, called, worker, cache, result, sends, early, excuses, now, faults>>
      /\ present' = present \ {k}
  BY DEF Delete, history
<1> QED BY <1>1 DEF IndInv, TypeOK, RunsSound, CacheSound, CachedRunsAreQuiet, SentIsTrue

\* Time lets entries expire and nothing else.
LEMMA TickStep == ASSUME IndInv, Tick PROVE IndInv'
<1>1. /\ UNCHANGED <<queue, called, worker, cache, present, result, sends, early, faults>>
      /\ now' = now + 1 /\ now \in Nat /\ excuses \in [Keys -> Nat]
      /\ excuses' = [k \in Keys |-> IF cache[k].until = now' THEN excuses[k] + 1 ELSE excuses[k]]
  BY DEF Tick, history, IndInv, TypeOK
<1>2. excuses' \in [Keys -> Nat] /\ now' \in Nat
  BY <1>1
<1>3. Typed /\ Typed'
  BY <1>1, <1>2 DEF Typed, IndInv, TypeOK, Entry
<1>4. Moves
  BY <1>1 DEF Moves, IndInv, TypeOK
<1>5. RunsSound'
  <2>1. ASSUME NEW w \in Workers PROVE Sound(worker'[w], cache', sends', now')
    <3>1. worker'[w] = worker[w] /\ worker[w] \in Run /\ Sound(worker[w], cache, sends, now)
      BY <1>1 DEF IndInv, TypeOK, Run, RunsSound
    <3> QED BY <1>3, <1>4, <3>1, SoundKept
  <2> QED BY <2>1 DEF RunsSound
<1>6. TypeOK'
  BY <1>1, <1>2 DEF IndInv, TypeOK
<1>7. \A k \in Keys : cache[k].until \in Nat
  BY DEF IndInv, TypeOK
<1>8. CacheSound'
  BY <1>1, <1>7, IdempotentAssumption DEF IndInv, CacheSound
<1> QED BY <1>1, <1>5, <1>6, <1>8 DEF IndInv, CachedRunsAreQuiet, SentIsTrue

\* Every step keeps the invariant.
LEMMA IndInvStep == IndInv /\ [Next]_vars => IndInv'
<1> SUFFICES ASSUME IndInv, [Next]_vars PROVE IndInv'
  OBVIOUS
<1>1. CASE UNCHANGED vars
  BY <1>1 DEF vars, IndInv, TypeOK, RunsSound, CacheSound, CachedRunsAreQuiet, SentIsTrue
<1>2. ASSUME NEW w \in Workers, Work(w) \/ WorkerLost(w) PROVE IndInv'
  BY <1>2, FetchStep, GetStep, ReadSubjectStep, SendStep, StoreStep, StepRaisesStep, SendRaisesLateStep,
     StoreRaisesStep, AckStep, WorkerLostStep DEF Work
<1> QED BY <1>1, <1>2, CallStep, DeleteStep, TickStep DEF Next

\* The types of the variables hold in every reachable state, for any keys, calls,
\* workers and faults.
THEOREM TypeCorrect == Spec => []TypeOK
<1>1. IndInv => TypeOK
  BY DEF IndInv
<1> QED BY <1>1, InitEstablishes, IndInvStep, PTL DEF Spec

\* A run that begins when IdempotencyService has a result for its key sends nothing
\* before that entry expires, whatever other runs, losses and retries come between.
THEOREM CachedIsQuiet == Spec => []CachedRunsAreQuiet
<1>1. IndInv => CachedRunsAreQuiet
  BY DEF IndInv
<1> QED BY <1>1, InitEstablishes, IndInvStep, PTL DEF Spec

\* A task whose result is "sent", from its own run or from the cache, had its e-mail sent.
THEOREM SentWasSent == Spec => []SentIsTrue
<1>1. IndInv => SentIsTrue
  BY DEF IndInv
<1> QED BY <1>1, InitEstablishes, IndInvStep, PTL DEF Spec

-----------------------------------------------------------------------------
(* What may still be sent for a key is counted together with what was. *)

\* Runs that have missed the cache and may still send.
MaySend(k) == {w \in Workers : worker[w].pc \in {"read", "send"} /\ Key(w) = k}

\* Each run that may send has its cause, and between runs the next one has its too.
Budget(k) ==
    /\ IsFiniteSet(MaySend(k))
    /\ sends[k] + Cardinality(MaySend(k)) <= 1 + excuses[k]
    /\ Operating(k) = {} /\ ~Cached(k) => sends[k] <= excuses[k]

BudgetInv == IndInv /\ \A k \in Keys : Budget(k)

\* Who may still send is under way.
LEMMA MaySendOperates == \A k : MaySend(k) \subseteq Operating(k)
  BY DEF MaySend, Operating

\* Taking a member out of a finite set takes one from its size.
LEMMA CountRemoved ==
    ASSUME NEW S, IsFiniteSet(S), NEW e
    PROVE  /\ IsFiniteSet(S \ {e}) /\ Cardinality(S) \in Nat /\ Cardinality(S \ {e}) \in Nat
           /\ Cardinality(S \ {e}) <= Cardinality(S)
           /\ e \in S => Cardinality(S \ {e}) + 1 = Cardinality(S)
<1>1. /\ IsFiniteSet(S \ {e})
      /\ Cardinality(S \ {e}) = IF e \in S THEN Cardinality(S) - 1 ELSE Cardinality(S)
  BY FS_RemoveElement
<1>2. Cardinality(S) \in Nat /\ Cardinality(S \ {e}) \in Nat
  BY <1>1, FS_CardinalityType
<1> QED BY <1>1, <1>2

\* How the runs of the keys change when one worker moves.
LEMMA RunsMove ==
    ASSUME IndInv, NEW w \in Workers, NEW new \in Run, worker' = [worker EXCEPT ![w] = new], NEW k \in Keys
    PROVE  /\ MaySend(k)' = (MaySend(k) \ {w}) \cup
                 (IF new.pc \in {"read", "send"} /\ KeyOf[new.msg.call] = k THEN {w} ELSE {})
           /\ Operating(k)' = (Operating(k) \ {w}) \cup
                 (IF new.pc \in {"read", "send", "store"} /\ KeyOf[new.msg.call] = k THEN {w} ELSE {})
<1>1. \A v \in Workers : worker'[v] = IF v = w THEN new ELSE worker[v]
  BY DEF IndInv, TypeOK
<1> QED BY <1>1 DEF MaySend, Operating, Key

\* One e-mail per key is free of causes.
LEMMA BudgetInit == Init => BudgetInv
<1> SUFFICES ASSUME Init PROVE BudgetInv
  OBVIOUS
<1>1. ASSUME NEW k \in Keys PROVE Budget(k)
  <2>1. MaySend(k) = {}
    BY WaitingFacts DEF Init, MaySend
  <2>2. sends[k] = 0 /\ excuses[k] = 0
    BY DEF Init
  <2> QED BY <2>1, <2>2, FS_EmptySet DEF Budget
<1> QED BY <1>1, InitEstablishes DEF BudgetInv

\* The numbers that the budget of a key is about.
LEMMA BudgetTypes ==
    ASSUME BudgetInv, NEW k \in Keys
    PROVE  sends[k] \in Nat /\ excuses[k] \in Nat /\ Cardinality(MaySend(k)) \in Nat
  BY FS_CardinalityType DEF BudgetInv, Budget, IndInv, TypeOK

\* A step that starts no run of the key and sends nothing for it.
LEMMA BudgetRests ==
    ASSUME BudgetInv, NEW k \in Keys, sends'[k] = sends[k], excuses'[k] \in Nat, excuses'[k] >= excuses[k],
           MaySend(k)' = MaySend(k) \/ \E e : MaySend(k)' = MaySend(k) \ {e},
           \/ (Operating(k) = {} /\ ~Cached(k))' => Operating(k) = {} /\ ~Cached(k)
           \/ excuses'[k] > excuses[k]
           \/ \E e \in MaySend(k) : MaySend(k)' = MaySend(k) \ {e}
    PROVE  Budget(k)'
<1>1. /\ sends[k] \in Nat /\ excuses[k] \in Nat /\ Cardinality(MaySend(k)) \in Nat
      /\ IsFiniteSet(MaySend(k)) /\ sends[k] + Cardinality(MaySend(k)) <= 1 + excuses[k]
      /\ Operating(k) = {} /\ ~Cached(k) => sends[k] <= excuses[k]
  BY BudgetTypes DEF BudgetInv, Budget
<1> DEFINE S == MaySend(k)
           T == MaySend(k)'
<1>2. IsFiniteSet(T) /\ Cardinality(T) \in Nat /\ Cardinality(T) <= Cardinality(S)
  BY <1>1, CountRemoved
<1>3. (\E e \in S : T = S \ {e}) => sends[k] <= excuses[k]
  <2> SUFFICES ASSUME NEW e \in S PROVE sends[k] <= excuses[k]
    OBVIOUS
  <2>1. Cardinality(S) >= 1
    <3>1. Cardinality(S \ {e}) \in Nat /\ Cardinality(S \ {e}) + 1 = Cardinality(S)
      BY <1>1, CountRemoved
    <3> QED BY <1>1, <3>1
  <2> HIDE DEF S
  <2> QED BY <1>1, <2>1 DEF S
<1>4. sends'[k] + Cardinality(T) <= 1 + excuses'[k]
  <2> HIDE DEF T
  <2> QED BY <1>1, <1>2
<1>5. (Operating(k) = {} /\ ~Cached(k))' => sends'[k] <= excuses'[k]
  BY <1>1, <1>3
<1> QED BY <1>2, <1>4, <1>5 DEF Budget

\* A worker that is not under way with a key ends or begins to look, or a run ends
\* that could not send for the key any more.
LEMMA BudgetOther ==
    ASSUME BudgetInv, NEW w \in Workers, NEW new \in Run, worker' = [worker EXCEPT ![w] = new],
           NEW k \in Keys, sends'[k] = sends[k], excuses'[k] = excuses[k], cache'[k] = cache[k], now' = now,
           w \notin Operating(k),
           new.pc \in {"read", "send", "store"} => KeyOf[new.msg.call] # k
    PROVE  Budget(k)'
<1>1. /\ MaySend(k)' = (MaySend(k) \ {w}) \cup
             (IF new.pc \in {"read", "send"} /\ KeyOf[new.msg.call] = k THEN {w} ELSE {})
      /\ Operating(k)' = (Operating(k) \ {w}) \cup
             (IF new.pc \in {"read", "send", "store"} /\ KeyOf[new.msg.call] = k THEN {w} ELSE {})
  BY RunsMove DEF BudgetInv
<1>2. MaySend(k)' = MaySend(k) /\ Operating(k)' = Operating(k)
  BY <1>1, MaySendOperates
<1>3. Cached(k)' = Cached(k)
  BY DEF Cached
<1>4. excuses'[k] \in Nat /\ excuses'[k] >= excuses[k]
  BY BudgetTypes
<1> QED BY <1>2, <1>3, <1>4, BudgetRests

\* The run of w ends: its key's runs are the others.
LEMMA RunEnds ==
    ASSUME BudgetInv, NEW w \in Workers, worker[w].pc # "idle", worker' = [worker EXCEPT ![w].pc = "acking"],
           NEW k \in Keys
    PROVE  MaySend(k)' = MaySend(k) \ {w} /\ Operating(k)' = Operating(k) \ {w}
<1>1. worker \in [Workers -> Run]
  BY DEF BudgetInv, IndInv, TypeOK, Run
<1>2. \A v \in Workers \ {w} : worker'[v] = worker[v]
  BY <1>1
<1>3. worker'[w].pc = "acking"
  BY <1>1 DEF Run
<1> QED BY <1>2, <1>3 DEF MaySend, Operating, Key

\* Which runs the worker itself is among.
LEMMA OwnRun ==
    ASSUME NEW w \in Workers, NEW k
    PROVE  /\ w \in MaySend(k) <=> worker[w].pc \in {"read", "send"} /\ Key(w) = k
           /\ w \in Operating(k) <=> worker[w].pc \in {"read", "send", "store"} /\ Key(w) = k
  BY DEF MaySend, Operating

\* A run that misses the cache has a cause for what it may send, but for the first.
LEMMA BudgetGet == ASSUME BudgetInv, NEW w \in Workers, Get(w), NEW k \in Keys PROVE Budget(k)'
<1> DEFINE x == worker[w]
           new == [x EXCEPT !.pc = "read"]
<1>1. /\ x.pc = "get" /\ UNCHANGED <<cache, sends, now>> /\ x \in Run /\ worker \in [Workers -> Run]
      /\ Key(w) \in Keys /\ IndInv /\ w \notin Operating(k)
  BY BusyFacts, OwnRun DEF Get, world, history, BudgetInv
<1>2. CASE Cached(Key(w))
  <2>1. worker' = [worker EXCEPT ![w].pc = "acking"] /\ UNCHANGED excuses
    BY <1>2 DEF Get, Return
  <2>2. PICK ended \in Run : worker' = [worker EXCEPT ![w] = ended] /\ ended.pc = "acking"
    BY <1>1, <2>1, AckingFacts
  <2> QED BY <1>1, <2>1, <2>2, BudgetOther
<1>3. CASE ~Cached(Key(w))
  <2>1. /\ worker' = [worker EXCEPT ![w] = new]
        /\ excuses' = [excuses EXCEPT ![Key(w)] = IF Operating(Key(w)) = {} THEN @ ELSE @ + 1]
    BY <1>1, <1>3 DEF Get
  <2>2. new \in Run /\ new.pc = "read" /\ new.msg = x.msg
    BY <1>1, PcMoves
  <2>3. KeyOf[new.msg.call] = Key(w)
    BY <2>2 DEF Key
  <2> HIDE DEF x, new
  <2>4. CASE k # Key(w)
    <3>1. excuses'[k] = excuses[k]
      BY <2>1, <2>4 DEF BudgetInv, IndInv, TypeOK
    <3> QED BY <1>1, <2>1, <2>2, <2>3, <2>4, <3>1, BudgetOther
  <2>5. CASE k = Key(w)
    <3>1. /\ sends[k] \in Nat /\ excuses[k] \in Nat /\ Cardinality(MaySend(k)) \in Nat
          /\ IsFiniteSet(MaySend(k)) /\ sends[k] + Cardinality(MaySend(k)) <= 1 + excuses[k]
          /\ Operating(k) = {} => sends[k] <= excuses[k]
      BY <1>3, <2>5, BudgetTypes DEF BudgetInv, Budget
    <3>2. excuses'[k] = IF Operating(k) = {} THEN excuses[k] ELSE excuses[k] + 1
      BY <2>1, <2>5 DEF BudgetInv, IndInv, TypeOK
    <3>3. /\ MaySend(k)' = (MaySend(k) \ {w}) \cup
                 (IF new.pc \in {"read", "send"} /\ KeyOf[new.msg.call] = k THEN {w} ELSE {})
          /\ Operating(k)' = (Operating(k) \ {w}) \cup
                 (IF new.pc \in {"read", "send", "store"} /\ KeyOf[new.msg.call] = k THEN {w} ELSE {})
      BY <1>1, <2>1, <2>2, RunsMove
    <3>4. w \notin MaySend(k) /\ MaySend(k)' = MaySend(k) \cup {w} /\ Operating(k)' # {}
      BY <1>1, <2>2, <2>3, <2>5, <3>3, MaySendOperates
    <3>5. IsFiniteSet(MaySend(k)') /\ Cardinality(MaySend(k)') = Cardinality(MaySend(k)) + 1
      BY <3>1, <3>4, FS_AddElement
    <3>6. Operating(k) = {} => Cardinality(MaySend(k)) = 0
      BY FS_EmptySet, MaySendOperates
    <3>7. sends'[k] + Cardinality(MaySend(k)') <= 1 + excuses'[k]
      <4>1. sends'[k] = sends[k]
        BY <1>1
      <4> QED BY <3>1, <3>2, <3>5, <3>6, <4>1
    <3> QED BY <3>4, <3>5, <3>7 DEF Budget
  <2> QED BY <2>4, <2>5
<1> QED BY <1>2, <1>3

\* A run without a subject gives up what it might have sent.
LEMMA BudgetReadSubject ==
    ASSUME BudgetInv, NEW w \in Workers, ReadSubject(w), NEW k \in Keys PROVE Budget(k)'
<1> DEFINE x == worker[w]
<1>1. /\ x.pc = "read" /\ UNCHANGED <<cache, sends, now, excuses>> /\ x \in Run /\ worker \in [Workers -> Run]
      /\ Key(w) \in Keys /\ IndInv
  BY BusyFacts DEF ReadSubject, world, history, BudgetInv
<1>2. \E new \in Run : /\ worker' = [worker EXCEPT ![w] = new] /\ new.pc \in {"send", "store"}
                       /\ KeyOf[new.msg.call] = Key(w)
  <2>1. CASE worker' = [worker EXCEPT ![w].pc = "send"]
    <3> DEFINE new == [x EXCEPT !.pc = "send"]
    <3>1. worker' = [worker EXCEPT ![w] = new]
      BY <1>1, <2>1
    <3>2. new \in Run /\ new.pc = "send" /\ new.msg = x.msg
      BY <1>1, PcMoves
    <3> HIDE DEF new
    <3> QED BY <3>1, <3>2 DEF Key
  <2>2. CASE worker' = [worker EXCEPT ![w].pc = "store", ![w].answer = "skipped"]
    <3> DEFINE new == [x EXCEPT !.pc = "store", !.answer = "skipped"]
    <3>1. worker' = [worker EXCEPT ![w] = new]
      BY <1>1, <2>2
    <3>2. new \in Run /\ new.pc = "store" /\ new.msg = x.msg
      BY <1>1, AnswerMoves
    <3> HIDE DEF new
    <3> QED BY <3>1, <3>2 DEF Key
  <2> QED BY <2>1, <2>2 DEF ReadSubject
<1>3. PICK new \in Run : /\ worker' = [worker EXCEPT ![w] = new] /\ new.pc \in {"send", "store"}
                         /\ KeyOf[new.msg.call] = Key(w)
  BY <1>2
<1>4. /\ MaySend(k)' = (MaySend(k) \ {w}) \cup
             (IF new.pc \in {"read", "send"} /\ KeyOf[new.msg.call] = k THEN {w} ELSE {})
      /\ Operating(k)' = (Operating(k) \ {w}) \cup
             (IF new.pc \in {"read", "send", "store"} /\ KeyOf[new.msg.call] = k THEN {w} ELSE {})
  <2>1. \A v \in Workers : worker'[v] = IF v = w THEN new ELSE worker[v]
    BY <1>1, <1>3
  <2> QED BY <2>1 DEF MaySend, Operating, Key
<1>5. /\ w \in MaySend(k) <=> Key(w) = k
      /\ w \in Operating(k) <=> Key(w) = k
  BY <1>1, OwnRun
<1>6. Operating(k)' = Operating(k) /\ (MaySend(k)' = MaySend(k) \/ MaySend(k)' = MaySend(k) \ {w})
  BY <1>3, <1>4, <1>5
<1>7. Cached(k)' = Cached(k)
  BY <1>1 DEF Cached
<1>8. excuses'[k] \in Nat /\ excuses'[k] >= excuses[k] /\ sends'[k] = sends[k]
  BY <1>1, BudgetTypes
<1> QED BY <1>6, <1>7, <1>8, BudgetRests

\* An e-mail that goes out is taken from what may still be sent.
LEMMA BudgetSent ==
    ASSUME BudgetInv, NEW w \in Workers, worker[w].pc = "send", NEW k \in Keys, k = Key(w),
           sends'[k] = sends[k] + 1, MaySend(k)' = MaySend(k) \ {w}
    PROVE  /\ IsFiniteSet(MaySend(k)')
           /\ sends'[k] + Cardinality(MaySend(k)') <= 1 + excuses[k]
           /\ sends'[k] <= excuses[k] + 1
<1>1. /\ sends[k] \in Nat /\ excuses[k] \in Nat /\ Cardinality(MaySend(k)) \in Nat
      /\ IsFiniteSet(MaySend(k)) /\ sends[k] + Cardinality(MaySend(k)) <= 1 + excuses[k]
  BY BudgetTypes DEF BudgetInv, Budget
<1>2. w \in MaySend(k)
  BY OwnRun
<1>3. /\ IsFiniteSet(MaySend(k)') /\ Cardinality(MaySend(k)') \in Nat
      /\ Cardinality(MaySend(k)') + 1 = Cardinality(MaySend(k))
  BY <1>1, <1>2, CountRemoved
<1> QED BY <1>1, <1>3

\* A run that sends moves from those that may to those that did.
LEMMA BudgetSend == ASSUME BudgetInv, NEW w \in Workers, Send(w), NEW k \in Keys PROVE Budget(k)'
<1> DEFINE x == worker[w]
           new == [x EXCEPT !.pc = "store", !.answer = "sent"]
<1>1. /\ x.pc = "send" /\ UNCHANGED <<cache, now, excuses>> /\ x \in Run /\ worker \in [Workers -> Run]
      /\ Key(w) \in Keys /\ IndInv
      /\ \A j \in Keys : sends'[j] = IF j = Key(w) THEN sends[j] + 1 ELSE sends[j]
  BY BusyFacts, DeliverFacts DEF Send, world, BudgetInv
<1>2. worker' = [worker EXCEPT ![w] = new]
  BY <1>1 DEF Send
<1>3. new \in Run /\ new.pc = "store" /\ KeyOf[new.msg.call] = Key(w)
  BY <1>1, AnswerMoves DEF Key
<1> HIDE DEF x, new
<1>4. \A v \in Workers : worker'[v] = IF v = w THEN new ELSE worker[v]
  BY <1>1, <1>2
<1>5. MaySend(k)' = MaySend(k) \ {w} /\ Operating(k)' = Operating(k)
  BY <1>1, <1>3, <1>4 DEF MaySend, Operating, Key, x
<1>6. CASE k # Key(w)
  <2>1. Cached(k)' = Cached(k)
    BY <1>1 DEF Cached
  <2>2. excuses'[k] \in Nat /\ excuses'[k] >= excuses[k] /\ sends'[k] = sends[k]
    BY <1>1, <1>6, BudgetTypes
  <2> QED BY <1>5, <2>1, <2>2, BudgetRests
<1>7. CASE k = Key(w)
  <2>1. /\ IsFiniteSet(MaySend(k)')
        /\ sends'[k] + Cardinality(MaySend(k)') <= 1 + excuses[k]
    BY <1>1, <1>5, <1>7, BudgetSent DEF x
  <2>2. Operating(k)' # {}
    BY <1>1, <1>5, <1>7, OwnRun DEF x
  <2> QED BY <1>1, <2>1, <2>2 DEF Budget
<1> QED BY <1>6, <1>7

\* It does so too when the mail server breaks off after taking the message.
LEMMA BudgetSendRaisesLate ==
    ASSUME BudgetInv, NEW w \in Workers, SendRaisesLate(w), NEW k \in Keys PROVE Budget(k)'
<1>1. /\ worker[w].pc = "send" /\ UNCHANGED <<cache, now>> /\ Fault(w) /\ Raise(w) /\ IndInv /\ Key(w) \in Keys
      /\ \A j \in Keys : sends'[j] = IF j = Key(w) THEN sends[j] + 1 ELSE sends[j]
  BY BusyFacts, DeliverFacts DEF SendRaisesLate, world, BudgetInv
<1>2. worker' = [worker EXCEPT ![w].pc = "acking"]
  BY <1>1, RaiseFacts
<1>3. MaySend(k)' = MaySend(k) \ {w} /\ Operating(k)' = Operating(k) \ {w}
  BY <1>1, <1>2, RunEnds
<1>4. excuses'[k] = IF k = Key(w) THEN excuses[k] + 1 ELSE excuses[k]
  BY <1>1, FaultFacts
<1>5. CASE k # Key(w)
  <2>1. Cached(k)' = Cached(k) /\ Operating(k)' = Operating(k)
    BY <1>1, <1>3, <1>5, OwnRun DEF Cached
  <2>2. excuses'[k] \in Nat /\ excuses'[k] >= excuses[k] /\ sends'[k] = sends[k]
    BY <1>1, <1>4, <1>5, BudgetTypes
  <2> QED BY <1>3, <2>1, <2>2, BudgetRests
<1>6. CASE k = Key(w)
  <2>1. /\ IsFiniteSet(MaySend(k)')
        /\ sends'[k] + Cardinality(MaySend(k)') <= 1 + excuses[k]
        /\ sends'[k] <= excuses[k] + 1
    BY <1>1, <1>3, <1>6, BudgetSent
  <2>2. excuses'[k] = excuses[k] + 1 /\ excuses[k] \in Nat /\ sends'[k] \in Nat
    BY <1>1, <1>4, <1>6, BudgetTypes
  <2>3. Cardinality(MaySend(k)') \in Nat
    BY <2>1, FS_CardinalityType
  <2> QED BY <2>1, <2>2, <2>3 DEF Budget
<1> QED BY <1>5, <1>6

\* Once the result is stored the next run needs an expiry.
LEMMA BudgetStore == ASSUME BudgetInv, NEW w \in Workers, Store(w), NEW k \in Keys PROVE Budget(k)'
<1>1. /\ worker[w].pc = "store" /\ UNCHANGED <<sends, now, excuses>> /\ IndInv /\ Key(w) \in Keys
      /\ worker' = [worker EXCEPT ![w].pc = "acking"] /\ now \in Nat
      /\ cache' = [cache EXCEPT ![Key(w)] = [answer |-> worker[w].answer, until |-> now + Ttl]]
  BY BusyFacts DEF Store, Return, world, history, BudgetInv, IndInv, TypeOK
<1>2. MaySend(k)' = MaySend(k) \ {w} /\ Operating(k)' = Operating(k) \ {w}
  BY <1>1, RunEnds
<1>3. excuses'[k] \in Nat /\ excuses'[k] >= excuses[k] /\ sends'[k] = sends[k]
  BY <1>1, BudgetTypes
<1>4. CASE k # Key(w)
  <2>1. cache'[k] = cache[k]
    BY <1>1, <1>4 DEF IndInv, TypeOK
  <2>2. Cached(k)' = Cached(k) /\ Operating(k)' = Operating(k)
    BY <1>1, <1>2, <1>4, <2>1, OwnRun DEF Cached
  <2> QED BY <1>2, <1>3, <2>2, BudgetRests
<1>5. CASE k = Key(w)
  <2>1. cache'[k].until = now + Ttl
    BY <1>1, <1>5 DEF IndInv, TypeOK
  <2>2. Cached(k)'
    BY <1>1, <2>1, IdempotentAssumption DEF Cached
  <2> QED BY <1>2, <1>3, <2>2, BudgetRests
<1> QED BY <1>4, <1>5

\* A run that raises without an effect has not sent.
LEMMA BudgetStepRaises ==
    ASSUME BudgetInv, NEW w \in Workers, StepRaises(w), NEW k \in Keys PROVE Budget(k)'
<1>1. /\ worker[w].pc \in {"get", "read", "send"} /\ UNCHANGED <<sends, now, excuses, cache>> /\ IndInv
      /\ Raise(w)
  BY DEF StepRaises, world, history, BudgetInv
<1>2. MaySend(k)' = MaySend(k) \ {w} /\ Operating(k)' = Operating(k) \ {w}
  BY <1>1, RaiseFacts, RunEnds
<1>3. excuses'[k] \in Nat /\ excuses'[k] >= excuses[k] /\ sends'[k] = sends[k]
  BY <1>1, BudgetTypes
<1>4. Cached(k)' = Cached(k)
  BY <1>1 DEF Cached
<1>5. w \in MaySend(k) \/ Operating(k)' = Operating(k)
  BY <1>1, <1>2, OwnRun
<1> QED BY <1>2, <1>3, <1>4, <1>5, BudgetRests

\* A fault ends a run, and is a cause of its own.
LEMMA BudgetFault ==
    ASSUME BudgetInv, NEW w \in Workers, StoreRaises(w) \/ WorkerLost(w), NEW k \in Keys PROVE Budget(k)'
<1>1. /\ worker[w].pc # "idle" /\ UNCHANGED <<sends, now, cache>> /\ IndInv /\ Fault(w)
  BY DEF StoreRaises, WorkerLost, world, history, BudgetInv
<1>2. MaySend(k)' = MaySend(k) \ {w} /\ Operating(k)' = Operating(k) \ {w}
  <2>1. CASE StoreRaises(w)
    <3>1. Raise(w)
      BY <2>1 DEF StoreRaises
    <3> QED BY <1>1, <3>1, RaiseFacts, RunEnds
  <2>2. CASE WorkerLost(w)
    <3>1. worker' = [worker EXCEPT ![w] = Waiting]
      BY <2>2 DEF WorkerLost
    <3>2. \A v \in Workers : worker'[v] = IF v = w THEN Waiting ELSE worker[v]
      BY <1>1, <3>1 DEF IndInv, TypeOK
    <3> QED BY <3>2, WaitingFacts DEF MaySend, Operating, Key
  <2> QED BY <2>1, <2>2
<1>3. excuses'[k] = IF k = Key(w) THEN excuses[k] + 1 ELSE excuses[k]
  BY <1>1, FaultFacts
<1>4. excuses'[k] \in Nat /\ excuses'[k] >= excuses[k] /\ sends'[k] = sends[k]
  BY <1>1, <1>3, BudgetTypes
<1>5. k # Key(w) => Operating(k)' = Operating(k) /\ Cached(k)' = Cached(k)
  BY <1>1, <1>2, OwnRun DEF Cached
<1>6. k = Key(w) => excuses'[k] > excuses[k]
  BY <1>3, BudgetTypes
<1> QED BY <1>2, <1>4, <1>5, <1>6, BudgetRests

\* The worker waits before the step or after it, and the cache is not touched.
LEMMA BudgetWaits ==
    ASSUME BudgetInv, NEW w \in Workers, Ack(w) \/ \E m \in queue : Fetch(w, m), NEW k \in Keys
    PROVE  Budget(k)'
<1>1. /\ UNCHANGED <<sends, now, cache, excuses>> /\ worker[w].pc \in {"idle", "acking"}
      /\ \A v \in Workers \ {w} : worker'[v] = worker[v]
  BY DEF Ack, Fetch, world, history, BudgetInv, IndInv, TypeOK
<1>2. worker'[w].pc \in {"idle", "get"}
  <2>1. w \in DOMAIN worker
    BY DEF BudgetInv, IndInv, TypeOK
  <2>2. CASE Ack(w)
    BY <2>1, <2>2, WaitingFacts DEF Ack
  <2>3. CASE \E m \in queue : Fetch(w, m)
    BY <2>1, <2>3 DEF Fetch
  <2> QED BY <2>2, <2>3
<1>3. MaySend(k)' = MaySend(k) /\ Operating(k)' = Operating(k)
  BY <1>1, <1>2 DEF MaySend, Operating, Key
<1>4. Cached(k)' = Cached(k)
  BY <1>1 DEF Cached
<1>5. excuses'[k] \in Nat /\ excuses'[k] >= excuses[k] /\ sends'[k] = sends[k]
  BY <1>1, BudgetTypes
<1> QED BY <1>3, <1>4, <1>5, BudgetRests

\* An entry that expires is a cause.
LEMMA BudgetTick == ASSUME BudgetInv, Tick, NEW k \in Keys PROVE Budget(k)'
<1>1. /\ UNCHANGED <<sends, worker, cache>> /\ now' = now + 1 /\ now \in Nat /\ cache[k].until \in Nat
      /\ excuses'[k] = IF cache[k].until = now' THEN excuses[k] + 1 ELSE excuses[k]
      /\ excuses[k] \in Nat
  BY DEF Tick, history, BudgetInv, IndInv, TypeOK
<1>2. MaySend(k)' = MaySend(k) /\ Operating(k)' = Operating(k)
  BY <1>1 DEF MaySend, Operating, Key
<1>3. ~Cached(k)' => ~Cached(k) \/ excuses'[k] > excuses[k]
  BY <1>1 DEF Cached
<1>4. excuses'[k] \in Nat /\ excuses'[k] >= excuses[k] /\ sends'[k] = sends[k]
  BY <1>1
<1> QED BY <1>2, <1>3, <1>4, BudgetRests

\* Every step keeps the balance of e-mails and causes.
LEMMA BudgetStep == BudgetInv /\ [Next]_vars => BudgetInv'
<1> SUFFICES ASSUME BudgetInv, [Next]_vars, NEW k \in Keys PROVE Budget(k)'
  BY IndInvStep DEF BudgetInv
<1>1. CASE UNCHANGED <<sends, worker, cache, now, excuses>>
  <2>1. MaySend(k)' = MaySend(k) /\ Operating(k)' = Operating(k) /\ Cached(k)' = Cached(k)
    BY <1>1 DEF MaySend, Operating, Key, Cached
  <2>2. excuses'[k] \in Nat /\ excuses'[k] >= excuses[k] /\ sends'[k] = sends[k]
    BY <1>1, BudgetTypes
  <2> QED BY <2>1, <2>2, BudgetRests
<1>2. CASE UNCHANGED vars
  BY <1>1, <1>2 DEF vars
<1>3. CASE (\E c \in Calls : Call(c)) \/ (\E j \in Keys : Delete(j))
  BY <1>1, <1>3 DEF Call, Delete, history
<1>4. ASSUME NEW w \in Workers, Work(w) \/ WorkerLost(w) PROVE Budget(k)'
  BY <1>4, BudgetWaits, BudgetGet, BudgetReadSubject, BudgetSend, BudgetStore, BudgetStepRaises,
     BudgetSendRaisesLate, BudgetFault DEF Work
<1> QED BY <1>2, <1>3, <1>4, BudgetTick DEF Next

\* An e-mail is sent again only for a cause: a lost worker, a call that took effect and
\* raised, an expired entry or runs that overlapped; each accounts for one at most.
THEOREM ExtraSendsHaveCause == Spec => []ExtraSendsExplained
<1>1. BudgetInv => ExtraSendsExplained
  <2> SUFFICES ASSUME BudgetInv, NEW k \in Keys PROVE sends[k] <= 1 + excuses[k]
    BY DEF ExtraSendsExplained
  <2>1. sends[k] \in Nat /\ excuses[k] \in Nat /\ Cardinality(MaySend(k)) \in Nat
    BY BudgetTypes
  <2>2. sends[k] + Cardinality(MaySend(k)) <= 1 + excuses[k]
    BY DEF BudgetInv, Budget
  <2> QED BY <2>1, <2>2
<1> QED BY <1>1, BudgetInit, BudgetStep, PTL DEF Spec
=============================================================================
