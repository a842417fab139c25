------------------------------ MODULE RedisQueue ------------------------------
(***************************************************************************)
(* The redis queue driver (queue/driver_redis.py) with the workers that    *)
(* drive it and the operators who retry and forget failed jobs.            *)
(*                                                                         *)
(* Every Lua script runs alone.  All but _RESERVE are one step here;       *)
(* _RESERVE is a sequence of steps (promote, then one per round) with      *)
(* `script` naming the worker whose script is running, and while it does   *)
(* nothing else takes a step.  The client computes `now` before it sends a *)
(* reserve, so the script may run with a moment that has passed, and       *)
(* XAUTOCLAIM measures idle time by the server's clock.                    *)
(*                                                                         *)
(* Streams of all queues and levels are one function `entries` from entry  *)
(* ids to entries; the `levels` set of a queue is the levels that have     *)
(* entries, because an empty stream yields nothing when it is walked.      *)
(***************************************************************************)
EXTENDS QueueWorker

CONSTANTS
  Queues,                        \* --queue, in precedence order
  Levels, Delays, Budgets, Keys, \* push arguments: priority, delay, max_attempts, unique
  NoKey,                         \* '' for no unique key
  Tries,                         \* config queue.tries
  ClaimRounds, PromoteLimit,     \* CLAIM_ROUNDS, PROMOTE_LIMIT
  Admins,                        \* processes running `queue retry` or `queue forget`
  MaxIds, MaxEntries, MaxNow     \* bounds: jobs pushed, stream entries added, time

ASSUME RedisAssumption ==
  /\ Queues \in Seq(STRING) /\ Queues # <<>>
  /\ Levels \subseteq Int /\ 0 \in Levels
  /\ Delays \subseteq Int /\ Budgets \subseteq Int
  /\ NoKey \notin Keys /\ Tries \in Int
  /\ ClaimRounds \in Nat \ {0} /\ PromoteLimit \in Nat \ {0}
  /\ NoOne \notin Workers
  /\ MaxIds \in Nat /\ MaxEntries \in Nat /\ MaxNow \in Nat

VARIABLES
  hash,       \* j:<id> -> job hash
  delayed,    \* queue -> (id -> score)
  entries,    \* stream entry id -> [queue, level, id, since]
  unique,     \* u:<key> -> id
  failedSet,  \* id -> score
  nextId, nextEntry,
  scan,       \* where each worker's reserve() is
  script,     \* the worker whose _RESERVE is running, or NoOne
  batch,      \* the ids an admin command has still to go through
  pushed,     \* history: payloads ever pushed
  forgotten   \* history: payloads whose hash `queue forget` deleted

store == <<hash, delayed, entries, unique, failedSet, nextId, nextEntry>>
history == <<pushed, forgotten>>
vars == <<now, workerVars, store, scan, script, batch, history>>

QueueNames == {Queues[i] : i \in DOMAIN Queues}
Undelivered == -1

Drop(f, x) == [y \in DOMAIN f \ {x} |-> f[y]]
Put(f, x, v) == [y \in DOMAIN f \cup {x} |-> IF y = x THEN v ELSE f[y]]

NoScan == [q |-> 1, moment |-> 0, todo |-> {}, round |-> 1]

-----------------------------------------------------------------------------
(* _PUSH *)

\* XADD to the stream of a queue and level.
Entry(q, level, id) == [queue |-> q, level |-> level, id |-> id, since |-> Undelivered]

\* Mutant: no `if unique ~= ''`.
PushNewAnyKey(p, q, level, delay, max, k) ==
  /\ nextId <= MaxIds /\ nextEntry <= MaxEntries
  /\ hash' = Put(hash, nextId,
                 [queue |-> q, payload |-> p, attempts |-> 0, max |-> AtLeast(1, max),
                  level |-> level, key |-> k, until |-> 0, by |-> NoOne])
  /\ unique' = Put(unique, k, nextId)
  /\ entries' = Put(entries, nextEntry, Entry(q, level, nextId))
  /\ nextEntry' = nextEntry + 1
  /\ nextId' = nextId + 1
  /\ pushed' = pushed \cup {p}
  /\ UNCHANGED <<delayed, failedSet>>

PushNew(p, q, level, delay, max, k) ==
  /\ nextId <= MaxIds /\ nextEntry <= MaxEntries
  /\ hash' = Put(hash, nextId,
                 [queue |-> q, payload |-> p, attempts |-> 0, max |-> AtLeast(1, max),
                  level |-> level, key |-> k, until |-> 0, by |-> NoOne])
  /\ unique' = IF k = NoKey THEN unique ELSE Put(unique, k, nextId)
  /\ IF delay > 0
       THEN /\ delayed' = [delayed EXCEPT ![q] = Put(@, nextId, now + delay)]
            /\ UNCHANGED <<entries, nextEntry>>
       ELSE /\ entries' = Put(entries, nextEntry, Entry(q, level, nextId))
            /\ nextEntry' = nextEntry + 1
            /\ UNCHANGED delayed
  /\ nextId' = nextId + 1
  /\ pushed' = pushed \cup {p}
  /\ UNCHANGED failedSet

\* A key whose job still exists: push returns that job's id and stores nothing.
Push ==
  /\ \E p \in Payloads \ pushed, q \in QueueNames, level \in Levels, delay \in Delays,
        max \in Budgets, k \in Keys \cup {NoKey} :
       /\ ~(k \in DOMAIN unique /\ unique[k] \in DOMAIN hash)
       /\ PushNew(p, q, level, delay, max, k)
  /\ UNCHANGED <<now, workerVars, scan, script, batch, forgotten>>

-----------------------------------------------------------------------------
(* Reserve: the client side *)

\* now_utc() is read, and the script is on its way to the server.
Send(w, q) == scan' = [scan EXCEPT ![w] = [NoScan EXCEPT !.q = q, !.moment = NowUtc(w)]]

BeginReserve(w) ==
  /\ CallReserve(w)
  /\ Send(w, 1)
  /\ UNCHANGED <<now, store, script, batch, history>>

\* _reserve_from returned None.
NextQueue(w) ==
  IF scan[w].q < Len(Queues)
    THEN /\ Send(w, scan[w].q + 1)
         /\ Goto(w, "reserve")
         /\ job' = [job EXCEPT ![w] = NoJob]
         /\ UNCHANGED <<plan, deadline, failures, done, started, signals, faults, finished>>
    ELSE /\ scan' = [scan EXCEPT ![w] = NoScan]
         /\ ReserveReturnsNone(w)

-----------------------------------------------------------------------------
(* Reserve: the script *)

\* ZRANGEBYSCORE -inf now LIMIT 0 PROMOTE_LIMIT
DueBefore(q, a, b) ==
  \/ delayed[q][a] < delayed[q][b]
  \/ delayed[q][a] = delayed[q][b] /\ a < b
Due(w) ==
  LET q   == Queues[scan[w].q]
      all == {id \in DOMAIN delayed[q] : delayed[q][id] <= scan[w].moment}
  IN {id \in all : Cardinality({o \in all : DueBefore(q, o, id)}) < PromoteLimit}

\* The promoted jobs become stream entries in score order; an id without a hash
\* is only removed.
Promoted(w) ==
  LET q     == Queues[scan[w].q]
      live  == Due(w) \cap DOMAIN hash
      Rank(id) == Cardinality({o \in live : DueBefore(q, o, id)})
      new   == nextEntry..(nextEntry + Cardinality(live) - 1)
  IN [e \in DOMAIN entries \cup new |->
        IF e \in DOMAIN entries THEN entries[e]
        ELSE LET id == CHOOSE i \in live : Rank(i) = e - nextEntry
             IN Entry(q, hash[id].level, id)]

StartScript(w) ==
  LET q == Queues[scan[w].q]
  IN /\ pc[w] = "reserve" /\ script = NoOne
     /\ nextEntry + Cardinality(Due(w)) <= MaxEntries + 1
     /\ entries' = Promoted(w)
     /\ nextEntry' = nextEntry + Cardinality(Due(w) \cap DOMAIN hash)
     /\ delayed' = [delayed EXCEPT ![q] = [id \in DOMAIN @ \ Due(w) |-> @[id]]]
     /\ scan' = [scan EXCEPT ![w].todo = {entries'[e].level : e \in {d \in DOMAIN entries' : entries'[d].queue = q}},
                             ![w].round = 1]
     /\ script' = w
     /\ UNCHANGED <<now, workerVars, hash, unique, failedSet, nextId, batch, history>>

\* The level being walked: the highest left.
Level(w) == CHOOSE l \in scan[w].todo : \A m \in scan[w].todo : m <= l

InStream(w) == {e \in DOMAIN entries : entries[e].queue = Queues[scan[w].q] /\ entries[e].level = Level(w)}

\* Mutant: no XAUTOCLAIM.
IdleNever(w) == {}

\* XAUTOCLAIM's entry if some entry has been idle for the timeout, else XREADGROUP's.
Idle(w) == {e \in InStream(w) : entries[e].since # Undelivered /\ now - entries[e].since >= ClaimSeconds}
Unread(w) == {e \in InStream(w) : entries[e].since = Undelivered}
IsTaken(e, w) ==
  LET S == IF Idle(w) # {} THEN Idle(w) ELSE Unread(w)
  IN e \in S /\ \A d \in S : e <= d

NextLevel(w) == scan' = [scan EXCEPT ![w].todo = @ \ {Level(w)}, ![w].round = 1]
NextRound(w) ==
  IF scan[w].round < ClaimRounds THEN scan' = [scan EXCEPT ![w].round = @ + 1] ELSE NextLevel(w)

InScript(w) == script = w /\ scan[w].todo # {}
ScriptOnly == <<now, workerVars, unique, nextId, nextEntry, script, batch, history>>

NothingTaken(w) ==
  /\ InScript(w)
  /\ Idle(w) = {} /\ Unread(w) = {}
  /\ NextLevel(w)
  /\ UNCHANGED <<store, now, workerVars, script, batch, history>>

\* The hash is gone: XACK, XDEL.
DropTombstone(w) ==
  /\ InScript(w)
  /\ \E e \in InStream(w) :
       /\ IsTaken(e, w)
       /\ entries[e].id \notin DOMAIN hash
       /\ entries' = Drop(entries, e)
  /\ NextRound(w)
  /\ UNCHANGED <<ScriptOnly, hash, delayed, failedSet>>

\* Mutant: acknowledged without going back to the delayed set.
ParkNowhere(w) ==
  /\ InScript(w)
  /\ \E e \in InStream(w) :
       LET id == entries[e].id
       IN /\ IsTaken(e, w)
          /\ id \in DOMAIN hash /\ hash[id].until > scan[w].moment
          /\ entries' = Drop(entries, e)
  /\ NextRound(w)
  /\ UNCHANGED <<ScriptOnly, hash, delayed, failedSet>>

\* Somebody still holds it: back to the delayed set until the claim runs out.
Park(w) ==
  /\ InScript(w)
  /\ \E e \in InStream(w) :
       LET id == entries[e].id
       IN /\ IsTaken(e, w)
          /\ id \in DOMAIN hash /\ hash[id].until > scan[w].moment
          /\ delayed' = [delayed EXCEPT ![Queues[scan[w].q]] = Put(@, id, hash[id].until)]
          /\ entries' = Drop(entries, e)
  /\ NextRound(w)
  /\ UNCHANGED <<ScriptOnly, hash, failedSet>>

\* Mutants: the key survives its job; the failed job is deleted.
FailHashKeepsKey(id, score) ==
  /\ hash' = [hash EXCEPT ![id].key = NoKey, ![id].until = 0, ![id].by = NoOne]
  /\ failedSet' = Put(failedSet, id, score)
  /\ UNCHANGED unique
FailHashDeletes(id, score) ==
  /\ unique' = IF hash[id].key = NoKey THEN unique ELSE Drop(unique, hash[id].key)
  /\ hash' = Drop(hash, id)
  /\ UNCHANGED failedSet

\* Join the failed set and give up the unique key; the hash stays.
FailHash(id, score) ==
  /\ unique' = IF hash[id].key = NoKey THEN unique ELSE Drop(unique, hash[id].key)
  /\ hash' = [hash EXCEPT ![id].key = NoKey, ![id].until = 0, ![id].by = NoOne]
  /\ failedSet' = Put(failedSet, id, score)

\* Mutant: one attempt too many.
OutOfAttemptsLate(id) == hash[id].attempts > hash[id].max

OutOfAttempts(id) == hash[id].attempts >= hash[id].max

Exhaust(w) ==
  /\ InScript(w)
  /\ \E e \in InStream(w) :
       LET id == entries[e].id
       IN /\ IsTaken(e, w)
          /\ id \in DOMAIN hash /\ hash[id].until <= scan[w].moment /\ OutOfAttempts(id)
          /\ entries' = Drop(entries, e)
          /\ FailHash(id, scan[w].moment)
  /\ NextRound(w)
  /\ UNCHANGED <<now, workerVars, delayed, nextId, nextEntry, script, batch, history>>

\* Mutant: a claim that does not count.
ClaimHashUncounted(id, w) ==
  hash' = [hash EXCEPT ![id].by = WorkerId[w], ![id].until = scan[w].moment + ClaimSeconds]

\* HINCRBY attempts, reserved_by, reserved_until; the entry is delivered to us.
ClaimHash(id, w) ==
  hash' = [hash EXCEPT ![id].attempts = @ + 1, ![id].by = WorkerId[w],
                       ![id].until = scan[w].moment + ClaimSeconds]

Claim(w) ==
  /\ InScript(w)
  /\ \E e \in InStream(w) :
       LET id == entries[e].id
           j  == [id |-> id, payload |-> hash[id].payload, attempts |-> hash'[id].attempts,
                  max |-> hash[id].max, by |-> WorkerId[w], handle |-> e]
       IN /\ IsTaken(e, w)
          /\ id \in DOMAIN hash /\ hash[id].until <= scan[w].moment /\ ~OutOfAttempts(id)
          /\ ClaimHash(id, w)
          /\ entries' = [entries EXCEPT ![e].since = now]
          /\ IF j.payload \in Undecodable
               THEN /\ job' = [job EXCEPT ![w] = j]
                    /\ Goto(w, "discard")
                    /\ scan' = [scan EXCEPT ![w] = [NoScan EXCEPT !.q = scan[w].q]]
                    /\ UNCHANGED <<plan, deadline, failures, done, started, signals, faults, finished>>
               ELSE ReserveReturns(w, j) /\ scan' = [scan EXCEPT ![w] = NoScan]
  /\ script' = NoOne
  /\ UNCHANGED <<now, delayed, unique, failedSet, nextId, nextEntry, batch, history>>

ScriptReturnsNil(w) ==
  /\ script = w /\ scan[w].todo = {}
  /\ script' = NoOne
  /\ NextQueue(w)
  /\ UNCHANGED <<now, store, batch, history>>

ScriptStep(w) ==
  \/ NothingTaken(w) \/ DropTombstone(w) \/ Park(w) \/ Exhaust(w) \/ Claim(w) \/ ScriptReturnsNil(w)

-----------------------------------------------------------------------------
(* _HELD, _COMPLETE, _RELEASE, _FAIL *)

\* Mutant: the scripts without _HELD.
HeldByAnyone(j) == j.id \in DOMAIN hash

Held(j) ==
  /\ j.id \in DOMAIN hash
  /\ hash[j.id].by = j.by
  /\ hash[j.id].attempts = j.attempts

\* XACK and XDEL on the stream of the hash's queue and present priority.
AckDel(j) ==
  entries' = [e \in {d \in DOMAIN entries :
                       ~(d = j.handle /\ entries[d].queue = hash[j.id].queue
                                      /\ entries[d].level = hash[j.id].level)} |-> entries[e]]

Complete(j) ==
  /\ AckDel(j)
  /\ unique' = IF hash[j.id].key = NoKey THEN unique ELSE Drop(unique, hash[j.id].key)
  /\ hash' = Drop(hash, j.id)
  /\ UNCHANGED <<delayed, failedSet, nextId, nextEntry>>

Release(j, available) ==
  /\ delayed' = [delayed EXCEPT ![hash[j.id].queue] = Put(@, j.id, available)]
  /\ hash' = [hash EXCEPT ![j.id].until = 0, ![j.id].by = NoOne]
  /\ AckDel(j)
  /\ UNCHANGED <<unique, failedSet, nextId, nextEntry>>

Fail(j, score) ==
  /\ AckDel(j)
  /\ FailHash(j.id, score)
  /\ UNCHANGED <<delayed, nextId, nextEntry>>

Settle(w) ==
  /\ pc[w] = "settle"
  /\ IF ~Held(job[w]) THEN UNCHANGED store
     ELSE CASE plan[w].op = "delete"  -> Complete(job[w])
            [] plan[w].op = "release" -> Release(job[w], NowUtc(w) + plan[w].delay)
            [] plan[w].op = "fail"    -> Fail(job[w], NowUtc(w))
  /\ Settled(w)
  /\ UNCHANGED <<now, scan, script, batch, history>>

\* Undecodable: _fail_raw, and _reserve_from returns None.
Discard(w) ==
  /\ pc[w] = "discard"
  /\ IF Held(job[w]) THEN Fail(job[w], NowUtc(w)) ELSE UNCHANGED store
  /\ NextQueue(w)
  /\ UNCHANGED <<now, script, batch, history>>

-----------------------------------------------------------------------------
(* retry_failed, forget_failed: read the ids, then one script per id *)

\* All of them, or whatever id the operator typed.
AdminSelect(a) ==
  /\ batch[a].ids = {}
  /\ \E op \in {"retry", "forget"}, ids \in {DOMAIN failedSet} \cup {{i} : i \in 1..(nextId - 1)} :
       batch' = [batch EXCEPT ![a] = [op |-> op, ids |-> ids]]
  /\ UNCHANGED <<now, workerVars, store, scan, script, history>>

\* forget --before: ZRANGEBYSCORE below the date.
AdminSelectBefore(a) ==
  /\ batch[a].ids = {}
  /\ \E before \in {failedSet[i] : i \in DOMAIN failedSet} :
       batch' = [batch EXCEPT ![a] = [op |-> "forget",
                                      ids |-> {i \in DOMAIN failedSet : failedSet[i] < before}]]
  /\ UNCHANGED <<now, workerVars, store, scan, script, history>>

\* Mutant: HGET where ZREM should be.
RequeueStillFailed(id) ==
  /\ nextEntry <= MaxEntries
  /\ hash' = [hash EXCEPT ![id].attempts = 0, ![id].max = AtLeast(1, Tries), ![id].level = 0,
                          ![id].key = NoKey, ![id].until = 0, ![id].by = NoOne]
  /\ entries' = Put(entries, nextEntry, Entry(hash[id].queue, 0, id))
  /\ nextEntry' = nextEntry + 1
  /\ UNCHANGED <<failedSet, delayed, unique, nextId, forgotten>>

\* _REQUEUE past its ZREM: the same id, a new budget, priority 0, no key, if EXISTS says that
\* the job has its hash.
Requeue(id) ==
  /\ nextEntry <= MaxEntries
  /\ failedSet' = Drop(failedSet, id)
  /\ IF id \in DOMAIN hash
       THEN /\ hash' = [hash EXCEPT ![id].attempts = 0, ![id].max = AtLeast(1, Tries), ![id].level = 0,
                                    ![id].key = NoKey, ![id].until = 0, ![id].by = NoOne]
            /\ entries' = Put(entries, nextEntry, Entry(hash[id].queue, 0, id))
            /\ nextEntry' = nextEntry + 1
       ELSE UNCHANGED <<hash, entries, nextEntry>>
  /\ UNCHANGED <<delayed, unique, nextId, forgotten>>

\* _FORGET past its ZREM.
ForgetHash(id) ==
  /\ failedSet' = Drop(failedSet, id)
  /\ hash' = Drop(hash, id)
  /\ forgotten' = forgotten \cup {hash[i].payload : i \in {id} \cap DOMAIN hash}
  /\ UNCHANGED <<delayed, entries, unique, nextId, nextEntry>>

AdminStep(a) ==
  /\ \E id \in batch[a].ids :
       /\ CASE id \notin DOMAIN failedSet -> UNCHANGED <<store, forgotten>>
            [] id \in DOMAIN failedSet /\ batch[a].op = "retry" -> Requeue(id)
            [] id \in DOMAIN failedSet /\ batch[a].op = "forget" -> ForgetHash(id)
       /\ batch' = [batch EXCEPT ![a].ids = @ \ {id}]
  /\ UNCHANGED <<now, workerVars, scan, script, pushed>>

AdminInterrupted(a) ==
  /\ batch[a].ids # {}
  /\ batch' = [batch EXCEPT ![a].ids = {}]
  /\ UNCHANGED <<now, workerVars, store, scan, script, history>>

Admin(a) == AdminSelect(a) \/ AdminSelectBefore(a) \/ AdminStep(a) \/ AdminInterrupted(a)

-----------------------------------------------------------------------------
(* Time, as in PgQueue: a second passes while some timestamp is ahead. *)

TimerPending ==
  \/ \E q \in QueueNames : \E id \in DOMAIN delayed[q] : now < delayed[q][id]
  \/ \E id \in DOMAIN hash : now < hash[id].until
  \/ \E e \in DOMAIN entries : entries[e].since # Undelivered /\ now - entries[e].since < ClaimSeconds
  \/ \E w \in Workers : pc[w] = "run" /\ now < deadline[w]

Tick ==
  /\ now < MaxNow /\ TimerPending
  /\ now' = now + 1
  /\ UNCHANGED <<workerVars, store, scan, script, batch, history>>

-----------------------------------------------------------------------------
Init ==
  /\ WorkerInit
  /\ hash = <<>> /\ entries = <<>> /\ unique = <<>> /\ failedSet = <<>>
  /\ delayed = [q \in QueueNames |-> <<>>]
  /\ nextId = 1 /\ nextEntry = 1
  /\ scan = [w \in Workers |-> NoScan]
  /\ script = NoOne
  /\ batch = [a \in Admins |-> [op |-> "retry", ids |-> {}]]
  /\ pushed = {} /\ forgotten = {}

LoopStep(w) ==
  /\ Quit(w) \/ Rest(w) \/ RunJob(w) \/ Restart(w)
  /\ UNCHANGED <<now, store, scan, script, batch, history>>

\* Redis is unreachable: before the script ran, before its answer arrived
\* (the job stays claimed by nobody who knows), or before _FAIL could run.
ReserveError(w) ==
  /\ pc[w] \in {"reserve", "discard", "start"}
  /\ ReserveRaises(w)
  /\ scan' = [scan EXCEPT ![w] = NoScan]
  /\ UNCHANGED <<now, store, script, batch, history>>

Fault(w) ==
  \/ ReserveError(w)
  \/ /\ Signal(w)
     /\ UNCHANGED <<now, store, scan, script, batch, history>>
  \/ /\ Crash(w)
     /\ scan' = [scan EXCEPT ![w] = NoScan]
     /\ UNCHANGED <<now, store, script, batch, history>>

\* What a worker does while no script runs.
ClientStep(w) == BeginReserve(w) \/ StartScript(w) \/ Settle(w) \/ Discard(w) \/ LoopStep(w)

Next ==
  \/ \E w \in Workers : ScriptStep(w)
  \/ /\ script = NoOne
     /\ \/ Push
        \/ Tick
        \/ \E w \in Workers : ClientStep(w) \/ Fault(w)
        \/ \E a \in Admins : Admin(a)

Spec == Init /\ [][Next]_vars

WorkerStep(w) == ScriptStep(w) \/ (script = NoOne /\ ClientStep(w))
FairSpec == Spec /\ SF_vars(script = NoOne /\ Tick) /\ \A w \in Workers : SF_vars(WorkerStep(w))

-----------------------------------------------------------------------------
(* Properties *)

Hash == [queue: QueueNames, payload: Payloads, attempts: Nat, max: Nat, level: Levels,
         key: Keys \cup {NoKey}, until: Nat, by: {WorkerId[w] : w \in Workers} \cup {NoOne}]
StreamEntry == [queue: QueueNames, level: Levels, id: Nat, since: Nat \cup {Undelivered}]

TypeOK ==
  /\ WorkerTypeOK
  /\ nextId \in Nat \ {0} /\ nextEntry \in Nat \ {0}
  /\ DOMAIN hash \subseteq 1..(nextId - 1) /\ hash \in [DOMAIN hash -> Hash]
  /\ DOMAIN entries \subseteq 1..(nextEntry - 1) /\ entries \in [DOMAIN entries -> StreamEntry]
  /\ \A q \in QueueNames : DOMAIN delayed[q] \subseteq 1..(nextId - 1)
  /\ DOMAIN unique \subseteq Keys
  /\ DOMAIN failedSet \subseteq 1..(nextId - 1)
  /\ script \in Workers \cup {NoOne}
  /\ pushed \subseteq Payloads /\ forgotten \subseteq Payloads

\* Worker w believes it holds job id, and the hash agrees.
HasToken(w, id) ==
  /\ pc[w] \in Holding
  /\ job[w].id = id
  /\ id \in DOMAIN hash
  /\ hash[id].by = job[w].by
  /\ hash[id].attempts = job[w].attempts

\* (reserved_by, attempts) names one claim (job.py:26-28): at most one process
\* can end a job.
OneHolder ==
  \A v, w \in Workers : \A id \in DOMAIN hash : HasToken(v, id) /\ HasToken(w, id) => v = w

\* Every job that is not failed can still be found by a reserve: it waits in the
\* delayed set or has a stream entry, through parking, promotion, release and
\* takeover (driver_redis.py:128-209, 251-258).
NoOrphan ==
  \A id \in DOMAIN hash \ DOMAIN failedSet :
    \/ id \in DOMAIN delayed[hash[id].queue]
    \/ \E e \in DOMAIN entries : entries[e].id = id /\ entries[e].queue = hash[id].queue

\* Every payload ever pushed still has its hash, or its handler returned, or an
\* operator forgot it.
NoJobLost ==
  \A p \in pushed : p \in finished \cup forgotten \/ \E id \in DOMAIN hash : hash[id].payload = p

\* A unique key points at the one job that claims it, and a job that claims a
\* key owns it; the repair in _PUSH for a key without a job is never needed
\* (driver_redis.py:77-85, 195-199, 237-240, 270-274).
KeyOwner ==
  /\ \A k \in DOMAIN unique : unique[k] \in DOMAIN hash /\ hash[unique[k]].key = k
  /\ \A id \in DOMAIN hash : hash[id].key # NoKey => hash[id].key \in DOMAIN unique /\ unique[hash[id].key] = id

\* No job is claimed more often than its budget (driver_redis.py:189-202).
AttemptBudget == \A id \in DOMAIN hash : hash[id].attempts <= hash[id].max

\* A failed job is at rest: nobody runs it while `queue failed` lists it.  (An undecodable
\* one that was parked before it failed is claimed again, to be failed again.)
FailedAtRest ==
  \A id \in DOMAIN failedSet :
    id \in DOMAIN hash /\ \A w \in Workers : pc[w] \in Holding \ {"discard"} => ~HasToken(w, id)

\* What is stored is well formed, and the scripts keep the books together: no payload lost,
\* no budget exceeded, no failed job in anybody's hands.
JobsKept == TypeOK /\ NoJobLost /\ AttemptBudget /\ FailedAtRest

\* All of it while processes that share an id die, lose replies, are told to stop and come
\* back: a restarted process never acts on the claim it lost (job.py:26-28).
CrashSafe == JobsKept /\ NoOrphan /\ OneHolder

\* Every job ends: its handler returns, it lands in the failed set, or an
\* operator forgets it.
JobEnds(p) ==
  p \in finished \cup forgotten \/ \E id \in DOMAIN failedSet : hash[id].payload = p

EventuallyEnds == \A p \in Payloads : p \in pushed ~> JobEnds(p)

-----------------------------------------------------------------------------
(* What the comments say, and the code does not do *)

\* The delayed set holds "ids scored by the second they become due"
\* (driver_redis.py:19) and backoff is the "Delay before the next attempt"
\* (worker.py:32): a job is never handed out while the set says it is not due.
DueWhenClaimed ==
  [][\A w \in Workers :
       LET q == Queues[scan[w].q]
       IN pc[w] = "reserve" /\ pc'[w] \in {"start", "discard"} /\ job'[w].id \in DOMAIN delayed[q] =>
            delayed[q][job'[w].id] <= scan[w].moment]_vars

=============================================================================
