--------------------------- MODULE RedisQueueProofs ---------------------------
(***************************************************************************)
(* Theorems about RedisQueue, for every set of workers, queues, levels,    *)
(* budgets, keys and operators.                                            *)
(*                                                                         *)
(* The first half needs no hypothesis on worker ids: the scripts keep the  *)
(* store sound (StoreInv) and what a worker remembers of its job stays     *)
(* true of the store (TokenInv).  The second half is about claims, and     *)
(* assumes what README section 6, item 14 shows to be needed: no operator  *)
(* retries jobs while two processes go by the same id.  From both, the     *)
(* driver implements JobQueue.                                             *)
(***************************************************************************)
EXTENDS RedisQueueRefines, QueueWorkerProofs, FiniteSetTheorems

-----------------------------------------------------------------------------
(* The invariant of the store *)

HashTyped == DOMAIN hash \subseteq 1..(nextId - 1) /\ hash \in [DOMAIN hash -> Hash]
EntriesTyped == DOMAIN entries \subseteq 1..(nextEntry - 1) /\ entries \in [DOMAIN entries -> StreamEntry]
DelayedTyped ==
  /\ delayed = [q \in QueueNames |-> delayed[q]]
  /\ \A q \in QueueNames : DOMAIN delayed[q] \subseteq 1..(nextId - 1) /\ delayed[q] \in [DOMAIN delayed[q] -> Nat]
StoreTyped ==
  /\ nextId \in Nat \ {0} /\ nextEntry \in Nat \ {0}
  /\ HashTyped /\ EntriesTyped /\ DelayedTyped
  /\ DOMAIN unique \subseteq Keys
  /\ DOMAIN failedSet \subseteq 1..(nextId - 1)
  /\ pushed \subseteq Payloads /\ forgotten \subseteq Payloads

\* An id is only ever queued under the queue of its hash.
Linked ==
  /\ \A e \in DOMAIN entries :
       /\ entries[e].id \in 1..(nextId - 1)
       /\ entries[e].id \in DOMAIN hash => entries[e].queue = hash[entries[e].id].queue
  /\ \A q \in QueueNames : \A id \in DOMAIN delayed[q] : id \in DOMAIN hash => hash[id].queue = q

\* A job that failed has given up its key.
FailedKeyless == \A id \in DOMAIN failedSet \cap DOMAIN hash : hash[id].key = NoKey

StoreInv == StoreTyped /\ Linked /\ FailedKeyless /\ NoOrphan /\ NoJobLost /\ KeyOwner /\ AttemptBudget

\* Where a reserve is, and who runs a script.
ScanRecord == [q: 1..Len(Queues), moment: Nat, todo: SUBSET Levels, round: Nat]
ScanTyped ==
  /\ scan \in [Workers -> ScanRecord]
  /\ script \in Workers \cup {NoOne}
  /\ \A w \in Workers : script = w => pc[w] = "reserve"
  /\ batch \in [Admins -> [op: {"retry", "forget"}, ids: SUBSET Nat]]

\* What a worker remembers of the job in its hands is true of that job, whoever holds it now.
Remembers(w) ==
  /\ job[w].by = WorkerId[w]
  /\ job[w].id < nextId
  /\ job[w].handle < nextEntry
  /\ job[w].id \in DOMAIN hash => hash[job[w].id].payload = job[w].payload
  /\ job[w].handle \in DOMAIN entries => entries[job[w].handle].id = job[w].id
TokenInv ==
  \A w \in Workers :
    /\ pc[w] \in Holding => Remembers(w)
    /\ (pc[w] = "settle" /\ plan[w].op = "delete") => job[w].payload \in finished

BaseInv == WorkerInv /\ ScanTyped /\ StoreInv /\ TokenInv

-----------------------------------------------------------------------------
(* The invariant of the claims *)

\* No operator retries jobs while two processes go by the same id.
Exclusive == Admins = {} \/ \A v, w \in Workers : WorkerId[v] = WorkerId[w] => v = w

\* Nobody remembers more attempts than the hash has had, and the budget is the one it read,
\* unless a retry came in between: then the hash is no longer in its name.
TokensBounded ==
  \A w \in Workers :
    LET id == job[w].id
    IN (pc[w] \in Holding /\ id \in DOMAIN hash /\ (Admins = {} \/ hash[id].by = WorkerId[w])) =>
         job[w].attempts <= hash[id].attempts /\ job[w].max = hash[id].max

\* (id, attempts, reserved_by) names one process.
TokensUnique ==
  \A v, w \in Workers :
    (/\ pc[v] \in Holding /\ pc[w] \in Holding
     /\ job[v].id = job[w].id /\ job[v].attempts = job[w].attempts /\ job[v].by = job[w].by) => v = w

\* Only an exhausted job is about to fail, only an undecodable one to be discarded.
PlanInv ==
  \A w \in Workers :
    /\ (pc[w] = "settle" /\ plan[w].op = "fail") => job[w].attempts >= job[w].max
    /\ pc[w] \in Holding => (pc[w] = "discard" <=> job[w].payload \in Undecodable)

\* A failed job cannot be claimed, unless it is to be discarded again.
FailedInv ==
  \A id \in DOMAIN failedSet :
    /\ id \in DOMAIN hash
    /\ \/ hash[id].payload \in Undecodable
       \/ hash[id].by = NoOne /\ hash[id].attempts >= hash[id].max

ClaimInv == TokensBounded /\ TokensUnique /\ PlanInv /\ FailedInv

-----------------------------------------------------------------------------
(* Functions, names and entries *)

LEMMA PutDomain == ASSUME NEW f, NEW x, NEW v PROVE DOMAIN Put(f, x, v) = DOMAIN f \cup {x}
BY DEF Put

LEMMA DropDomain == ASSUME NEW f, NEW x PROVE DOMAIN Drop(f, x) = DOMAIN f \ {x}
BY DEF Drop

LEMMA EntryType ==
  ASSUME NEW q \in QueueNames, NEW level \in Levels, NEW id \in Nat
  PROVE  Entry(q, level, id) \in StreamEntry /\ Entry(q, level, id).id = id /\ Entry(q, level, id).queue = q
BY DEF Entry, StreamEntry, Undelivered

\* The queue a reserve is looking at.
LEMMA ScanQueue ==
  ASSUME ScanTyped, NEW w \in Workers
  PROVE  Queues[scan[w].q] \in QueueNames
<1>1. scan[w].q \in 1..Len(Queues) /\ Queues \in Seq(STRING)
  BY RedisAssumption DEF ScanTyped, ScanRecord, RedisAssumption
<1>2. scan[w].q \in DOMAIN Queues
  BY <1>1
<1> QED
  BY <1>2 DEF QueueNames

LEMMA NowUtcType == ASSUME WorkerInv, NEW w \in Workers PROVE NowUtc(w) \in Nat
BY WorkerAssumption DEF WorkerInv, WorkerTypeOK, WorkerAssumption, NowUtc

-----------------------------------------------------------------------------
(* What a step does to what workers remember, and to the workers *)

Moves ==
  /\ nextId' >= nextId /\ nextEntry' >= nextEntry
  /\ \A id \in DOMAIN hash' : id >= nextId \/ (id \in DOMAIN hash /\ hash'[id].payload = hash[id].payload)
  /\ \A e \in DOMAIN entries' : e >= nextEntry \/ (e \in DOMAIN entries /\ entries'[e].id = entries[e].id)

NoNewHolder == \A v \in Workers : pc'[v] \in Holding => pc[v] \in Holding /\ job'[v] = job[v]
PlansKept ==
  /\ finished \subseteq finished'
  /\ \A v \in Workers : (pc'[v] = "settle" /\ plan'[v].op = "delete") =>
       (pc[v] = "settle" /\ plan[v].op = "delete") \/ job'[v].payload \in finished'

LEMMA RememberedStays ==
  ASSUME WorkerInv, TokenInv, StoreTyped, StoreTyped', Moves, NEW v \in Workers,
         pc[v] \in Holding, job'[v] = job[v]
  PROVE  Remembers(v)'
<1>1. Remembers(v) /\ job[v] \in Job
  BY DEF TokenInv, WorkerInv, WorkerTypeOK
<1>2. job[v].id \in Nat /\ job[v].handle \in Nat
  BY <1>1 DEF Job
<1>3. nextId \in Nat /\ nextId' \in Nat /\ nextEntry \in Nat /\ nextEntry' \in Nat
  BY DEF StoreTyped
<1>4. job[v].id < nextId' /\ job[v].handle < nextEntry'
  BY <1>1, <1>2, <1>3 DEF Remembers, Moves
<1>5. job[v].id \in DOMAIN hash' => hash'[job[v].id].payload = job[v].payload
  BY <1>1, <1>2, <1>3 DEF Remembers, Moves
<1>6. job[v].handle \in DOMAIN entries' => entries'[job[v].handle].id = job[v].id
  BY <1>1, <1>2, <1>3 DEF Remembers, Moves
<1> QED
  BY <1>1, <1>4, <1>5, <1>6 DEF Remembers

LEMMA TokensStay ==
  ASSUME WorkerInv, TokenInv, StoreTyped, StoreTyped', Moves, NoNewHolder, PlansKept
  PROVE  TokenInv'
<1> SUFFICES ASSUME NEW v \in Workers
             PROVE  /\ pc'[v] \in Holding => Remembers(v)'
                    /\ (pc'[v] = "settle" /\ plan'[v].op = "delete") => job'[v].payload \in finished'
  BY DEF TokenInv
<1>1. pc'[v] \in Holding => Remembers(v)'
  BY RememberedStays DEF NoNewHolder
<1>2. (pc'[v] = "settle" /\ plan'[v].op = "delete") => job'[v].payload \in finished'
  <2>1. "settle" \in Holding
    BY DEF Holding
  <2> QED
    BY <2>1 DEF PlansKept, TokenInv, NoNewHolder
<1> QED
  BY <1>1, <1>2

-----------------------------------------------------------------------------
(* The scripts keep the store sound *)

LEMMA QuietStore ==
  ASSUME StoreInv, UNCHANGED store, pushed' = pushed, forgotten \subseteq forgotten', forgotten' \subseteq Payloads,
         finished \subseteq finished'
  PROVE  StoreInv' /\ Moves
<1>1. StoreTyped'
  BY DEF StoreInv, StoreTyped, HashTyped, EntriesTyped, DelayedTyped, store
<1>2. Linked' /\ FailedKeyless' /\ NoOrphan' /\ KeyOwner' /\ AttemptBudget'
  BY DEF StoreInv, Linked, FailedKeyless, NoOrphan, KeyOwner, AttemptBudget, store
<1>3. NoJobLost'
  BY DEF StoreInv, NoJobLost, store
<1>4. Moves
  BY DEF Moves, StoreInv, StoreTyped, store
<1> QED
  BY <1>1, <1>2, <1>3, <1>4 DEF StoreInv

\* One lemma per kind of change, in terms of single jobs and entries.
LEMMA DelayedPut ==
  ASSUME DelayedTyped, NEW q \in QueueNames, nextId \in Nat, nextId' \in Nat, nextId' >= nextId,
         NEW id \in 1..(nextId' - 1), NEW score \in Nat,
         delayed' = [delayed EXCEPT ![q] = Put(@, id, score)]
  PROVE  /\ DelayedTyped'
         /\ \A r \in QueueNames : DOMAIN delayed'[r] = IF r = q THEN DOMAIN delayed[r] \cup {id} ELSE DOMAIN delayed[r]
<1>1. /\ delayed' = [r \in QueueNames |-> delayed'[r]]
      /\ delayed'[q] = Put(delayed[q], id, score)
      /\ \A r \in QueueNames \ {q} : delayed'[r] = delayed[r]
  BY DEF DelayedTyped
<1>2. delayed[q] \in [DOMAIN delayed[q] -> Nat]
  BY DEF DelayedTyped
<1>3. /\ DOMAIN Put(delayed[q], id, score) = DOMAIN delayed[q] \cup {id}
      /\ Put(delayed[q], id, score) \in [DOMAIN delayed[q] \cup {id} -> Nat]
  BY <1>2 DEF Put
<1>4. \A r \in QueueNames : DOMAIN delayed'[r] \subseteq 1..(nextId' - 1) /\ delayed'[r] \in [DOMAIN delayed'[r] -> Nat]
  BY <1>1, <1>3 DEF DelayedTyped
<1> QED
  BY <1>1, <1>3, <1>4 DEF DelayedTyped

LEMMA EntryPut ==
  ASSUME EntriesTyped, nextEntry \in Nat \ {0}, NEW q \in QueueNames, NEW level \in Levels, NEW id \in Nat,
         entries' = Put(entries, nextEntry, Entry(q, level, id)), nextEntry' = nextEntry + 1
  PROVE  /\ EntriesTyped' /\ nextEntry \notin DOMAIN entries
         /\ DOMAIN entries' = DOMAIN entries \cup {nextEntry}
         /\ entries'[nextEntry].id = id /\ entries'[nextEntry].queue = q
         /\ \A e \in DOMAIN entries : entries'[e] = entries[e]
<1> DEFINE x == Entry(q, level, id)
<1>1. x \in StreamEntry /\ x.id = id /\ x.queue = q
  BY EntryType
<1> HIDE DEF x
<1>2. entries \in [DOMAIN entries -> StreamEntry] /\ nextEntry \notin DOMAIN entries
  BY DEF EntriesTyped
<1>3. entries' = Put(entries, nextEntry, x)
  BY DEF x
<1>4. /\ DOMAIN entries' = DOMAIN entries \cup {nextEntry} /\ entries'[nextEntry] = x
      /\ entries' \in [DOMAIN entries \cup {nextEntry} -> StreamEntry]
      /\ \A e \in DOMAIN entries : entries'[e] = entries[e]
  BY <1>1, <1>2, <1>3 DEF Put
<1>5. DOMAIN entries' \subseteq 1..(nextEntry' - 1)
  BY <1>4 DEF EntriesTyped
<1> QED
  BY <1>1, <1>2, <1>4, <1>5 DEF EntriesTyped

LEMMA LinkedStep ==
  ASSUME Linked, StoreTyped, nextId' \in Nat, nextId' >= nextId,
         \A id \in DOMAIN hash' : id >= nextId \/ (id \in DOMAIN hash /\ hash'[id].queue = hash[id].queue),
         \A e \in DOMAIN entries' :
           \/ e \in DOMAIN entries /\ entries'[e].id = entries[e].id /\ entries'[e].queue = entries[e].queue
           \/ /\ entries'[e].id \in 1..(nextId' - 1)
              /\ entries'[e].id \in DOMAIN hash' => entries'[e].queue = hash'[entries'[e].id].queue,
         \A q \in QueueNames : \A id \in DOMAIN delayed'[q] :
           id \in DOMAIN delayed[q] \/ (id \in DOMAIN hash' => hash'[id].queue = q)
  PROVE  Linked'
<1>1. nextId \in Nat \ {0}
  BY DEF StoreTyped
<1>2. \A e \in DOMAIN entries' : entries'[e].id \in 1..(nextId' - 1)
  BY <1>1 DEF Linked
<1>3. \A e \in DOMAIN entries' : entries'[e].id \in DOMAIN hash' => entries'[e].queue = hash'[entries'[e].id].queue
  <2> SUFFICES ASSUME NEW e \in DOMAIN entries', entries'[e].id \in DOMAIN hash',
                      e \in DOMAIN entries /\ entries'[e].id = entries[e].id /\ entries'[e].queue = entries[e].queue
               PROVE  entries'[e].queue = hash'[entries'[e].id].queue
    OBVIOUS
  <2>1. entries[e].id \in 1..(nextId - 1)
    BY DEF Linked
  <2> QED
    BY <2>1, <1>1 DEF Linked
<1>4. \A q \in QueueNames : \A id \in DOMAIN delayed'[q] : id \in DOMAIN hash' => hash'[id].queue = q
  <2> SUFFICES ASSUME NEW q \in QueueNames, NEW id \in DOMAIN delayed[q], id \in DOMAIN hash'
               PROVE  hash'[id].queue = q
    OBVIOUS
  <2>1. id \in 1..(nextId - 1)
    BY DEF StoreTyped, DelayedTyped
  <2> QED
    BY <2>1, <1>1 DEF Linked
<1> QED
  BY <1>2, <1>3, <1>4 DEF Linked

\* A live job stays where it is, or is put somewhere.
Findable(id) ==
  \/ id \in DOMAIN delayed[hash[id].queue]
  \/ \E e \in DOMAIN entries : entries[e].id = id /\ entries[e].queue = hash[id].queue
StaysPut(id) ==
  /\ id \in DOMAIN hash \ DOMAIN failedSet /\ hash'[id].queue = hash[id].queue
  /\ \A q \in QueueNames : id \in DOMAIN delayed[q] => id \in DOMAIN delayed'[q]
  /\ \A e \in DOMAIN entries : entries[e].id = id =>
       e \in DOMAIN entries' /\ entries'[e].id = id /\ entries'[e].queue = entries[e].queue

LEMMA OrphanStep ==
  ASSUME NoOrphan, HashTyped, \A id \in DOMAIN hash' \ DOMAIN failedSet' : Findable(id)' \/ StaysPut(id)
  PROVE  NoOrphan'
<1> SUFFICES ASSUME NEW id \in DOMAIN hash' \ DOMAIN failedSet', StaysPut(id) PROVE Findable(id)'
  BY DEF NoOrphan, Findable
<1>1. Findable(id) /\ hash[id].queue \in QueueNames
  BY DEF NoOrphan, Findable, StaysPut, HashTyped, Hash
<1> QED
  BY <1>1 DEF Findable, StaysPut

\* A job that ends gives up its key, and nobody else's.
LEMMA KeyGiven ==
  ASSUME KeyOwner, DOMAIN unique \subseteq Keys, NEW id \in DOMAIN hash,
         unique' = IF hash[id].key = NoKey THEN unique ELSE Drop(unique, hash[id].key),
         DOMAIN hash' \subseteq DOMAIN hash, id \in DOMAIN hash' => hash'[id].key = NoKey,
         \A i \in DOMAIN hash \ {id} : i \in DOMAIN hash' /\ hash'[i].key = hash[i].key
  PROVE  KeyOwner' /\ DOMAIN unique' \subseteq Keys
<1>1. NoKey \notin Keys
  BY RedisAssumption DEF RedisAssumption
<1>2. /\ DOMAIN unique' = DOMAIN unique \ {hash[id].key}
      /\ \A k \in DOMAIN unique' : unique'[k] = unique[k]
  <2>1. CASE hash[id].key = NoKey
    BY <2>1, <1>1
  <2>2. CASE hash[id].key # NoKey
    BY <2>2 DEF Drop
  <2> QED
    BY <2>1, <2>2
<1>3. \A k \in DOMAIN unique' : unique'[k] \in DOMAIN hash' /\ hash'[unique'[k]].key = k
  BY <1>2 DEF KeyOwner
<1>4. \A i \in DOMAIN hash' : hash'[i].key # NoKey => hash'[i].key \in DOMAIN unique' /\ unique'[hash'[i].key] = i
  <2> SUFFICES ASSUME NEW i \in DOMAIN hash', hash'[i].key # NoKey
               PROVE  hash'[i].key \in DOMAIN unique' /\ unique'[hash'[i].key] = i
    OBVIOUS
  <2>1. i # id /\ i \in DOMAIN hash /\ hash'[i].key = hash[i].key
    OBVIOUS
  <2>2. hash[i].key \in DOMAIN unique /\ unique[hash[i].key] = i
    BY <2>1 DEF KeyOwner
  <2>3. hash[i].key # hash[id].key
    BY <2>1, <2>2 DEF KeyOwner
  <2> QED
    BY <2>1, <2>2, <2>3, <1>2
<1> QED
  BY <1>2, <1>3, <1>4 DEF KeyOwner

LEMMA KeyQuiet ==
  ASSUME KeyOwner, DOMAIN unique \subseteq Keys, unique' = unique, DOMAIN hash' \subseteq DOMAIN hash,
         \A i \in DOMAIN hash : hash[i].key # NoKey => i \in DOMAIN hash',
         \A i \in DOMAIN hash' : hash'[i].key = hash[i].key
  PROVE  KeyOwner' /\ DOMAIN unique' \subseteq Keys
<1>1. NoKey \notin Keys
  BY RedisAssumption DEF RedisAssumption
<1>2. \A k \in DOMAIN unique' : unique'[k] \in DOMAIN hash' /\ hash'[unique'[k]].key = k
  BY <1>1 DEF KeyOwner
<1>3. \A i \in DOMAIN hash' : hash'[i].key # NoKey => hash'[i].key \in DOMAIN unique' /\ unique'[hash'[i].key] = i
  BY DEF KeyOwner
<1> QED
  BY <1>2, <1>3 DEF KeyOwner

\* A hash goes only with its job finished or forgotten.
LEMMA LostStep ==
  ASSUME NoJobLost, pushed' = pushed, finished \subseteq finished', forgotten \subseteq forgotten',
         \A i \in DOMAIN hash :
           \/ hash[i].payload \in finished' \cup forgotten'
           \/ i \in DOMAIN hash' /\ hash'[i].payload = hash[i].payload
  PROVE  NoJobLost'
BY DEF NoJobLost

\* A new job is stored under a fresh id, and its key was free.
LEMMA PushStore ==
  ASSUME StoreInv, WorkerInv, finished' = finished, forgotten' = forgotten,
         NEW p \in Payloads, NEW q \in QueueNames, NEW level \in Levels, NEW delay \in Delays,
         NEW max \in Budgets, NEW k \in Keys \cup {NoKey},
         ~(k \in DOMAIN unique /\ unique[k] \in DOMAIN hash),
         PushNew(p, q, level, delay, max, k)
  PROVE  StoreInv' /\ Moves
<1> DEFINE h == [queue |-> q, payload |-> p, attempts |-> 0, max |-> AtLeast(1, max),
                 level |-> level, key |-> k, until |-> 0, by |-> NoOne]
<1>1. h \in Hash /\ AtLeast(1, max) \in Nat
  <2>1. max \in Int
    BY RedisAssumption DEF RedisAssumption
  <2> QED
    BY <2>1, AtLeastType DEF Hash
<1>2. nextId \in Nat \ {0} /\ nextEntry \in Nat \ {0} /\ nextId' = nextId + 1
  BY DEF StoreInv, StoreTyped, PushNew
<1>3. HashTyped /\ EntriesTyped /\ DelayedTyped /\ Linked
  BY DEF StoreInv, StoreTyped
<1>4. /\ hash' \in [DOMAIN hash \cup {nextId} -> Hash] /\ DOMAIN hash' = DOMAIN hash \cup {nextId}
      /\ nextId \notin DOMAIN hash /\ hash'[nextId] = h
      /\ \A id \in DOMAIN hash : hash'[id] = hash[id]
  <2>1. hash' = Put(hash, nextId, h)
    BY DEF PushNew
  <2>2. nextId \notin DOMAIN hash
    BY <1>2, <1>3 DEF HashTyped
  <2> HIDE DEF h
  <2>3. hash \in [DOMAIN hash -> Hash] /\ h \in Hash
    BY <1>1, <1>3 DEF HashTyped
  <2>4. /\ Put(hash, nextId, h) \in [DOMAIN hash \cup {nextId} -> Hash]
        /\ DOMAIN Put(hash, nextId, h) = DOMAIN hash \cup {nextId}
        /\ Put(hash, nextId, h)[nextId] = h
        /\ \A y \in DOMAIN hash \ {nextId} : Put(hash, nextId, h)[y] = hash[y]
    BY <2>3 DEF Put
  <2> QED
    BY <2>1, <2>2, <2>4
<1> HIDE DEF h
<1> DEFINE Queued == /\ EntriesTyped' /\ DelayedTyped' /\ Linked' /\ NoOrphan'
                     /\ nextEntry' \in Nat \ {0} /\ nextEntry' >= nextEntry
                     /\ \A e \in DOMAIN entries' : e >= nextEntry \/ (e \in DOMAIN entries /\ entries'[e].id = entries[e].id)
<1>5. /\ h.queue = q /\ h.payload = p /\ h.attempts = 0 /\ h.max = AtLeast(1, max) /\ h.key = k
      /\ failedSet' = failedSet /\ pushed' = pushed \cup {p}
  BY DEF PushNew, h
<1>6. \A id \in DOMAIN hash' : id >= nextId \/ (id \in DOMAIN hash /\ hash'[id] = hash[id])
  BY <1>2, <1>4
<1>7. ASSUME delay > 0 PROVE Queued
  <2>1. /\ delayed' = [delayed EXCEPT ![q] = Put(@, nextId, now + delay)]
        /\ entries' = entries /\ nextEntry' = nextEntry
    BY <1>7 DEF PushNew
  <2>2. now + delay \in Nat
    BY <1>7, RedisAssumption DEF RedisAssumption, WorkerInv, WorkerTypeOK
  <2>3. /\ DelayedTyped'
        /\ \A r \in QueueNames : DOMAIN delayed'[r] = IF r = q THEN DOMAIN delayed[r] \cup {nextId} ELSE DOMAIN delayed[r]
    <3>1. nextId \in 1..(nextId' - 1) /\ nextId' \in Nat /\ nextId' >= nextId
      BY <1>2
    <3> QED
      BY <2>1, <2>2, <3>1, <1>2, <1>3, DelayedPut
  <2>4. EntriesTyped'
    BY <2>1, <1>3 DEF EntriesTyped
  <2>5. Linked'
    <3>1. \A r \in QueueNames : \A id \in DOMAIN delayed'[r] :
            id \in DOMAIN delayed[r] \/ (id \in DOMAIN hash' => hash'[id].queue = r)
      BY <2>3, <1>4, <1>5
    <3>2. StoreTyped /\ nextId' \in Nat /\ nextId' >= nextId
      BY <1>2 DEF StoreInv
    <3> QED
      BY <3>1, <3>2, <2>1, <1>3, <1>6, LinkedStep
  <2>6. NoOrphan'
    <3>1. \A id \in DOMAIN hash' \ DOMAIN failedSet' : Findable(id)' \/ StaysPut(id)
      <4> TAKE id \in DOMAIN hash' \ DOMAIN failedSet'
      <4>1. CASE id = nextId
        <5>1. id \in DOMAIN delayed'[q] /\ hash'[id].queue = q
          BY <4>1, <2>3, <1>4, <1>5
        <5> QED
          BY <5>1 DEF Findable
      <4>2. CASE id # nextId
        <5>1. id \in DOMAIN hash \ DOMAIN failedSet /\ hash'[id].queue = hash[id].queue
          BY <4>2, <1>4, <1>5
        <5>2. \A r \in QueueNames : id \in DOMAIN delayed[r] => id \in DOMAIN delayed'[r]
          BY <2>3
        <5> QED
          BY <5>1, <5>2, <2>1 DEF StaysPut
      <4> QED
        BY <4>1, <4>2
    <3> QED
      BY <3>1, <1>3, OrphanStep DEF StoreInv
  <2>7. nextEntry' \in Nat \ {0} /\ nextEntry' >= nextEntry
    BY <2>1, <1>2
  <2> QED
    BY <2>1, <2>3, <2>4, <2>5, <2>6, <2>7
<1>8. ASSUME ~(delay > 0) PROVE Queued
  <2>1. entries' = Put(entries, nextEntry, Entry(q, level, nextId)) /\ nextEntry' = nextEntry + 1 /\ delayed' = delayed
    BY <1>8 DEF PushNew
  <2>2. /\ EntriesTyped' /\ nextEntry \notin DOMAIN entries
        /\ DOMAIN entries' = DOMAIN entries \cup {nextEntry}
        /\ entries'[nextEntry].id = nextId /\ entries'[nextEntry].queue = q
        /\ \A e \in DOMAIN entries : entries'[e] = entries[e]
    BY <2>1, <1>2, <1>3, EntryPut
  <2>3. DelayedTyped'
    BY <2>1, <1>2, <1>3 DEF DelayedTyped
  <2>4. Linked'
    <3>1. \A e \in DOMAIN entries' :
            \/ e \in DOMAIN entries /\ entries'[e].id = entries[e].id /\ entries'[e].queue = entries[e].queue
            \/ /\ entries'[e].id \in 1..(nextId' - 1)
               /\ entries'[e].id \in DOMAIN hash' => entries'[e].queue = hash'[entries'[e].id].queue
      BY <2>2, <1>2, <1>4, <1>5
    <3>2. StoreTyped /\ nextId' \in Nat /\ nextId' >= nextId
      BY <1>2 DEF StoreInv
    <3> QED
      BY <3>1, <3>2, <2>1, <1>3, <1>6, LinkedStep
  <2>5. NoOrphan'
    <3>1. \A id \in DOMAIN hash' \ DOMAIN failedSet' : Findable(id)' \/ StaysPut(id)
      BY <2>1, <2>2, <1>4, <1>5 DEF Findable, StaysPut
    <3> QED
      BY <3>1, <1>3, OrphanStep DEF StoreInv
  <2>6. nextEntry' \in Nat \ {0} /\ nextEntry' >= nextEntry
    BY <2>1, <1>2
  <2>7. \A e \in DOMAIN entries' : e >= nextEntry \/ (e \in DOMAIN entries /\ entries'[e].id = entries[e].id)
    BY <2>2, <1>2
  <2> QED
    BY <2>2, <2>3, <2>4, <2>5, <2>6, <2>7
<1>9. Queued
  BY <1>7, <1>8
<1> HIDE DEF Queued
<1>10. KeyOwner' /\ DOMAIN unique' \subseteq Keys
  <2>1. k \notin DOMAIN unique /\ KeyOwner /\ DOMAIN unique \subseteq Keys /\ NoKey \notin Keys
    BY RedisAssumption DEF StoreInv, StoreTyped, KeyOwner, RedisAssumption
  <2>2. unique' = IF k = NoKey THEN unique ELSE Put(unique, k, nextId)
    BY DEF PushNew
  <2>3. CASE k = NoKey
    BY <2>1, <2>2, <2>3, <1>4, <1>5 DEF KeyOwner
  <2>4. CASE k # NoKey
    <3>1. /\ DOMAIN unique' = DOMAIN unique \cup {k} /\ unique'[k] = nextId
          /\ \A j \in DOMAIN unique : unique'[j] = unique[j]
      BY <2>1, <2>2, <2>4 DEF Put
    <3>2. \A j \in DOMAIN unique' : unique'[j] \in DOMAIN hash' /\ hash'[unique'[j]].key = j
      BY <3>1, <2>1, <1>4, <1>5 DEF KeyOwner
    <3>3. \A id \in DOMAIN hash' : hash'[id].key # NoKey => hash'[id].key \in DOMAIN unique' /\ unique'[hash'[id].key] = id
      BY <3>1, <2>1, <1>4, <1>5 DEF KeyOwner
    <3> QED
      BY <3>1, <3>2, <3>3, <2>1, <2>4 DEF KeyOwner
  <2> QED
    BY <2>3, <2>4
<1>11. StoreTyped'
  <2>1. HashTyped'
    BY <1>2, <1>3, <1>4 DEF HashTyped
  <2>2. DOMAIN failedSet' \subseteq 1..(nextId' - 1) /\ pushed' \subseteq Payloads /\ forgotten' \subseteq Payloads
    BY <1>2, <1>5 DEF StoreInv, StoreTyped
  <2> QED
    BY <2>1, <2>2, <1>2, <1>9, <1>10 DEF StoreTyped, Queued
<1>12. FailedKeyless'
  <2>1. nextId \notin DOMAIN failedSet
    BY <1>2 DEF StoreInv, StoreTyped
  <2> QED
    BY <2>1, <1>4, <1>5 DEF StoreInv, FailedKeyless
<1>13. NoJobLost'
  BY <1>4, <1>5 DEF StoreInv, NoJobLost
<1>14. AttemptBudget'
  BY <1>1, <1>4, <1>5 DEF StoreInv, AttemptBudget
<1>15. Moves
  BY <1>2, <1>6, <1>9 DEF Moves, Queued
<1> QED
  BY <1>9, <1>10, <1>11, <1>12, <1>13, <1>14, <1>15 DEF StoreInv, Queued

\* Nothing leaves the streams but entries of one job.
LessOf(id) ==
  /\ nextEntry' = nextEntry
  /\ entries' = [e \in DOMAIN entries' |-> entries[e]]
  /\ DOMAIN entries' \subseteq DOMAIN entries
  /\ \A e \in DOMAIN entries \ DOMAIN entries' : entries[e].id = id

LEMMA LessTyped ==
  ASSUME EntriesTyped, NEW id, LessOf(id)
  PROVE  /\ EntriesTyped'
         /\ \A e \in DOMAIN entries' : e \in DOMAIN entries /\ entries'[e] = entries[e]
BY DEF EntriesTyped, LessOf

LEMMA DropLess ==
  ASSUME NEW e \in DOMAIN entries, entries' = Drop(entries, e), nextEntry' = nextEntry
  PROVE  LessOf(entries[e].id)
BY DEF LessOf, Drop

\* The handle a worker remembers is an entry of its job, if it is still there.
LEMMA AckDelLess ==
  ASSUME NEW w \in Workers, Remembers(w), AckDel(job[w]), nextEntry' = nextEntry
  PROVE  LessOf(job[w].id)
<1>1. \A e \in DOMAIN entries \ DOMAIN entries' : e = job[w].handle
  BY DEF AckDel
<1>2. DOMAIN entries' \subseteq DOMAIN entries /\ entries' = [e \in DOMAIN entries' |-> entries[e]]
  BY DEF AckDel
<1> QED
  BY <1>1, <1>2 DEF LessOf, Remembers

\* What LessOf leaves of the links.
LEMMA LessLinked ==
  ASSUME StoreTyped, Linked, NEW id, LessOf(id), nextId' = nextId,
         \A i \in DOMAIN hash' : i \in DOMAIN hash /\ hash'[i].queue = hash[i].queue,
         \A q \in QueueNames : \A i \in DOMAIN delayed'[q] :
           i \in DOMAIN delayed[q] \/ (i \in DOMAIN hash' => hash'[i].queue = q)
  PROVE  Linked'
<1>1. \A e \in DOMAIN entries' :
        e \in DOMAIN entries /\ entries'[e].id = entries[e].id /\ entries'[e].queue = entries[e].queue
  BY LessTyped DEF StoreTyped
<1>2. nextId' \in Nat /\ nextId' >= nextId
  BY DEF StoreTyped
<1>3. \A i \in DOMAIN hash' : i >= nextId \/ (i \in DOMAIN hash /\ hash'[i].queue = hash[i].queue)
  OBVIOUS
<1> QED
  BY <1>1, <1>2, <1>3, LinkedStep

LEMMA LessMoves ==
  ASSUME StoreTyped, NEW id, LessOf(id), nextId' = nextId,
         \A i \in DOMAIN hash' : i \in DOMAIN hash /\ hash'[i].payload = hash[i].payload
  PROVE  Moves
BY LessTyped DEF StoreTyped, Moves, LessOf

\* _RESERVE drops the entry of a job that is gone.
LEMMA TombstoneStore ==
  ASSUME StoreInv, NEW e \in DOMAIN entries, entries[e].id \notin DOMAIN hash, entries' = Drop(entries, e),
         UNCHANGED <<hash, delayed, unique, failedSet, nextId, nextEntry, history, finished>>
  PROVE  StoreInv' /\ Moves
<1>1. LessOf(entries[e].id)
  BY DropLess
<1>2. StoreTyped /\ EntriesTyped'
  BY <1>1, LessTyped DEF StoreInv, StoreTyped
<1>3. StoreTyped'
  BY <1>2 DEF StoreTyped, HashTyped, DelayedTyped, history
<1>4. Linked'
  BY <1>1, <1>2, LessLinked DEF StoreInv
<1>5. NoOrphan'
  <2>1. \A id \in DOMAIN hash' \ DOMAIN failedSet' : StaysPut(id)
    BY <1>1 DEF LessOf, StaysPut
  <2> QED
    BY <2>1, <1>2, OrphanStep DEF StoreInv, StoreTyped
<1>6. FailedKeyless' /\ NoJobLost' /\ KeyOwner' /\ AttemptBudget'
  BY DEF StoreInv, FailedKeyless, NoJobLost, KeyOwner, AttemptBudget, history
<1>7. Moves
  BY <1>1, <1>2, LessMoves
<1> QED
  BY <1>3, <1>4, <1>5, <1>6, <1>7 DEF StoreInv

\* _RESERVE parks an entry whose job somebody still holds.
LEMMA ParkStore ==
  ASSUME StoreInv, NEW e \in DOMAIN entries, NEW id \in DOMAIN hash, NEW q, NEW t, entries' = Drop(entries, e),
         id = entries[e].id, q = entries[e].queue, t = hash[id].until,
         delayed' = [delayed EXCEPT ![q] = Put(@, id, t)],
         UNCHANGED <<hash, unique, failedSet, nextId, nextEntry, history, finished>>
  PROVE  StoreInv' /\ Moves
<1>1. LessOf(id)
  BY DropLess
<1>2. StoreTyped /\ EntriesTyped' /\ Linked
  BY <1>1, LessTyped DEF StoreInv, StoreTyped
<1>3. q \in QueueNames /\ hash[id].queue = q /\ id \in 1..(nextId' - 1) /\ t \in Nat
  <2>1. entries[e] \in StreamEntry /\ hash[id] \in Hash
    BY <1>2 DEF StoreTyped, EntriesTyped, HashTyped
  <2> QED
    BY <2>1, <1>2 DEF Linked, StreamEntry, Hash
<1>4. /\ DelayedTyped'
      /\ \A r \in QueueNames : DOMAIN delayed'[r] = IF r = q THEN DOMAIN delayed[r] \cup {id} ELSE DOMAIN delayed[r]
  <2>2. nextId \in Nat /\ nextId' \in Nat /\ nextId' >= nextId /\ DelayedTyped
    BY <1>2 DEF StoreTyped
  <2> QED
    BY <2>2, <1>3, DelayedPut
<1>5. StoreTyped'
  BY <1>2, <1>4 DEF StoreTyped, HashTyped, history
<1>6. Linked'
  <2>1. \A r \in QueueNames : \A i \in DOMAIN delayed'[r] :
           i \in DOMAIN delayed[r] \/ (i \in DOMAIN hash' => hash'[i].queue = r)
    BY <1>3, <1>4
  <2> QED
    BY <2>1, <1>1, <1>2, LessLinked
<1>7. NoOrphan'
  <2>1. \A i \in DOMAIN hash' \ DOMAIN failedSet' : Findable(i)' \/ StaysPut(i)
    <3>1. id \in DOMAIN hash' => Findable(id)'
      BY <1>3, <1>4 DEF Findable
    <3>2. \A d \in DOMAIN entries : entries[d].id # id => d \in DOMAIN entries' /\ entries'[d] = entries[d]
      BY <1>1, <1>2, LessTyped DEF LessOf, StoreTyped
    <3>3. \A r \in QueueNames : DOMAIN delayed[r] \subseteq DOMAIN delayed'[r]
      BY <1>4
    <3>4. \A i \in DOMAIN hash' \ (DOMAIN failedSet' \cup {id}) : StaysPut(i)
      BY <3>2, <3>3 DEF StaysPut
    <3> QED
      BY <3>1, <3>4
  <2> QED
    BY <2>1, <1>2, OrphanStep DEF StoreInv, StoreTyped
<1>8. FailedKeyless' /\ NoJobLost' /\ KeyOwner' /\ AttemptBudget'
  BY DEF StoreInv, FailedKeyless, NoJobLost, KeyOwner, AttemptBudget, history
<1>9. Moves
  BY <1>1, <1>2, LessMoves
<1> QED
  BY <1>5, <1>6, <1>7, <1>8, <1>9 DEF StoreInv

\* A job fails: by exhaustion in _RESERVE, or in _FAIL.
LEMMA FailHashDoes ==
  ASSUME HashTyped, NEW id \in DOMAIN hash, NEW score, FailHash(id, score)
  PROVE  /\ hash' \in [DOMAIN hash -> Hash] /\ DOMAIN hash' = DOMAIN hash
         /\ \A i \in DOMAIN hash \ {id} : hash'[i] = hash[i]
         /\ hash'[id].key = NoKey /\ hash'[id].by = NoOne
         /\ \A i \in DOMAIN hash : /\ hash'[i].queue = hash[i].queue /\ hash'[i].payload = hash[i].payload
                                   /\ hash'[i].attempts = hash[i].attempts /\ hash'[i].max = hash[i].max
<1>1. hash' = [hash EXCEPT ![id].key = NoKey, ![id].until = 0, ![id].by = NoOne]
  BY DEF FailHash
<1>2. hash \in [DOMAIN hash -> Hash]
  BY DEF HashTyped
<1>3. PICK x \in Hash : x = hash[id]
  BY <1>2
<1>4. PICK y : y = [x EXCEPT !.key = NoKey, !.until = 0, !.by = NoOne]
  OBVIOUS
<1>5. /\ y \in Hash /\ y.key = NoKey /\ y.by = NoOne
      /\ y.queue = x.queue /\ y.payload = x.payload /\ y.attempts = x.attempts /\ y.max = x.max
  BY <1>4 DEF Hash
<1>6. hash' = [hash EXCEPT ![id] = y]
  BY <1>1, <1>2, <1>3, <1>4 DEF Hash
<1> QED
  BY <1>2, <1>3, <1>5, <1>6

LEMMA FailStore ==
  ASSUME StoreInv, NEW id \in DOMAIN hash, LessOf(id), NEW score, FailHash(id, score),
         UNCHANGED <<delayed, nextId, history, finished>>
  PROVE  StoreInv' /\ Moves
<1>1. StoreTyped /\ HashTyped /\ EntriesTyped' /\ Linked
  BY LessTyped DEF StoreInv, StoreTyped
<1>2. /\ hash' \in [DOMAIN hash -> Hash] /\ DOMAIN hash' = DOMAIN hash
      /\ \A i \in DOMAIN hash \ {id} : hash'[i] = hash[i]
      /\ hash'[id].key = NoKey
      /\ \A i \in DOMAIN hash : /\ hash'[i].queue = hash[i].queue /\ hash'[i].payload = hash[i].payload
                                /\ hash'[i].attempts = hash[i].attempts /\ hash'[i].max = hash[i].max
  BY <1>1, FailHashDoes
<1>3. DOMAIN failedSet' = DOMAIN failedSet \cup {id}
  BY PutDomain DEF FailHash
<1>4. KeyOwner' /\ DOMAIN unique' \subseteq Keys
  <2>1. unique' = IF hash[id].key = NoKey THEN unique ELSE Drop(unique, hash[id].key)
    BY DEF FailHash
  <2>2. KeyOwner /\ DOMAIN unique \subseteq Keys
    BY DEF StoreInv, StoreTyped
  <2> QED
    BY <1>2, <2>1, <2>2, KeyGiven
<1>5. StoreTyped'
  <2>1. HashTyped' /\ DelayedTyped' /\ DOMAIN failedSet' \subseteq 1..(nextId' - 1)
    BY <1>1, <1>2, <1>3 DEF StoreTyped, HashTyped, DelayedTyped
  <2> QED
    BY <2>1, <1>1, <1>4 DEF StoreTyped, LessOf, history
<1>6. Linked'
  BY <1>1, <1>2, LessLinked
<1>7. NoOrphan'
  <2>1. \A i \in DOMAIN hash' \ DOMAIN failedSet' : StaysPut(i)
    BY <1>2, <1>3, LessTyped, <1>1 DEF LessOf, StaysPut, StoreTyped
  <2> QED
    BY <2>1, <1>1, OrphanStep DEF StoreInv
<1>8. FailedKeyless'
  BY <1>2, <1>3 DEF StoreInv, FailedKeyless
<1>9. NoJobLost' /\ AttemptBudget'
  BY <1>2 DEF StoreInv, NoJobLost, AttemptBudget, history
<1>10. Moves
  BY <1>1, <1>2, LessMoves
<1> QED
  BY <1>4, <1>5, <1>6, <1>7, <1>8, <1>9, <1>10 DEF StoreInv

\* _RESERVE hands out a job: one more attempt, within the budget.
LEMMA ClaimHashDoes ==
  ASSUME HashTyped, NEW id \in DOMAIN hash, NEW w \in Workers, ScanTyped, ClaimHash(id, w)
  PROVE  /\ hash' \in [DOMAIN hash -> Hash] /\ DOMAIN hash' = DOMAIN hash
         /\ \A i \in DOMAIN hash \ {id} : hash'[i] = hash[i]
         /\ hash'[id].attempts = hash[id].attempts + 1 /\ hash'[id].by = WorkerId[w]
         /\ \A i \in DOMAIN hash : /\ hash'[i].queue = hash[i].queue /\ hash'[i].payload = hash[i].payload
                                   /\ hash'[i].max = hash[i].max /\ hash'[i].key = hash[i].key
<1>1. scan[w].moment + ClaimSeconds \in Nat
  <2>1. scan[w].moment \in Nat /\ Timeout \in Nat
    BY WorkerAssumption DEF ScanTyped, ScanRecord, WorkerAssumption
  <2> QED
    BY <2>1 DEF ClaimSeconds, AtLeast
<1> DEFINE u == scan[w].moment + ClaimSeconds
           by == WorkerId[w]
<1>2. hash' = [hash EXCEPT ![id].attempts = @ + 1, ![id].by = by, ![id].until = u]
  BY DEF ClaimHash
<1>3. /\ hash \in [DOMAIN hash -> Hash] /\ u \in Nat /\ by \in {WorkerId[v] : v \in Workers}
      /\ hash[id].attempts + 1 \in Nat
  BY <1>1 DEF HashTyped, Hash
<1> DEFINE n == hash[id].attempts + 1
<1> HIDE DEF u, by, n
<1>a. hash' = [hash EXCEPT ![id].attempts = n, ![id].by = by, ![id].until = u] /\ n \in Nat
  BY <1>2, <1>3 DEF n
<1> DEFINE r == [hash[id] EXCEPT !.attempts = n, !.by = by, !.until = u]
<1>4. hash[id] \in Hash
  BY <1>3
<1>5. /\ r.attempts = n /\ r.by = by /\ r.queue = hash[id].queue /\ r.payload = hash[id].payload
      /\ r.max = hash[id].max /\ r.key = hash[id].key
  BY <1>4 DEF Hash
<1>6. r \in Hash
  BY <1>3, <1>4, <1>a DEF Hash
<1>7. hash' = [hash EXCEPT ![id] = r]
  BY <1>a, <1>3
<1> HIDE DEF r
<1>8. /\ hash' \in [DOMAIN hash -> Hash] /\ DOMAIN hash' = DOMAIN hash
      /\ \A i \in DOMAIN hash \ {id} : hash'[i] = hash[i]
      /\ hash'[id] = r
  BY <1>3, <1>6, <1>7
<1> QED
  BY <1>5, <1>8 DEF by, n

LEMMA ClaimStore ==
  ASSUME StoreInv, WorkerInv, ScanTyped, NEW e \in DOMAIN entries, NEW id \in DOMAIN hash, NEW w \in Workers,
         ~OutOfAttempts(id), ClaimHash(id, w), entries' = [entries EXCEPT ![e].since = now],
         UNCHANGED <<delayed, unique, failedSet, nextId, nextEntry, history, finished>>
  PROVE  StoreInv' /\ Moves
<1>1. StoreTyped /\ HashTyped /\ EntriesTyped /\ Linked
  BY DEF StoreInv, StoreTyped
<1>2. /\ hash' \in [DOMAIN hash -> Hash] /\ DOMAIN hash' = DOMAIN hash
      /\ \A i \in DOMAIN hash \ {id} : hash'[i] = hash[i]
      /\ hash'[id].attempts = hash[id].attempts + 1
      /\ \A i \in DOMAIN hash : /\ hash'[i].queue = hash[i].queue /\ hash'[i].payload = hash[i].payload
                                /\ hash'[i].max = hash[i].max /\ hash'[i].key = hash[i].key
  BY <1>1, ClaimHashDoes
<1>3. /\ entries' \in [DOMAIN entries -> StreamEntry] /\ DOMAIN entries' = DOMAIN entries
      /\ \A d \in DOMAIN entries : entries'[d].id = entries[d].id /\ entries'[d].queue = entries[d].queue
  <2>1. now \in Nat \cup {Undelivered} /\ entries \in [DOMAIN entries -> StreamEntry]
    BY <1>1 DEF WorkerInv, WorkerTypeOK, EntriesTyped
  <2> QED
    BY <2>1 DEF StreamEntry
<1>4. StoreTyped'
  <2>1. HashTyped' /\ EntriesTyped' /\ DelayedTyped'
    BY <1>1, <1>2, <1>3 DEF StoreTyped, HashTyped, EntriesTyped, DelayedTyped
  <2> QED
    BY <2>1, <1>1 DEF StoreTyped, history
<1>5. Linked'
  BY <1>1, <1>2, <1>3 DEF Linked
<1>6. NoOrphan'
  BY <1>2, <1>3 DEF StoreInv, NoOrphan
<1>7. FailedKeyless' /\ NoJobLost' /\ KeyOwner'
  BY <1>2 DEF StoreInv, FailedKeyless, NoJobLost, KeyOwner, history
<1>8. AttemptBudget'
  <2>1. hash[id].attempts \in Nat /\ hash[id].max \in Nat
    BY <1>1 DEF HashTyped, Hash
  <2> QED
    BY <1>2, <2>1 DEF StoreInv, AttemptBudget, OutOfAttempts
<1>9. Moves
  BY <1>1, <1>2, <1>3 DEF Moves, StoreTyped
<1> QED
  BY <1>4, <1>5, <1>6, <1>7, <1>8, <1>9 DEF StoreInv

\* _COMPLETE
LEMMA CompleteStore ==
  ASSUME StoreInv, NEW id \in DOMAIN hash, LessOf(id), hash[id].payload \in finished,
         unique' = IF hash[id].key = NoKey THEN unique ELSE Drop(unique, hash[id].key), hash' = Drop(hash, id),
         UNCHANGED <<delayed, failedSet, nextId, history, finished>>
  PROVE  StoreInv' /\ Moves
<1>1. StoreTyped /\ HashTyped /\ EntriesTyped' /\ Linked
  BY LessTyped DEF StoreInv, StoreTyped
<1>2. /\ hash' \in [DOMAIN hash \ {id} -> Hash] /\ DOMAIN hash' = DOMAIN hash \ {id}
      /\ \A i \in DOMAIN hash' : hash'[i] = hash[i]
  BY <1>1 DEF HashTyped, Drop
<1>3. KeyOwner' /\ DOMAIN unique' \subseteq Keys
  <2>1. KeyOwner /\ DOMAIN unique \subseteq Keys
    BY DEF StoreInv, StoreTyped
  <2> QED
    BY <1>2, <2>1, KeyGiven
<1>4. StoreTyped'
  <2>1. HashTyped' /\ DelayedTyped'
    BY <1>1, <1>2 DEF StoreTyped, HashTyped, DelayedTyped
  <2> QED
    BY <2>1, <1>1, <1>3 DEF StoreTyped, LessOf, history
<1>5. Linked'
  BY <1>1, <1>2, LessLinked
<1>6. NoOrphan'
  <2>1. \A i \in DOMAIN hash' \ DOMAIN failedSet' : StaysPut(i)
    BY <1>2, LessTyped, <1>1 DEF LessOf, StaysPut, StoreTyped
  <2> QED
    BY <2>1, <1>1, OrphanStep DEF StoreInv
<1>7. FailedKeyless' /\ AttemptBudget'
  BY <1>2 DEF StoreInv, FailedKeyless, AttemptBudget
<1>8. NoJobLost'
  BY <1>2, LostStep DEF StoreInv, history
<1>9. Moves
  BY <1>1, <1>2, LessMoves
<1> QED
  BY <1>3, <1>4, <1>5, <1>6, <1>7, <1>8, <1>9 DEF StoreInv

\* _RELEASE
LEMMA ReleaseStore ==
  ASSUME StoreInv, NEW id \in DOMAIN hash, LessOf(id), NEW q, NEW t \in Nat, q = hash[id].queue,
         delayed' = [delayed EXCEPT ![q] = Put(@, id, t)],
         hash' = [hash EXCEPT ![id].until = 0, ![id].by = NoOne],
         UNCHANGED <<unique, failedSet, nextId, history, finished>>
  PROVE  StoreInv' /\ Moves
<1>1. StoreTyped /\ HashTyped /\ EntriesTyped' /\ Linked
  BY LessTyped DEF StoreInv, StoreTyped
<1>2. /\ hash' \in [DOMAIN hash -> Hash] /\ DOMAIN hash' = DOMAIN hash
      /\ \A i \in DOMAIN hash : /\ hash'[i].queue = hash[i].queue /\ hash'[i].payload = hash[i].payload
                                /\ hash'[i].attempts = hash[i].attempts
                                /\ hash'[i].max = hash[i].max /\ hash'[i].key = hash[i].key
  <2>1. hash \in [DOMAIN hash -> Hash]
    BY <1>1 DEF HashTyped
  <2> QED
    BY <2>1 DEF Hash
<1>a. hash'[id].queue = q /\ q \in QueueNames /\ id \in DOMAIN hash'
  BY <1>1, <1>2 DEF HashTyped, Hash
<1>3. /\ DelayedTyped'
      /\ \A r \in QueueNames : DOMAIN delayed'[r] = IF r = q THEN DOMAIN delayed[r] \cup {id} ELSE DOMAIN delayed[r]
  <2>1. nextId \in Nat /\ nextId' \in Nat /\ nextId' >= nextId /\ DelayedTyped
    BY <1>1 DEF StoreTyped
  <2>2. q \in QueueNames /\ id \in 1..(nextId' - 1)
    BY <1>1 DEF HashTyped, Hash
  <2> QED
    BY <2>1, <2>2, DelayedPut
<1>4. StoreTyped'
  <2>1. HashTyped'
    BY <1>1, <1>2 DEF HashTyped
  <2> QED
    BY <2>1, <1>1, <1>3 DEF StoreTyped, LessOf, history
<1>5. Linked'
  <2>1. \A r \in QueueNames : \A i \in DOMAIN delayed'[r] :
           i \in DOMAIN delayed[r] \/ (i \in DOMAIN hash' => hash'[i].queue = r)
    BY <1>a, <1>3
  <2> QED
    BY <2>1, <1>1, <1>2, LessLinked
<1>6. NoOrphan'
  <2>1. Findable(id)'
    BY <1>a, <1>3 DEF Findable
  <2>2. \A d \in DOMAIN entries : entries[d].id # id => d \in DOMAIN entries' /\ entries'[d] = entries[d]
    BY <1>1, LessTyped DEF LessOf, StoreTyped
  <2>3. \A r \in QueueNames : DOMAIN delayed[r] \subseteq DOMAIN delayed'[r]
    BY <1>3
  <2>4. \A i \in DOMAIN hash' \ (DOMAIN failedSet' \cup {id}) : StaysPut(i)
    BY <1>2, <2>2, <2>3 DEF StaysPut
  <2> QED
    BY <2>1, <2>4, <1>1, OrphanStep DEF StoreInv
<1>7. FailedKeyless' /\ NoJobLost' /\ KeyOwner' /\ AttemptBudget'
  BY <1>2 DEF StoreInv, FailedKeyless, NoJobLost, KeyOwner, AttemptBudget, history
<1>8. Moves
  BY <1>1, <1>2, LessMoves
<1> QED
  BY <1>4, <1>5, <1>6, <1>7, <1>8 DEF StoreInv

\* _REQUEUE: the failed job is live again, with a fresh entry.
LEMMA RequeueHashDoes ==
  ASSUME HashTyped, NEW id \in DOMAIN hash, Requeue(id)
  PROVE  /\ hash' \in [DOMAIN hash -> Hash] /\ DOMAIN hash' = DOMAIN hash
         /\ \A i \in DOMAIN hash \ {id} : hash'[i] = hash[i]
         /\ hash'[id].queue = hash[id].queue /\ hash'[id].payload = hash[id].payload
         /\ hash'[id].attempts = 0 /\ hash'[id].max = AtLeast(1, Tries) /\ AtLeast(1, Tries) \in Nat \ {0}
         /\ hash'[id].key = NoKey /\ hash'[id].by = NoOne
<1> DEFINE n == AtLeast(1, Tries)
           r == [hash[id] EXCEPT !.attempts = 0, !.max = n, !.level = 0, !.key = NoKey, !.until = 0, !.by = NoOne]
<1>1. n \in Nat \ {0} /\ 0 \in Levels
  BY AtLeastType, RedisAssumption DEF RedisAssumption
<1>2. hash' = [hash EXCEPT ![id].attempts = 0, ![id].max = n, ![id].level = 0,
                           ![id].key = NoKey, ![id].until = 0, ![id].by = NoOne]
  BY DEF Requeue
<1> HIDE DEF n
<1>3. hash[id] \in Hash /\ hash \in [DOMAIN hash -> Hash]
  BY DEF HashTyped
<1>4. /\ r.attempts = 0 /\ r.by = NoOne /\ r.queue = hash[id].queue /\ r.payload = hash[id].payload
      /\ r.max = n /\ r.key = NoKey
  BY <1>3 DEF Hash
<1>5. r \in Hash
  BY <1>1, <1>3 DEF Hash
<1>6. hash' = [hash EXCEPT ![id] = r]
  BY <1>2, <1>3
<1> HIDE DEF r
<1>7. /\ hash' \in [DOMAIN hash -> Hash] /\ DOMAIN hash' = DOMAIN hash
      /\ \A i \in DOMAIN hash \ {id} : hash'[i] = hash[i]
      /\ hash'[id] = r
  BY <1>3, <1>5, <1>6
<1> QED
  BY <1>1, <1>4, <1>7 DEF n

LEMMA RequeueStore ==
  ASSUME StoreInv, NEW id \in DOMAIN failedSet, Requeue(id), UNCHANGED <<finished, pushed>>
  PROVE  StoreInv' /\ Moves
<1>1. StoreTyped /\ HashTyped /\ EntriesTyped /\ Linked /\ NoOrphan
  BY DEF StoreInv, StoreTyped
<1>2. DOMAIN failedSet' = DOMAIN failedSet \ {id} /\ UNCHANGED <<delayed, unique, nextId, history>>
  BY DropDomain DEF Requeue, history
<1>3. CASE id \notin DOMAIN hash
  <2>1. UNCHANGED <<hash, entries, nextEntry>>
    BY <1>3 DEF Requeue
  <2>2. StoreTyped'
    BY <2>1, <1>1, <1>2 DEF StoreTyped, HashTyped, EntriesTyped, DelayedTyped, history
  <2>3. Linked' /\ KeyOwner' /\ AttemptBudget' /\ NoJobLost' /\ FailedKeyless'
    BY <2>1, <1>2 DEF StoreInv, Linked, KeyOwner, AttemptBudget, NoJobLost, FailedKeyless, history
  <2>4. NoOrphan'
    BY <2>1, <1>1, <1>2, <1>3 DEF NoOrphan
  <2>5. Moves
    BY <2>1, <1>1, <1>2 DEF Moves, StoreTyped
  <2> QED
    BY <2>2, <2>3, <2>4, <2>5 DEF StoreInv
<1>4. CASE id \in DOMAIN hash
  <2>1. /\ hash' \in [DOMAIN hash -> Hash] /\ DOMAIN hash' = DOMAIN hash
        /\ \A i \in DOMAIN hash \ {id} : hash'[i] = hash[i]
        /\ hash'[id].queue = hash[id].queue /\ hash'[id].payload = hash[id].payload
        /\ hash'[id].attempts = 0 /\ hash'[id].max \in Nat \ {0} /\ hash'[id].key = NoKey
    BY <1>1, <1>4, RequeueHashDoes
  <2>2. PICK q \in QueueNames : q = hash[id].queue
    BY <1>1, <1>4 DEF HashTyped, Hash
  <2>3. entries' = Put(entries, nextEntry, Entry(q, 0, id)) /\ nextEntry' = nextEntry + 1
    BY <1>4, <2>2 DEF Requeue
  <2>4. id \in Nat /\ 0 \in Levels /\ nextEntry \in Nat \ {0} /\ nextId \in Nat \ {0} /\ id \in 1..(nextId - 1)
    BY <1>1, <1>4, RedisAssumption DEF RedisAssumption, StoreTyped, HashTyped
  <2>5. /\ EntriesTyped' /\ nextEntry \notin DOMAIN entries
        /\ DOMAIN entries' = DOMAIN entries \cup {nextEntry}
        /\ entries'[nextEntry].id = id /\ entries'[nextEntry].queue = q
        /\ \A e \in DOMAIN entries : entries'[e] = entries[e]
    BY <2>3, <2>4, <1>1, EntryPut
  <2>6. hash[id].key = NoKey
    BY <1>4 DEF StoreInv, FailedKeyless
  <2>7. KeyOwner' /\ DOMAIN unique' \subseteq Keys
    BY <2>1, <2>6, <1>2, KeyQuiet DEF StoreInv, StoreTyped
  <2>8. StoreTyped'
    <3>1. HashTyped' /\ DelayedTyped'
      BY <2>1, <1>1, <1>2 DEF StoreTyped, HashTyped, DelayedTyped
    <3>2. nextEntry' \in Nat \ {0} /\ DOMAIN failedSet' \subseteq 1..(nextId' - 1)
      BY <2>3, <2>4, <1>1, <1>2 DEF StoreTyped
    <3> QED
      BY <3>1, <3>2, <2>5, <2>7, <1>1, <1>2 DEF StoreTyped, history
  <2>9. \A i \in DOMAIN hash' : i \in DOMAIN hash /\ hash'[i].queue = hash[i].queue /\ hash'[i].payload = hash[i].payload
    BY <2>1
  <2>10. Linked'
    <3>1. \A e \in DOMAIN entries' :
            \/ e \in DOMAIN entries /\ entries'[e].id = entries[e].id /\ entries'[e].queue = entries[e].queue
            \/ /\ entries'[e].id \in 1..(nextId' - 1)
               /\ entries'[e].id \in DOMAIN hash' => entries'[e].queue = hash'[entries'[e].id].queue
      BY <2>1, <2>2, <2>4, <2>5, <1>2
    <3>2. nextId' \in Nat /\ nextId' >= nextId
      BY <1>2, <2>4
    <3> QED
      BY <3>1, <3>2, <2>9, <1>1, <1>2, LinkedStep
  <2>11. NoOrphan'
    <3>1. Findable(id)'
      BY <2>1, <2>2, <2>5 DEF Findable
    <3>2. \A i \in DOMAIN hash' \ (DOMAIN failedSet' \cup {id}) : StaysPut(i)
      BY <2>1, <2>5, <1>2 DEF StaysPut
    <3> QED
      BY <3>1, <3>2, <1>1, OrphanStep
  <2>12. NoJobLost' /\ FailedKeyless'
    BY <2>1, <1>2 DEF StoreInv, NoJobLost, FailedKeyless, history
  <2>13. AttemptBudget'
    BY <2>1 DEF StoreInv, AttemptBudget
  <2>14. Moves
    BY <2>1, <2>3, <2>4, <2>5, <1>2 DEF Moves
  <2> QED
    BY <2>7, <2>8, <2>10, <2>11, <2>12, <2>13, <2>14 DEF StoreInv
<1> QED
  BY <1>3, <1>4

\* _FORGET: the key was given up when the job failed, so none is left behind.
LEMMA ForgetStore ==
  ASSUME StoreInv, NEW id \in DOMAIN failedSet, ForgetHash(id), UNCHANGED <<finished, pushed>>
  PROVE  StoreInv' /\ Moves
<1>1. StoreTyped /\ HashTyped /\ Linked /\ NoOrphan
  BY DEF StoreInv, StoreTyped
<1>2. /\ DOMAIN failedSet' = DOMAIN failedSet \ {id}
      /\ UNCHANGED <<delayed, entries, unique, nextId, nextEntry, pushed>>
      /\ forgotten' = forgotten \cup {hash[i].payload : i \in {id} \cap DOMAIN hash}
  BY DropDomain DEF ForgetHash
<1>3. /\ hash' \in [DOMAIN hash \ {id} -> Hash] /\ DOMAIN hash' = DOMAIN hash \ {id}
      /\ \A i \in DOMAIN hash' : hash'[i] = hash[i]
  BY <1>1 DEF HashTyped, ForgetHash, Drop
<1>4. KeyOwner' /\ DOMAIN unique' \subseteq Keys
  <2>1. \A i \in DOMAIN hash : hash[i].key # NoKey => i \in DOMAIN hash'
    BY <1>3 DEF StoreInv, FailedKeyless
  <2> QED
    BY <2>1, <1>2, <1>3, KeyQuiet DEF StoreInv, StoreTyped
<1>5. forgotten' \subseteq Payloads
  <2>1. \A i \in DOMAIN hash : hash[i].payload \in Payloads
    BY <1>1 DEF HashTyped, Hash
  <2> QED
    BY <2>1, <1>1, <1>2 DEF StoreTyped
<1>6. StoreTyped'
  <2>1. HashTyped' /\ DelayedTyped' /\ EntriesTyped'
    BY <1>1, <1>2, <1>3 DEF StoreTyped, HashTyped, DelayedTyped, EntriesTyped
  <2> QED
    BY <2>1, <1>1, <1>2, <1>4, <1>5 DEF StoreTyped
<1>7. Linked' /\ FailedKeyless' /\ AttemptBudget'
  BY <1>2, <1>3 DEF StoreInv, Linked, FailedKeyless, AttemptBudget
<1>8. NoOrphan'
  BY <1>1, <1>2, <1>3 DEF NoOrphan
<1>9. NoJobLost'
  <2>1. \A i \in DOMAIN hash : hash[i].payload \in forgotten' \/ (i \in DOMAIN hash' /\ hash'[i].payload = hash[i].payload)
    BY <1>2, <1>3
  <2> QED
    BY <2>1, <1>2, LostStep DEF StoreInv
<1>10. Moves
  BY <1>1, <1>2, <1>3 DEF Moves, StoreTyped
<1> QED
  BY <1>4, <1>6, <1>7, <1>8, <1>9, <1>10 DEF StoreInv

-----------------------------------------------------------------------------
(* Promotion: the due jobs are ranked by score, and each gets the entry of its rank *)

RankIn(q, live, id) == Cardinality({o \in live : DueBefore(q, o, id)})

LEMMA DueOrder ==
  ASSUME DelayedTyped, nextId \in Nat, NEW q \in QueueNames,
         NEW i \in DOMAIN delayed[q], NEW k \in DOMAIN delayed[q]
  PROVE  /\ ~DueBefore(q, i, i)
         /\ i # k => DueBefore(q, i, k) \/ DueBefore(q, k, i)
         /\ \A o \in DOMAIN delayed[q] : DueBefore(q, o, i) /\ DueBefore(q, i, k) => DueBefore(q, o, k)
<1>1. \A o \in DOMAIN delayed[q] : delayed[q][o] \in Nat /\ o \in Nat
  BY DEF DelayedTyped
<1> QED
  BY <1>1 DEF DueBefore

LEMMA Ranks ==
  ASSUME DelayedTyped, nextId \in Nat, NEW q \in QueueNames, NEW live \in SUBSET DOMAIN delayed[q], IsFiniteSet(live)
  PROVE  /\ \A i \in live : RankIn(q, live, i) \in 0..(Cardinality(live) - 1)
         /\ \A i, k \in live : RankIn(q, live, i) = RankIn(q, live, k) => i = k
         /\ \A n \in 0..(Cardinality(live) - 1) : \E i \in live : RankIn(q, live, i) = n
<1> DEFINE N == Cardinality(live)
           B(i) == {o \in live : DueBefore(q, o, i)}
<1>1. N \in Nat
  BY FS_CardinalityType
<1>2. \A i \in live : IsFiniteSet(B(i)) /\ Cardinality(B(i)) \in Nat /\ Cardinality(B(i)) < N
  <2> SUFFICES ASSUME NEW i \in live
               PROVE  IsFiniteSet(B(i)) /\ Cardinality(B(i)) \in Nat /\ Cardinality(B(i)) < N
    OBVIOUS
  <2>1. B(i) \in SUBSET live /\ i \notin B(i)
    BY DueOrder
  <2> HIDE DEF B
  <2>2. IsFiniteSet(B(i)) /\ Cardinality(B(i)) <= N /\ N # Cardinality(B(i))
    BY <2>1, FS_Subset
  <2>3. Cardinality(B(i)) \in Nat
    BY <2>2, FS_CardinalityType
  <2> QED
    BY <1>1, <2>2, <2>3
<1>3. \A i, k \in live : DueBefore(q, i, k) => Cardinality(B(i)) < Cardinality(B(k))
  <2> SUFFICES ASSUME NEW i \in live, NEW k \in live, DueBefore(q, i, k)
               PROVE  Cardinality(B(i)) < Cardinality(B(k))
    OBVIOUS
  <2>1. B(i) \in SUBSET B(k) /\ i \in B(k) /\ i \notin B(i)
    BY DueOrder
  <2>2. IsFiniteSet(B(k)) /\ Cardinality(B(k)) \in Nat /\ Cardinality(B(i)) \in Nat
    BY <1>2
  <2> HIDE DEF B
  <2>3. Cardinality(B(i)) <= Cardinality(B(k)) /\ Cardinality(B(k)) # Cardinality(B(i))
    BY <2>1, <2>2, FS_Subset
  <2> QED
    BY <2>2, <2>3
<1>4. \A i, k \in live : Cardinality(B(i)) = Cardinality(B(k)) => i = k
  <2> SUFFICES ASSUME NEW i \in live, NEW k \in live, i # k PROVE Cardinality(B(i)) # Cardinality(B(k))
    OBVIOUS
  <2>1. DueBefore(q, i, k) \/ DueBefore(q, k, i)
    BY DueOrder
  <2>2. Cardinality(B(k)) \in Nat /\ Cardinality(B(i)) \in Nat
    BY <1>2
  <2> HIDE DEF B
  <2> QED
    BY <2>1, <2>2, <1>3
<1> DEFINE f == [i \in live |-> Cardinality(B(i))]
           T == 0..(N - 1)
<1>5. \A i \in live : Cardinality(B(i)) \in T
  <2> HIDE DEF B, N
  <2> QED
    BY <1>1, <1>2
<1>6. f \in Injection(live, T)
  <2> HIDE DEF B, T
  <2> QED
    BY <1>4, <1>5 DEF Injection, IsInjective
<1>7. IsFiniteSet(T) /\ Cardinality(T) = N
  <2> HIDE DEF N
  <2>1. /\ IsFiniteSet(0..(N - 1)) /\ Cardinality(0..(N - 1)) = IF 0 > N - 1 THEN 0 ELSE (N - 1) - 0 + 1
    BY <1>1, FS_Interval
  <2> QED
    BY <1>1, <2>1
<1>8. f \in Surjection(live, T)
  <2> HIDE DEF f, T
  <2> QED
    BY <1>6, <1>7, FS_Injection
<1>9. \A n \in T : \E i \in live : Cardinality(B(i)) = n
  <2> HIDE DEF B, T
  <2> QED
    BY <1>8 DEF Surjection
<1> QED
  BY <1>4, <1>5, <1>9 DEF RankIn

Scanned(w) == Queues[scan[w].q]
LiveDue(w) == Due(w) \cap DOMAIN hash
NewEntries(w) == nextEntry..(nextEntry + Cardinality(LiveDue(w)) - 1)

\* The new streams, entry by entry: what was there stays, and each live due job has one more.
LEMMA PromotedDoes ==
  ASSUME StoreInv, ScanTyped, NEW w \in Workers
  PROVE  /\ Cardinality(LiveDue(w)) \in Nat
         /\ DOMAIN Promoted(w) = DOMAIN entries \cup NewEntries(w)
         /\ \A e \in DOMAIN entries : Promoted(w)[e] = entries[e]
         /\ \A e \in NewEntries(w) : \E i \in LiveDue(w) : Promoted(w)[e] = Entry(Scanned(w), hash[i].level, i)
         /\ \A i \in LiveDue(w) : \E e \in NewEntries(w) : Promoted(w)[e] = Entry(Scanned(w), hash[i].level, i)
<1> DEFINE q == Scanned(w)
           live == LiveDue(w)
           N == Cardinality(live)
           new == NewEntries(w)
           Pick(e) == CHOOSE i \in live : RankIn(q, live, i) = e - nextEntry
<1>1. StoreTyped /\ nextId \in Nat /\ nextEntry \in Nat /\ DelayedTyped /\ HashTyped /\ EntriesTyped
  BY DEF StoreInv, StoreTyped
<1>2. live \in SUBSET DOMAIN delayed[q] /\ live \subseteq DOMAIN hash /\ q \in QueueNames
  BY ScanQueue DEF Due, Scanned, LiveDue
<1>3. IsFiniteSet(live) /\ N \in Nat
  <2>1. live \in SUBSET (1..(nextId - 1))
    BY <1>1, <1>2 DEF HashTyped
  <2>2. IsFiniteSet(1..(nextId - 1))
    <3>1. 1 \in Int /\ nextId - 1 \in Int
      BY <1>1
    <3> QED
      BY <3>1, FS_Interval
  <2>3. IsFiniteSet(live)
    BY <2>1, <2>2, FS_Subset
  <2> QED
    BY <2>3, FS_CardinalityType
<1>4. /\ \A i \in live : RankIn(q, live, i) \in 0..(N - 1)
      /\ \A i, k \in live : RankIn(q, live, i) = RankIn(q, live, k) => i = k
      /\ \A n \in 0..(N - 1) : \E i \in live : RankIn(q, live, i) = n
  BY <1>1, <1>2, <1>3, Ranks
<1>5. \A e \in new : e - nextEntry \in 0..(N - 1) /\ e \notin DOMAIN entries
  BY <1>1, <1>3 DEF NewEntries, EntriesTyped
<1>6. \A e \in new : Pick(e) \in live /\ RankIn(q, live, Pick(e)) = e - nextEntry
  BY <1>4, <1>5
<1>7. Promoted(w) = [e \in DOMAIN entries \cup new |->
                       IF e \in DOMAIN entries THEN entries[e] ELSE Entry(q, hash[Pick(e)].level, Pick(e))]
  BY DEF Promoted, RankIn, NewEntries, LiveDue, Scanned
<1>8. \A i \in live : \E e \in new : Pick(e) = i
  <2> SUFFICES ASSUME NEW i \in live PROVE \E e \in new : Pick(e) = i
    OBVIOUS
  <2>1. RankIn(q, live, i) \in 0..(N - 1)
    BY <1>4
  <2>2. nextEntry + RankIn(q, live, i) \in new /\ (nextEntry + RankIn(q, live, i)) - nextEntry = RankIn(q, live, i)
    BY <2>1, <1>1, <1>3 DEF NewEntries
  <2>3. Pick(nextEntry + RankIn(q, live, i)) = i
    BY <2>2, <1>4, <1>6
  <2> QED
    BY <2>2, <2>3
<1> HIDE DEF new, Pick, q, live, N
<1>9. /\ DOMAIN Promoted(w) = DOMAIN entries \cup new
      /\ \A e \in DOMAIN entries : Promoted(w)[e] = entries[e]
      /\ \A e \in new : Promoted(w)[e] = Entry(q, hash[Pick(e)].level, Pick(e))
  BY <1>7, <1>5
<1>10. \A e \in new : \E i \in live : Promoted(w)[e] = Entry(q, hash[i].level, i)
  BY <1>6, <1>9
<1>11. \A i \in live : \E e \in new : Promoted(w)[e] = Entry(q, hash[i].level, i)
  BY <1>8, <1>9
<1> QED
  BY <1>3, <1>9, <1>10, <1>11 DEF new, live, q, N

LEMMA PromoteStore ==
  ASSUME StoreInv, ScanTyped, NEW w \in Workers,
         entries' = Promoted(w), nextEntry' = nextEntry + Cardinality(LiveDue(w)),
         delayed' = [delayed EXCEPT ![Scanned(w)] = [id \in DOMAIN @ \ Due(w) |-> @[id]]],
         UNCHANGED <<hash, unique, failedSet, nextId, history, finished>>
  PROVE  StoreInv' /\ Moves
<1>1. StoreTyped /\ HashTyped /\ EntriesTyped /\ DelayedTyped /\ Linked /\ nextEntry \in Nat \ {0} /\ nextId \in Nat
  BY DEF StoreInv, StoreTyped
<1> DEFINE q == Scanned(w)
           live == LiveDue(w)
           due == Due(w)
           N == Cardinality(live)
           new == NewEntries(w)
<1>2. q \in QueueNames /\ live \subseteq DOMAIN hash /\ live \subseteq DOMAIN delayed[q] /\ live = due \cap DOMAIN hash
  BY ScanQueue DEF Due, LiveDue, Scanned
<1>3. /\ N \in Nat
      /\ DOMAIN entries' = DOMAIN entries \cup new
      /\ \A e \in DOMAIN entries : entries'[e] = entries[e]
      /\ \A e \in new : \E i \in live : entries'[e] = Entry(q, hash[i].level, i)
      /\ \A i \in live : \E e \in new : entries'[e] = Entry(q, hash[i].level, i)
  BY PromotedDoes
<1>4. nextEntry' = nextEntry + N /\ nextEntry' \in Nat \ {0} /\ nextEntry' >= nextEntry
  BY <1>1, <1>3
<1>5. \A e \in new : e \in 1..(nextEntry' - 1) /\ e >= nextEntry
  BY <1>1, <1>3, <1>4 DEF NewEntries
<1>a. delayed' = [delayed EXCEPT ![q] = [id \in DOMAIN @ \ due |-> @[id]]]
  OBVIOUS
<1> HIDE DEF new, live, due, q, N
<1>6. \A i \in live : /\ i \in DOMAIN hash /\ i \in DOMAIN delayed[q] /\ i \in 1..(nextId - 1)
                      /\ hash[i].queue = q /\ hash[i].level \in Levels
  BY <1>1, <1>2 DEF HashTyped, Hash, Linked
<1>7. \A i \in live : /\ Entry(q, hash[i].level, i) \in StreamEntry
                      /\ Entry(q, hash[i].level, i).id = i /\ Entry(q, hash[i].level, i).queue = q
  BY <1>2, <1>6, EntryType
<1>8. \A e \in new : entries'[e] \in StreamEntry /\ entries'[e].id \in live /\ entries'[e].queue = q
  BY <1>3, <1>7
<1>9. EntriesTyped'
  <2>1. DOMAIN entries' \subseteq 1..(nextEntry' - 1)
    <3>1. \A e \in DOMAIN entries : e \in 1..(nextEntry' - 1)
      BY <1>1, <1>4 DEF EntriesTyped
    <3> QED
      BY <3>1, <1>3, <1>5
  <2>2. \A e \in DOMAIN entries' : entries'[e] \in StreamEntry
    BY <1>1, <1>3, <1>8 DEF EntriesTyped
  <2>3. entries' = [e \in DOMAIN entries' |-> entries'[e]]
    BY DEF Promoted
  <2> QED
    BY <2>1, <2>2, <2>3 DEF EntriesTyped
<1>10. /\ DelayedTyped'
       /\ \A r \in QueueNames : DOMAIN delayed'[r] = IF r = q THEN DOMAIN delayed[r] \ due ELSE DOMAIN delayed[r]
  <2>1. /\ delayed' = [r \in QueueNames |-> delayed'[r]]
        /\ delayed'[q] = [id \in DOMAIN delayed[q] \ due |-> delayed[q][id]]
        /\ \A r \in QueueNames \ {q} : delayed'[r] = delayed[r]
    BY <1>1, <1>2, <1>a DEF DelayedTyped
  <2>2. DOMAIN delayed'[q] = DOMAIN delayed[q] \ due /\ delayed'[q] \in [DOMAIN delayed[q] \ due -> Nat]
    <3>1. delayed[q] \in [DOMAIN delayed[q] -> Nat]
      BY <1>1, <1>2 DEF DelayedTyped
    <3>2. DOMAIN delayed'[q] = DOMAIN delayed[q] \ due
      BY <2>1
    <3>3. \A id \in DOMAIN delayed[q] \ due : delayed'[q][id] = delayed[q][id] /\ delayed[q][id] \in Nat
      BY <2>1, <3>1
    <3> QED
      BY <2>1, <3>2, <3>3
  <2>3. \A r \in QueueNames : DOMAIN delayed'[r] \subseteq 1..(nextId' - 1) /\ delayed'[r] \in [DOMAIN delayed'[r] -> Nat]
    BY <2>1, <2>2, <1>1 DEF DelayedTyped
  <2> QED
    BY <2>1, <2>2, <2>3 DEF DelayedTyped
<1>11. StoreTyped'
  BY <1>1, <1>4, <1>9, <1>10 DEF StoreTyped, HashTyped, history
<1>12. Linked'
  <2>1. \A e \in DOMAIN entries' :
          \/ e \in DOMAIN entries /\ entries'[e].id = entries[e].id /\ entries'[e].queue = entries[e].queue
          \/ /\ entries'[e].id \in 1..(nextId' - 1)
             /\ entries'[e].id \in DOMAIN hash' => entries'[e].queue = hash'[entries'[e].id].queue
    BY <1>3, <1>6, <1>8
  <2>2. \A r \in QueueNames : \A id \in DOMAIN delayed'[r] : id \in DOMAIN delayed[r]
    BY <1>10
  <2>3. nextId' \in Nat /\ nextId' >= nextId
    BY <1>1
  <2> QED
    BY <2>1, <2>2, <2>3, <1>1, LinkedStep
<1>13. NoOrphan'
  <2>1. \A id \in live : Findable(id)'
    <3> SUFFICES ASSUME NEW id \in live PROVE Findable(id)'
      OBVIOUS
    <3>1. PICK e \in new : entries'[e] = Entry(q, hash[id].level, id)
      BY <1>3
    <3>2. e \in DOMAIN entries' /\ entries'[e].id = id /\ entries'[e].queue = q /\ hash'[id].queue = q
      BY <3>1, <1>3, <1>6, <1>7
    <3> QED
      BY <3>2 DEF Findable
  <2>2. \A id \in DOMAIN hash' \ (DOMAIN failedSet' \cup live) : StaysPut(id)
    <3> SUFFICES ASSUME NEW id \in DOMAIN hash \ (DOMAIN failedSet \cup live) PROVE StaysPut(id)
      OBVIOUS
    <3>1. \A r \in QueueNames : id \in DOMAIN delayed[r] => id \in DOMAIN delayed'[r]
      BY <1>2, <1>10
    <3>2. \A e \in DOMAIN entries : e \in DOMAIN entries' /\ entries'[e] = entries[e]
      BY <1>3
    <3> QED
      BY <3>1, <3>2 DEF StaysPut
  <2> QED
    BY <2>1, <2>2, <1>1, OrphanStep DEF StoreInv
<1>14. FailedKeyless' /\ NoJobLost' /\ KeyOwner' /\ AttemptBudget'
  BY DEF StoreInv, FailedKeyless, NoJobLost, KeyOwner, AttemptBudget, history
<1>15. Moves
  BY <1>1, <1>3, <1>4, <1>5 DEF Moves
<1> QED
  BY <1>11, <1>12, <1>13, <1>14, <1>15 DEF StoreInv

-----------------------------------------------------------------------------
(* What the steps do to the workers *)

\* Nobody else is touched, and w has nothing in its hands afterwards.
EmptyHanded(w) ==
  /\ finished' = finished /\ pc'[w] \notin Holding
  /\ \A v \in Workers \ {w} : pc'[v] = pc[v] /\ job'[v] = job[v] /\ plan'[v] = plan[v]

LEMMA EmptyHandedFrame ==
  ASSUME NEW w \in Workers, EmptyHanded(w)
  PROVE  NoNewHolder /\ PlansKept
<1>1. "settle" \in Holding
  BY DEF Holding
<1> QED
  BY <1>1 DEF EmptyHanded, NoNewHolder, PlansKept

LEMMA IdleFrame == ASSUME UNCHANGED workerVars PROVE NoNewHolder /\ PlansKept
BY DEF workerVars, NoNewHolder, PlansKept

LEMMA MovesEmptyHanded ==
  ASSUME WorkerInv, NEW w \in Workers,
         Quit(w) \/ CallReserve(w) \/ Rest(w) \/ Restart(w) \/ ReserveReturnsNone(w) \/ ReserveRaises(w)
         \/ Crash(w) \/ Settled(w)
  PROVE  EmptyHanded(w)
<1>1. pc \in [Workers -> Places] /\ job \in [Workers -> Job \cup {NoJob}] /\ plan \in [Workers -> Plan]
  BY DEF WorkerInv, WorkerTypeOK
<1>2. CASE Quit(w) \/ CallReserve(w) \/ Rest(w) \/ Restart(w)
  BY <1>1, <1>2 DEF Quit, CallReserve, Rest, Restart, Goto, EmptyHanded, Holding
<1>3. CASE ReserveReturnsNone(w) \/ ReserveRaises(w) \/ Crash(w)
  BY <1>1, <1>3 DEF ReserveReturnsNone, ReserveRaises, Crash, Goto, EmptyHanded, Holding
<1>4. CASE Settled(w)
  BY <1>1, <1>4 DEF Settled, Goto, EmptyHanded, Holding
<1> QED
  BY <1>2, <1>3, <1>4

\* A handler that returns has finished its payload.
LEMMA RunJobFrame ==
  ASSUME WorkerInv, NEW w \in Workers, RunJob(w)
  PROVE  /\ NoNewHolder /\ PlansKept /\ job' = job
         /\ pc[w] \in {"start", "run"} /\ pc'[w] \in {"run", "settle"} /\ \A v \in Workers \ {w} : pc'[v] = pc[v]
         /\ \A v \in Workers \ {w} : plan'[v] = plan[v]
         /\ (pc'[w] = "settle" /\ plan'[w].op = "fail") => job[w].attempts >= job[w].max
<1>1. pc \in [Workers -> Places] /\ plan \in [Workers -> Plan] /\ "start" \in Holding /\ "run" \in Holding
  BY DEF WorkerInv, WorkerTypeOK, Holding
<1>2. job' = job /\ pc[w] \in {"start", "run"}
  BY DEF RunJob, StartHandler, ResolveFails, HandlerReturns, HandlerReleases, HandlerRaises, HandlerTimesOut,
         HandlerCancelled
<1>3. \/ pc' = [pc EXCEPT ![w] = "run"] /\ plan' = plan /\ finished' = finished
      \/ /\ pc' = [pc EXCEPT ![w] = "settle"]
         /\ \E p \in {"delete", "release", "fail"} : \E d, t :
              /\ plan' = [plan EXCEPT ![w] = [op |-> p, delay |-> d, then |-> t]]
              /\ IF p = "delete" THEN finished' = finished \cup {job[w].payload} ELSE finished' = finished
              /\ p = "fail" => job[w].attempts >= job[w].max
  <2>1. CASE StartHandler(w)
    BY <2>1 DEF StartHandler, Goto
  <2>2. CASE HandlerReturns(w)
    BY <2>2 DEF HandlerReturns, EndWith, Goto
  <2>3. CASE HandlerReleases(w) \/ HandlerCancelled(w)
    BY <2>3 DEF HandlerReleases, HandlerCancelled, EndWith, Goto
  <2>4. CASE ResolveFails(w) \/ HandlerRaises(w) \/ HandlerTimesOut(w)
    <3>1. JobFailed(w) /\ finished' = finished
      BY <2>4 DEF ResolveFails, HandlerRaises, HandlerTimesOut
    <3>2. CASE IsLastAttempt(job[w])
      BY <3>1, <3>2 DEF JobFailed, EndWith, Goto, IsLastAttempt
    <3>3. CASE ~IsLastAttempt(job[w])
      BY <3>1, <3>3 DEF JobFailed, EndWith, Goto
    <3> QED
      BY <3>2, <3>3
  <2> QED
    BY <2>1, <2>2, <2>3, <2>4 DEF RunJob
<1>4. /\ pc'[w] \in {"run", "settle"} /\ finished \subseteq finished'
      /\ \A v \in Workers \ {w} : pc'[v] = pc[v] /\ plan'[v] = plan[v]
      /\ (pc'[w] = "settle" /\ plan'[w].op = "delete") => job[w].payload \in finished'
      /\ (pc'[w] = "settle" /\ plan'[w].op = "fail") => job[w].attempts >= job[w].max
  BY <1>1, <1>3
<1> QED
  BY <1>1, <1>2, <1>4 DEF NoNewHolder, PlansKept

LEMMA FirstQueue == 1 \in 1..Len(Queues)
BY RedisAssumption DEF RedisAssumption

LEMMA ScanRecords ==
  ASSUME NEW q \in 1..Len(Queues), NEW m \in Nat
  PROVE  NoScan \in ScanRecord /\ [NoScan EXCEPT !.q = q, !.moment = m] \in ScanRecord
         /\ [NoScan EXCEPT !.q = q] \in ScanRecord
BY FirstQueue DEF NoScan, ScanRecord

LEMMA SendType ==
  ASSUME WorkerInv, ScanTyped, NEW w \in Workers, NEW q \in 1..Len(Queues), Send(w, q)
  PROVE  scan' \in [Workers -> ScanRecord]
BY ScanRecords, NowUtcType DEF Send, ScanTyped

LEMMA NextQueueDoes ==
  ASSUME WorkerInv, ScanTyped, NEW w \in Workers, pc[w] # "exit1", now' = now, NextQueue(w)
  PROVE  WorkerInv' /\ scan' \in [Workers -> ScanRecord] /\ EmptyHanded(w)
<1>1. scan[w].q \in 1..Len(Queues) /\ Queues \in Seq(STRING)
  BY RedisAssumption DEF ScanTyped, ScanRecord, RedisAssumption
<1>2. CASE scan[w].q < Len(Queues)
  <2>1. scan[w].q + 1 \in 1..Len(Queues)
    BY <1>1, <1>2
  <2>2. /\ Send(w, scan[w].q + 1) /\ Goto(w, "reserve") /\ job' = [job EXCEPT ![w] = NoJob]
        /\ UNCHANGED <<plan, deadline, failures, done, started, signals, faults, finished>>
    BY <1>2 DEF NextQueue
  <2>3. scan' \in [Workers -> ScanRecord]
    BY <2>1, <2>2, SendType
  <2>4. WorkerInv'
    BY <2>2, KeepLookingInv
  <2>5. EmptyHanded(w)
    BY <2>2 DEF WorkerInv, WorkerTypeOK, Goto, EmptyHanded, Holding
  <2> QED
    BY <2>3, <2>4, <2>5
<1>3. CASE ~(scan[w].q < Len(Queues))
  <2>1. scan' = [scan EXCEPT ![w] = NoScan] /\ ReserveReturnsNone(w)
    BY <1>3 DEF NextQueue
  <2>2. scan' \in [Workers -> ScanRecord]
    BY <2>1, FirstQueue, ScanRecords DEF ScanTyped
  <2> QED
    BY <2>1, <2>2, ReserveReturnsNoneInv, MovesEmptyHanded
<1> QED
  BY <1>2, <1>3

-----------------------------------------------------------------------------
(* Every step keeps the first half of the invariant *)

LEMMA Assemble ==
  ASSUME BaseInv, WorkerInv', ScanTyped', StoreInv', Moves, NoNewHolder, PlansKept
  PROVE  BaseInv'
<1>1. TokenInv'
  BY TokensStay DEF BaseInv, StoreInv
<1> QED
  BY <1>1 DEF BaseInv

\* No script runs after the step.
LEMMA FreeScan ==
  ASSUME scan' \in [Workers -> ScanRecord], script' = NoOne, batch' \in [Admins -> [op: {"retry", "forget"}, ids: SUBSET Nat]]
  PROVE  ScanTyped'
BY RedisAssumption DEF RedisAssumption, ScanTyped

LEMMA PushBase ==
  ASSUME BaseInv, script = NoOne, Push
  PROVE  BaseInv'
<1>1. WorkerInv /\ ScanTyped /\ StoreInv /\ UNCHANGED <<now, workerVars, scan, script, batch, forgotten>>
  BY DEF BaseInv, Push
<1>2. finished' = finished /\ WorkerInv' /\ ScanTyped'
  BY <1>1 DEF workerVars, WorkerInv, WorkerTypeOK, GivesUp, ScanTyped
<1>3. PICK p \in Payloads \ pushed, q \in QueueNames, level \in Levels, delay \in Delays,
           max \in Budgets, k \in Keys \cup {NoKey} :
        ~(k \in DOMAIN unique /\ unique[k] \in DOMAIN hash) /\ PushNew(p, q, level, delay, max, k)
  BY DEF Push
<1>4. StoreInv' /\ Moves
  BY <1>1, <1>2, <1>3, PushStore
<1> QED
  BY <1>1, <1>2, <1>4, IdleFrame, Assemble

LEMMA TickBase ==
  ASSUME BaseInv, Tick
  PROVE  BaseInv'
<1>1. WorkerInv /\ ScanTyped /\ StoreInv /\ UNCHANGED <<workerVars, store, scan, script, batch, history>> /\ now' = now + 1
  BY DEF BaseInv, Tick
<1>2. WorkerInv' /\ ScanTyped'
  BY <1>1 DEF workerVars, WorkerInv, WorkerTypeOK, GivesUp, ScanTyped
<1>3. StoreInv' /\ Moves
  <2>1. forgotten' = forgotten /\ pushed' = pushed /\ finished' = finished /\ forgotten \subseteq Payloads
    BY <1>1 DEF history, workerVars, StoreInv, StoreTyped
  <2> QED
    BY <1>1, <2>1, QuietStore
<1> QED
  BY <1>1, <1>2, <1>3, IdleFrame, Assemble

\* Steps of one worker that leave the store alone.
LEMMA QuietBase ==
  ASSUME BaseInv, UNCHANGED <<store, history>>, WorkerInv', ScanTyped', NoNewHolder, PlansKept
  PROVE  BaseInv'
<1>1. StoreInv' /\ Moves
  <2>1. forgotten' = forgotten /\ pushed' = pushed /\ finished \subseteq finished' /\ forgotten \subseteq Payloads
    BY DEF history, PlansKept, BaseInv, StoreInv, StoreTyped
  <2> QED
    BY <2>1, QuietStore DEF BaseInv
<1> QED
  BY <1>1, Assemble

LEMMA BatchKept ==
  ASSUME BaseInv
  PROVE  batch \in [Admins -> [op: {"retry", "forget"}, ids: SUBSET Nat]] /\ WorkerInv /\ ScanTyped /\ StoreInv
         /\ scan \in [Workers -> ScanRecord]
BY DEF BaseInv, ScanTyped

LEMMA LoopBase ==
  ASSUME BaseInv, script = NoOne, NEW w \in Workers, LoopStep(w) \/ BeginReserve(w) \/ Fault(w)
  PROVE  BaseInv'
<1>0. /\ WorkerInv /\ ScanTyped
      /\ UNCHANGED <<now, store, script, batch, history>>
  BY DEF BaseInv, LoopStep, BeginReserve, Fault, ReserveError
<1>1. script' = NoOne /\ batch' \in [Admins -> [op: {"retry", "forget"}, ids: SUBSET Nat]]
  BY <1>0, BatchKept
<1>2. NoScan \in ScanRecord
  BY FirstQueue, ScanRecords
<1>3. CASE LoopStep(w)
  <2>1. scan' \in [Workers -> ScanRecord]
    BY <1>3, BatchKept DEF LoopStep
  <2>2. ScanTyped'
    BY <1>1, <2>1, FreeScan
  <2>3. WorkerInv'
    BY <1>0, <1>3, MoveInv, RunJobInv, RestartInv DEF LoopStep
  <2>4. NoNewHolder /\ PlansKept
    BY <1>0, <1>3, MovesEmptyHanded, EmptyHandedFrame, RunJobFrame DEF LoopStep
  <2> QED
    BY <1>0, <2>2, <2>3, <2>4, QuietBase
<1>4. CASE BeginReserve(w)
  <2>1. CallReserve(w) /\ Send(w, 1)
    BY <1>4 DEF BeginReserve
  <2>2. ScanTyped'
    BY <1>0, <1>1, <2>1, FirstQueue, SendType, FreeScan
  <2>3. WorkerInv' /\ NoNewHolder /\ PlansKept
    BY <1>0, <2>1, MoveInv, MovesEmptyHanded, EmptyHandedFrame
  <2> QED
    BY <1>0, <2>2, <2>3, QuietBase
<1>5. CASE ReserveError(w)
  <2>1. scan' \in [Workers -> ScanRecord]
    BY <1>2, <1>5, BatchKept DEF ReserveError
  <2>2. ScanTyped'
    BY <1>1, <2>1, FreeScan
  <2>3. pc[w] # "exit1" /\ ReserveRaises(w)
    BY <1>5 DEF ReserveError
  <2>4. WorkerInv' /\ NoNewHolder /\ PlansKept
    BY <1>0, <2>3, ReserveRaisesInv, MovesEmptyHanded, EmptyHandedFrame
  <2> QED
    BY <1>0, <2>2, <2>4, QuietBase
<1>6. CASE Signal(w) /\ scan' = scan
  <2>1. ScanTyped'
    BY <1>1, <1>6, BatchKept, FreeScan
  <2>2. NoNewHolder /\ PlansKept
    BY <1>6 DEF Signal, NoNewHolder, PlansKept
  <2> QED
    BY <1>0, <1>6, <2>1, <2>2, SignalInv, QuietBase
<1>7. CASE Crash(w) /\ scan' = [scan EXCEPT ![w] = NoScan]
  <2>1. scan' \in [Workers -> ScanRecord]
    BY <1>2, <1>7, BatchKept
  <2>2. ScanTyped'
    BY <1>1, <2>1, FreeScan
  <2>3. NoNewHolder /\ PlansKept
    BY <1>0, <1>7, MovesEmptyHanded, EmptyHandedFrame
  <2> QED
    BY <1>0, <1>7, <2>2, <2>3, CrashInv, QuietBase
<1> QED
  BY <1>3, <1>4, <1>5, <1>6, <1>7 DEF Fault

\* A script turns to other levels.
LEMMA ScanTodoTyped ==
  ASSUME scan \in [Workers -> ScanRecord], NEW w \in Workers, NEW todo \in SUBSET Levels
  PROVE  [scan EXCEPT ![w].todo = todo, ![w].round = 1] \in [Workers -> ScanRecord]
<1>1. PICK x \in ScanRecord : x = scan[w]
  OBVIOUS
<1>2. [x EXCEPT !.todo = todo, !.round = 1] \in ScanRecord
  BY DEF ScanRecord
<1>3. [scan EXCEPT ![w].todo = todo, ![w].round = 1] = [scan EXCEPT ![w] = [x EXCEPT !.todo = todo, !.round = 1]]
  BY <1>1 DEF ScanRecord
<1> QED
  BY <1>2, <1>3

LEMMA StartScriptBase ==
  ASSUME BaseInv, script = NoOne, NEW w \in Workers, StartScript(w)
  PROVE  BaseInv'
<1>1. WorkerInv /\ ScanTyped /\ StoreInv /\ UNCHANGED <<now, workerVars, hash, unique, failedSet, nextId, batch, history>>
  BY DEF BaseInv, StartScript
<1>2. WorkerInv' /\ NoNewHolder /\ PlansKept /\ finished' = finished
  BY <1>1, IdleFrame DEF workerVars, WorkerInv, WorkerTypeOK, GivesUp
<1>3. StoreInv' /\ Moves
  <2>1. /\ entries' = Promoted(w) /\ nextEntry' = nextEntry + Cardinality(LiveDue(w))
        /\ delayed' = [delayed EXCEPT ![Scanned(w)] = [id \in DOMAIN @ \ Due(w) |-> @[id]]]
    BY DEF StartScript, LiveDue, Scanned
  <2> QED
    BY <1>1, <1>2, <2>1, PromoteStore
<1>4. ScanTyped'
  <2> DEFINE levels == {entries'[e].level : e \in {d \in DOMAIN entries' : entries'[d].queue = Queues[scan[w].q]}}
  <2>1. levels \subseteq Levels
    <3>1. \A e \in DOMAIN entries' : entries'[e].level \in Levels
      BY <1>3 DEF StoreInv, StoreTyped, EntriesTyped, StreamEntry
    <3> QED
      BY <3>1
  <2>2. scan' = [scan EXCEPT ![w].todo = levels, ![w].round = 1]
    BY DEF StartScript
  <2> HIDE DEF levels
  <2>3. scan' \in [Workers -> ScanRecord]
    BY <1>1, <2>1, <2>2, ScanTodoTyped DEF ScanTyped
  <2>4. script' = w /\ pc'[w] = "reserve" /\ batch' = batch
    BY <1>1 DEF StartScript, workerVars
  <2> QED
    BY <1>1, <2>3, <2>4 DEF ScanTyped
<1> QED
  BY <1>2, <1>3, <1>4, Assemble

\* The rounds of a script that hand out nothing.
LEMMA RoundScan ==
  ASSUME ScanTyped, NEW w \in Workers, NextLevel(w) \/ NextRound(w), UNCHANGED <<script, batch, pc>>
  PROVE  ScanTyped'
<1>1. scan[w].todo \ {Level(w)} \in SUBSET Levels /\ scan[w].round + 1 \in Nat
  BY DEF ScanTyped, ScanRecord
<1>2. \/ scan' = [scan EXCEPT ![w].todo = @ \ {Level(w)}, ![w].round = 1]
      \/ scan' = [scan EXCEPT ![w].round = @ + 1]
  BY DEF NextLevel, NextRound
<1>3. scan' \in [Workers -> ScanRecord]
  <2>1. CASE scan' = [scan EXCEPT ![w].round = @ + 1]
    BY <1>1, <2>1 DEF ScanTyped, ScanRecord
  <2>2. CASE scan' = [scan EXCEPT ![w].todo = @ \ {Level(w)}, ![w].round = 1]
    <3> DEFINE t == scan[w].todo \ {Level(w)}
    <3>1. scan' = [scan EXCEPT ![w].todo = t, ![w].round = 1] /\ t \in SUBSET Levels
      BY <1>1, <2>2
    <3> HIDE DEF t
    <3> QED
      BY <3>1, ScanTodoTyped DEF ScanTyped
  <2> QED
    BY <1>2, <2>1, <2>2
<1> QED
  BY <1>3 DEF ScanTyped

LEMMA RoundBase ==
  ASSUME BaseInv, NEW w \in Workers, NothingTaken(w) \/ DropTombstone(w) \/ Park(w) \/ Exhaust(w)
  PROVE  BaseInv'
<1>1. /\ WorkerInv /\ ScanTyped /\ StoreInv /\ UNCHANGED <<now, workerVars, nextId, nextEntry, script, batch, history>>
      /\ NextLevel(w) \/ NextRound(w)
  BY DEF BaseInv, NothingTaken, DropTombstone, Park, Exhaust, ScriptOnly, store
<1>2. WorkerInv' /\ NoNewHolder /\ PlansKept /\ finished' = finished
  BY <1>1, IdleFrame DEF workerVars, WorkerInv, WorkerTypeOK, GivesUp
<1>3. ScanTyped'
  BY <1>1, RoundScan DEF workerVars
<1>4. StoreInv' /\ Moves
  <2>1. CASE NothingTaken(w)
    <3>1. UNCHANGED store /\ pushed' = pushed /\ forgotten' = forgotten /\ forgotten \subseteq Payloads
      BY <2>1, <1>1 DEF NothingTaken, history, StoreInv, StoreTyped
    <3> QED
      BY <3>1, <1>1, <1>2, QuietStore
  <2>2. CASE DropTombstone(w)
    <3>1. PICK e \in DOMAIN entries : entries[e].id \notin DOMAIN hash /\ entries' = Drop(entries, e)
      BY <2>2 DEF DropTombstone, InStream
    <3>2. UNCHANGED <<hash, delayed, unique, failedSet>>
      BY <2>2 DEF DropTombstone, ScriptOnly
    <3> QED
      BY <3>1, <3>2, <1>1, <1>2, TombstoneStore
  <2>3. CASE Park(w)
    <3>1. PICK e \in DOMAIN entries :
            /\ entries[e].id \in DOMAIN hash /\ entries' = Drop(entries, e) /\ entries[e].queue = Queues[scan[w].q]
            /\ delayed' = [delayed EXCEPT ![Queues[scan[w].q]] = Put(@, entries[e].id, hash[entries[e].id].until)]
      BY <2>3 DEF Park, InStream
    <3>2. UNCHANGED <<hash, unique, failedSet>>
      BY <2>3 DEF Park, ScriptOnly
    <3>3. PICK id \in DOMAIN hash : id = entries[e].id
      BY <3>1
    <3>4. PICK q : q = entries[e].queue
      OBVIOUS
    <3>5. PICK t : t = hash[id].until
      OBVIOUS
    <3>6. delayed' = [delayed EXCEPT ![q] = Put(@, id, t)]
      BY <3>1, <3>3, <3>4, <3>5
    <3>7. /\ StoreInv /\ entries' = Drop(entries, e)
          /\ UNCHANGED <<hash, unique, failedSet, nextId, nextEntry, history, finished>>
      BY <3>1, <3>2, <1>1, <1>2
    <3> QED
      BY <3>3, <3>4, <3>5, <3>6, <3>7, ParkStore
  <2>4. CASE Exhaust(w)
    <3>1. PICK e \in DOMAIN entries :
            entries[e].id \in DOMAIN hash /\ entries' = Drop(entries, e) /\ FailHash(entries[e].id, scan[w].moment)
      BY <2>4 DEF Exhaust, InStream
    <3>2. PICK id \in DOMAIN hash : id = entries[e].id
      BY <3>1
    <3>3. LessOf(id) /\ FailHash(id, scan[w].moment)
      BY <3>1, <3>2, <1>1, DropLess
    <3>4. delayed' = delayed
      BY <2>4 DEF Exhaust
    <3> QED
      BY <3>3, <3>4, <1>1, <1>2, FailStore
  <2> QED
    BY <2>1, <2>2, <2>3, <2>4
<1> QED
  BY <1>2, <1>3, <1>4, Assemble

LEMMA NilBase ==
  ASSUME BaseInv, NEW w \in Workers, ScriptReturnsNil(w)
  PROVE  BaseInv'
<1>1. /\ WorkerInv /\ ScanTyped /\ UNCHANGED <<now, store, batch, history>> /\ script' = NoOne /\ NextQueue(w)
      /\ pc[w] = "reserve" /\ now' = now
  BY DEF BaseInv, ScanTyped, ScriptReturnsNil
<1>2. WorkerInv' /\ scan' \in [Workers -> ScanRecord] /\ EmptyHanded(w)
  BY <1>1, NextQueueDoes
<1>3. ScanTyped'
  BY <1>1, <1>2, BatchKept, FreeScan
<1> QED
  BY <1>1, <1>2, <1>3, EmptyHandedFrame, QuietBase

\* _COMPLETE, _RELEASE and _FAIL for the job in w's hands, if it still holds it.
LEMMA SettleStore ==
  ASSUME BaseInv, NEW w \in Workers, pc[w] = "settle" \/ pc[w] = "discard", Held(job[w]),
         \/ pc[w] = "settle" /\ plan[w].op = "delete" /\ Complete(job[w])
         \/ \E t \in Nat : Release(job[w], t)
         \/ \E t : Fail(job[w], t),
         UNCHANGED <<history, finished>>
  PROVE  StoreInv' /\ Moves
<1>1. StoreInv /\ Remembers(w) /\ job[w].id \in DOMAIN hash /\ hash[job[w].id].payload = job[w].payload
  BY DEF BaseInv, TokenInv, Holding, Held, Remembers
<1>2. PICK id \in DOMAIN hash : id = job[w].id
  BY <1>1
<1>3. AckDel(job[w]) /\ nextEntry' = nextEntry /\ nextId' = nextId
  BY DEF Complete, Release, Fail
<1>4. LessOf(id)
  BY <1>1, <1>2, <1>3, AckDelLess
<1>5. CASE pc[w] = "settle" /\ plan[w].op = "delete" /\ Complete(job[w])
  <2>1. hash[id].payload \in finished
    BY <1>1, <1>2, <1>5 DEF BaseInv, TokenInv
  <2>2. /\ unique' = IF hash[id].key = NoKey THEN unique ELSE Drop(unique, hash[id].key)
        /\ hash' = Drop(hash, id) /\ UNCHANGED <<delayed, failedSet>>
    BY <1>2, <1>5 DEF Complete
  <2> QED
    BY <1>1, <1>3, <1>4, <2>1, <2>2, CompleteStore
<1>6. ASSUME NEW t \in Nat, Release(job[w], t) PROVE StoreInv' /\ Moves
  <2>1. PICK q : q = hash[id].queue
    OBVIOUS
  <2>2. /\ delayed' = [delayed EXCEPT ![q] = Put(@, id, t)]
        /\ hash' = [hash EXCEPT ![id].until = 0, ![id].by = NoOne] /\ UNCHANGED <<unique, failedSet>>
    BY <1>2, <1>6, <2>1 DEF Release
  <2> QED
    BY <1>1, <1>3, <1>4, <2>1, <2>2, ReleaseStore
<1>7. ASSUME NEW t, Fail(job[w], t) PROVE StoreInv' /\ Moves
  <2>1. FailHash(id, t) /\ delayed' = delayed
    BY <1>2, <1>7 DEF Fail
  <2> QED
    BY <1>1, <1>3, <1>4, <2>1, FailStore
<1> QED
  BY <1>5, <1>6, <1>7

LEMMA SettleBase ==
  ASSUME BaseInv, script = NoOne, NEW w \in Workers, Settle(w) \/ Discard(w)
  PROVE  BaseInv'
<1>1. WorkerInv /\ ScanTyped /\ StoreInv /\ UNCHANGED <<now, script, batch, history>>
  BY DEF BaseInv, Settle, Discard
<1>2. WorkerInv' /\ scan' \in [Workers -> ScanRecord] /\ EmptyHanded(w)
  <2>1. CASE Settle(w)
    BY <1>1, <2>1, SettledInv, MovesEmptyHanded, BatchKept DEF Settle
  <2>2. CASE Discard(w)
    BY <1>1, <2>2, NextQueueDoes DEF Discard
  <2> QED
    BY <2>1, <2>2
<1>3. ScanTyped'
  BY <1>1, <1>2, BatchKept, FreeScan
<1>4. StoreInv' /\ Moves
  <2>1. finished' = finished /\ pushed' = pushed /\ forgotten' = forgotten /\ forgotten \subseteq Payloads
    BY <1>1, <1>2 DEF EmptyHanded, history, StoreInv, StoreTyped
  <2>2. CASE UNCHANGED store
    BY <1>1, <2>1, <2>2, QuietStore
  <2>3. CASE ~UNCHANGED store
    <3>1. CASE Settle(w)
      <4>1. /\ pc[w] = "settle" /\ Held(job[w])
            /\ \/ plan[w].op = "delete" /\ Complete(job[w])
               \/ plan[w].op = "release" /\ Release(job[w], NowUtc(w) + plan[w].delay)
               \/ plan[w].op = "fail" /\ Fail(job[w], NowUtc(w))
        <5>1. plan[w].op \in {"delete", "release", "fail"}
          BY <1>1 DEF WorkerInv, WorkerTypeOK, Plan
        <5> QED
          BY <2>3, <3>1, <5>1 DEF Settle
      <4>2. NowUtc(w) + plan[w].delay \in Nat
        <5>1. plan[w].delay \in Nat /\ NowUtc(w) \in Nat
          BY <1>1, NowUtcType DEF WorkerInv, WorkerTypeOK, Plan
        <5> QED
          BY <5>1
      <4> QED
        BY <1>1, <2>1, <4>1, <4>2, SettleStore
    <3>2. CASE Discard(w)
      <4>1. pc[w] = "discard" /\ Held(job[w]) /\ Fail(job[w], NowUtc(w))
        BY <2>3, <3>2 DEF Discard
      <4> QED
        BY <1>1, <2>1, <4>1, SettleStore
    <3> QED
      BY <3>1, <3>2
  <2> QED
    BY <2>2, <2>3
<1> QED
  BY <1>2, <1>3, <1>4, EmptyHandedFrame, Assemble

LEMMA AdminBase ==
  ASSUME BaseInv, script = NoOne, NEW a \in Admins, Admin(a)
  PROVE  BaseInv'
<1>1. /\ WorkerInv /\ ScanTyped /\ StoreInv /\ UNCHANGED <<now, workerVars, scan, script>>
      /\ scan \in [Workers -> ScanRecord] /\ batch \in [Admins -> [op: {"retry", "forget"}, ids: SUBSET Nat]]
  BY BatchKept DEF Admin, AdminSelect, AdminSelectBefore, AdminStep, AdminInterrupted
<1>2. WorkerInv' /\ NoNewHolder /\ PlansKept /\ finished' = finished
  BY <1>1, IdleFrame DEF workerVars, WorkerInv, WorkerTypeOK, GivesUp
<1>3. batch' \in [Admins -> [op: {"retry", "forget"}, ids: SUBSET Nat]]
  <2>1. DOMAIN failedSet \subseteq Nat /\ 1..(nextId - 1) \subseteq Nat
    BY <1>1 DEF StoreInv, StoreTyped
  <2>2. CASE AdminSelect(a)
    <3>1. PICK op \in {"retry", "forget"}, ids \in {DOMAIN failedSet} \cup {{i} : i \in 1..(nextId - 1)} :
            batch' = [batch EXCEPT ![a] = [op |-> op, ids |-> ids]]
      BY <2>2 DEF AdminSelect
    <3>2. ids \in SUBSET Nat
      BY <2>1
    <3> QED
      BY <1>1, <3>1, <3>2
  <2>3. CASE AdminSelectBefore(a)
    <3>1. PICK before : batch' = [batch EXCEPT ![a] = [op |-> "forget", ids |-> {i \in DOMAIN failedSet : failedSet[i] < before}]]
      BY <2>3 DEF AdminSelectBefore
    <3> DEFINE ids == {i \in DOMAIN failedSet : failedSet[i] < before}
    <3>2. ids \in SUBSET Nat
      BY <2>1
    <3> HIDE DEF ids
    <3>3. batch' = [batch EXCEPT ![a] = [op |-> "forget", ids |-> ids]]
      BY <3>1 DEF ids
    <3> QED
      BY <1>1, <3>2, <3>3
  <2>4. CASE AdminStep(a) \/ AdminInterrupted(a)
    <3>1. PICK ids : batch' = [batch EXCEPT ![a].ids = ids] /\ (ids = {} \/ \E id : ids = batch[a].ids \ {id})
      BY <2>4 DEF AdminStep, AdminInterrupted
    <3>2. ids \in SUBSET Nat
      BY <1>1, <3>1
    <3>3. batch' = [batch EXCEPT ![a].ids = ids]
      BY <3>1
    <3> QED
      BY <1>1, <3>2, <3>3
  <2> QED
    BY <2>2, <2>3, <2>4 DEF Admin
<1>4. ScanTyped'
  BY <1>1, <1>3, FreeScan
<1>5. StoreInv' /\ Moves
  <2>1. forgotten \subseteq Payloads
    BY <1>1 DEF StoreInv, StoreTyped
  <2>2. CASE AdminSelect(a) \/ AdminSelectBefore(a) \/ AdminInterrupted(a)
    <3>1. UNCHANGED store /\ pushed' = pushed /\ forgotten' = forgotten
      BY <2>2 DEF AdminSelect, AdminSelectBefore, AdminInterrupted, history
    <3> QED
      BY <3>1, <2>1, <1>1, <1>2, QuietStore
  <2>3. CASE AdminStep(a)
    <3>1. PICK id \in batch[a].ids :
            CASE id \notin DOMAIN failedSet -> UNCHANGED <<store, forgotten>>
              [] id \in DOMAIN failedSet /\ batch[a].op = "retry" -> Requeue(id)
              [] id \in DOMAIN failedSet /\ batch[a].op = "forget" -> ForgetHash(id)
      BY <2>3 DEF AdminStep
    <3>2. pushed' = pushed /\ batch[a].op \in {"retry", "forget"}
      BY <2>3, <1>1 DEF AdminStep
    <3>3. \/ UNCHANGED <<store, forgotten>>
          \/ id \in DOMAIN failedSet /\ Requeue(id)
          \/ id \in DOMAIN failedSet /\ ForgetHash(id)
      BY <3>1, <3>2
    <3> QED
      BY <3>2, <3>3, <2>1, <1>1, <1>2, QuietStore, RequeueStore, ForgetStore
  <2> QED
    BY <2>2, <2>3 DEF Admin
<1> QED
  BY <1>2, <1>4, <1>5, Assemble

\* A claim, seen from the worker: what it now remembers.
ClaimedAs(w, e, id, j) ==
  /\ id = entries[e].id /\ ~OutOfAttempts(id) /\ ClaimHash(id, w) /\ entries' = [entries EXCEPT ![e].since = now]
  /\ j.id = id /\ j.payload = hash[id].payload /\ j.attempts = hash[id].attempts + 1 /\ j.max = hash[id].max
  /\ j.by = WorkerId[w] /\ j.handle = e
  /\ job' = [job EXCEPT ![w] = j]
  /\ pc' = [pc EXCEPT ![w] = IF j.payload \in Undecodable THEN "discard" ELSE "start"]

LEMMA ClaimDoes ==
  ASSUME BaseInv, NEW w \in Workers, Claim(w)
  PROVE  /\ \E e \in DOMAIN entries, id \in DOMAIN hash, j \in Job : ClaimedAs(w, e, id, j)
         /\ WorkerInv' /\ ScanTyped' /\ pc[w] = "reserve"
         /\ UNCHANGED <<plan, finished, delayed, unique, failedSet, nextId, nextEntry, history>>
<1>1. WorkerInv /\ ScanTyped /\ StoreInv /\ pc[w] = "reserve" /\ HashTyped /\ EntriesTyped
  BY DEF BaseInv, ScanTyped, Claim, InScript, StoreInv, StoreTyped
<1>2. PICK e \in DOMAIN entries :
        LET id == entries[e].id
            j  == [id |-> id, payload |-> hash[id].payload, attempts |-> hash'[id].attempts,
                   max |-> hash[id].max, by |-> WorkerId[w], handle |-> e]
        IN /\ id \in DOMAIN hash /\ ~OutOfAttempts(id)
           /\ ClaimHash(id, w)
           /\ entries' = [entries EXCEPT ![e].since = now]
           /\ IF j.payload \in Undecodable
                THEN /\ job' = [job EXCEPT ![w] = j]
                     /\ Goto(w, "discard")
                     /\ scan' = [scan EXCEPT ![w] = [NoScan EXCEPT !.q = scan[w].q]]
                     /\ UNCHANGED <<plan, deadline, failures, done, started, signals, faults, finished>>
                ELSE ReserveReturns(w, j) /\ scan' = [scan EXCEPT ![w] = NoScan]
  BY DEF Claim, InStream
<1>3. PICK id \in DOMAIN hash : id = entries[e].id
  BY <1>2
<1>4. hash'[id].attempts = hash[id].attempts + 1 /\ hash'[id].attempts \in Nat
  BY <1>1, <1>2, <1>3, ClaimHashDoes DEF Hash
<1> DEFINE k == [id |-> id, payload |-> hash[id].payload, attempts |-> hash'[id].attempts,
                 max |-> hash[id].max, by |-> WorkerId[w], handle |-> e]
<1>5. k \in Job
  <2>1. hash[id] \in Hash /\ id \in Nat /\ e \in Nat
    BY <1>1 DEF HashTyped, EntriesTyped, StoreInv, StoreTyped
  <2> QED
    BY <2>1, <1>4 DEF Hash, Job
<1>6. PICK j \in Job : j = k
  BY <1>5
<1>7. /\ ~OutOfAttempts(id) /\ ClaimHash(id, w) /\ entries' = [entries EXCEPT ![e].since = now]
      /\ IF j.payload \in Undecodable
           THEN /\ job' = [job EXCEPT ![w] = j]
                /\ Goto(w, "discard")
                /\ scan' = [scan EXCEPT ![w] = [NoScan EXCEPT !.q = scan[w].q]]
                /\ UNCHANGED <<plan, deadline, failures, done, started, signals, faults, finished>>
           ELSE ReserveReturns(w, j) /\ scan' = [scan EXCEPT ![w] = NoScan]
  BY <1>2, <1>3, <1>6
<1>8. /\ j.id = id /\ j.payload = hash[id].payload /\ j.attempts = hash[id].attempts + 1 /\ j.max = hash[id].max
      /\ j.by = WorkerId[w] /\ j.handle = e
  BY <1>4, <1>6
<1> HIDE DEF k
<1>9. /\ job' = [job EXCEPT ![w] = j]
      /\ pc' = [pc EXCEPT ![w] = IF j.payload \in Undecodable THEN "discard" ELSE "start"]
      /\ UNCHANGED <<plan, finished>>
  BY <1>7 DEF ReserveReturns, Goto
<1>10. WorkerInv'
  <2>1. now' = now
    BY DEF Claim
  <2>2. CASE j.payload \in Undecodable
    BY <1>1, <1>7, <2>1, <2>2, KeepLookingInv
  <2>3. CASE j.payload \notin Undecodable
    BY <1>1, <1>7, <2>1, <2>3, ReserveReturnsInv
  <2> QED
    BY <2>2, <2>3
<1>11. ScanTyped'
  <2>1. scan[w].q \in 1..Len(Queues) /\ scan \in [Workers -> ScanRecord]
    BY <1>1 DEF ScanTyped, ScanRecord
  <2>2. NoScan \in ScanRecord /\ [NoScan EXCEPT !.q = scan[w].q] \in ScanRecord
    BY <2>1, ScanRecords
  <2>3. scan' \in [Workers -> ScanRecord]
    BY <1>7, <2>1, <2>2
  <2>4. script' = NoOne /\ batch' = batch
    BY DEF Claim
  <2> QED
    BY <2>3, <2>4, BatchKept, FreeScan
<1>12. UNCHANGED <<delayed, unique, failedSet, nextId, nextEntry, history>>
  BY DEF Claim
<1>13. ClaimedAs(w, e, id, j)
  BY <1>3, <1>7, <1>8, <1>9 DEF ClaimedAs
<1> QED
  BY <1>1, <1>9, <1>10, <1>11, <1>12, <1>13

LEMMA ClaimBase ==
  ASSUME BaseInv, NEW w \in Workers, Claim(w)
  PROVE  BaseInv'
<1>1. /\ WorkerInv' /\ ScanTyped' /\ pc[w] = "reserve"
      /\ UNCHANGED <<plan, finished, delayed, unique, failedSet, nextId, nextEntry, history>>
  BY ClaimDoes
<1>2. PICK e \in DOMAIN entries, id \in DOMAIN hash, j \in Job : ClaimedAs(w, e, id, j)
  BY ClaimDoes
<1>3. StoreInv' /\ Moves
  BY <1>1, <1>2, ClaimStore DEF BaseInv, ClaimedAs
<1>4. TokenInv'
  <2>1. pc \in [Workers -> Places] /\ job \in [Workers -> Job \cup {NoJob}] /\ StoreTyped
    BY DEF BaseInv, WorkerInv, WorkerTypeOK, StoreInv
  <2>2. /\ job'[w] = j /\ pc'[w] \in {"start", "discard"}
        /\ \A v \in Workers \ {w} : pc'[v] = pc[v] /\ job'[v] = job[v]
    BY <1>2, <2>1 DEF ClaimedAs
  <2>3. Remembers(w)'
    <3>1. j.id \in 1..(nextId - 1) /\ j.handle \in 1..(nextEntry - 1)
      BY <1>2, <2>1 DEF ClaimedAs, StoreTyped, HashTyped, EntriesTyped
    <3>2. hash'[id].payload = j.payload /\ entries'[e].id = id
      <4>1. HashTyped /\ ScanTyped /\ ClaimHash(id, w)
        BY <1>2, <2>1 DEF StoreTyped, BaseInv, ClaimedAs
      <4>2. hash'[id].payload = hash[id].payload
        BY <4>1, ClaimHashDoes
      <4> QED
        BY <1>2, <2>1, <4>2 DEF ClaimedAs, StoreTyped, EntriesTyped, StreamEntry
    <3>3. j.id < nextId' /\ j.handle < nextEntry'
      BY <3>1, <1>1, <2>1 DEF StoreTyped
    <3> QED
      BY <1>2, <2>2, <3>2, <3>3 DEF Remembers, ClaimedAs
  <2>4. \A v \in Workers \ {w} : pc'[v] \in Holding => Remembers(v)'
    BY <1>3, <2>1, <2>2, RememberedStays DEF BaseInv, StoreInv
  <2>5. \A v \in Workers : (pc'[v] = "settle" /\ plan'[v].op = "delete") => job'[v].payload \in finished'
    BY <1>1, <2>2 DEF BaseInv, TokenInv
  <2> QED
    BY <2>2, <2>3, <2>4, <2>5 DEF TokenInv
<1> QED
  BY <1>1, <1>3, <1>4 DEF BaseInv

LEMMA BaseStep ==
  ASSUME BaseInv, [Next]_vars
  PROVE  BaseInv'
<1>1. ASSUME NEW w \in Workers, ScriptStep(w) PROVE BaseInv'
  BY <1>1, RoundBase, ClaimBase, NilBase DEF ScriptStep
<1>2. CASE script = NoOne /\ Push
  BY <1>2, PushBase
<1>3. CASE Tick
  BY <1>3, TickBase
<1>4. ASSUME NEW w \in Workers, script = NoOne, ClientStep(w) \/ Fault(w) PROVE BaseInv'
  BY <1>4, LoopBase, StartScriptBase, SettleBase DEF ClientStep
<1>5. ASSUME NEW a \in Admins, script = NoOne, Admin(a) PROVE BaseInv'
  BY <1>5, AdminBase
<1>6. CASE UNCHANGED vars
  <2>1. UNCHANGED <<now, workerVars, store, scan, script, batch, history>>
    BY <1>6 DEF vars
  <2>2. WorkerInv' /\ ScanTyped'
    BY <2>1 DEF BaseInv, workerVars, WorkerInv, WorkerTypeOK, GivesUp, ScanTyped
  <2> QED
    BY <2>1, <2>2, IdleFrame, QuietBase
<1> QED
  BY <1>1, <1>2, <1>3, <1>4, <1>5, <1>6 DEF Next

LEMMA BaseInit == Init => BaseInv
<1> SUFFICES ASSUME Init PROVE BaseInv
  OBVIOUS
<1>1. WorkerInv
  BY WorkerInitInv DEF Init
<1>2. DOMAIN hash = {} /\ DOMAIN entries = {} /\ DOMAIN unique = {} /\ DOMAIN failedSet = {}
  BY DEF Init
<1>3. nextId = 1 /\ nextEntry = 1 /\ pushed = {} /\ forgotten = {}
  BY DEF Init
<1>4. ScanTyped
  <2>1. NoScan \in ScanRecord
    BY FirstQueue, ScanRecords
  <2> QED
    BY <2>1, RedisAssumption DEF Init, ScanTyped, RedisAssumption
<1>5. \A q \in QueueNames : delayed[q] = <<>> /\ DOMAIN delayed[q] = {}
  BY DEF Init
<1>6. StoreTyped
  <2>1. HashTyped /\ EntriesTyped
    BY <1>2 DEF HashTyped, EntriesTyped, Init
  <2>2. DelayedTyped
    BY <1>5 DEF DelayedTyped, Init
  <2> QED
    BY <2>1, <2>2, <1>2, <1>3 DEF StoreTyped
<1>7. StoreInv
  BY <1>2, <1>3, <1>5, <1>6
  DEF StoreInv, Linked, FailedKeyless, NoOrphan, NoJobLost, KeyOwner, AttemptBudget
<1>8. TokenInv
  BY DEF Init, WorkerInit, TokenInv, Holding
<1> QED
  BY <1>1, <1>4, <1>7, <1>8 DEF BaseInv

LEMMA BaseInvariant == Spec => []BaseInv
<1>1. Init => BaseInv
  BY BaseInit
<1>2. BaseInv /\ [Next]_vars => BaseInv'
  BY BaseStep
<1> QED
  BY <1>1, <1>2, PTL DEF Spec

\* Every job that is not failed is in a delayed set or has a stream entry, whatever parks,
\* promotes, releases, takes over or requeues it (driver_redis.py:128-209, 251-258).
THEOREM LiveJobsAreFound == Spec => []NoOrphan
<1>1. BaseInv => NoOrphan
  BY DEF BaseInv, StoreInv
<1> QED
  BY <1>1, BaseInvariant, PTL

\* A unique key and its job point at each other on every path that ends, fails, requeues or
\* forgets a job (driver_redis.py:77-85, 195-199, 237-240, 270-274).
THEOREM KeysHaveOwners == Spec => []KeyOwner
<1>1. BaseInv => KeyOwner
  BY DEF BaseInv, StoreInv
<1> QED
  BY <1>1, BaseInvariant, PTL

-----------------------------------------------------------------------------
(* Claims.  All steps but the claim itself leave every token as it is. *)

\* Holders keep what they hold, and only exhausted jobs come to be failed.
HoldersKept ==
  \A v \in Workers :
    /\ pc'[v] \in Holding => /\ pc[v] \in Holding /\ job'[v] = job[v]
                             /\ pc'[v] = "discard" <=> pc[v] = "discard"
    /\ (pc'[v] = "settle" /\ plan'[v].op = "fail") =>
         (pc[v] = "settle" /\ plan[v].op = "fail") \/ job[v].attempts >= job[v].max

\* A hash keeps its count and its budget, and is put in nobody's name; or an operator
\* requeues it, and then it is in no one's.
SameClaim(id) == /\ hash'[id].attempts = hash[id].attempts /\ hash'[id].max = hash[id].max
                 /\ hash'[id].by = hash[id].by \/ hash'[id].by = NoOne
ClaimsKept ==
  \A id \in DOMAIN hash' :
    id >= nextId \/ (id \in DOMAIN hash /\ (SameClaim(id) \/ (Admins # {} /\ hash'[id].by = NoOne)))

LEMMA TokensKept ==
  ASSUME BaseInv, TokensBounded, TokensUnique, PlanInv, HoldersKept, ClaimsKept
  PROVE  TokensBounded' /\ TokensUnique' /\ PlanInv'
<1>1. \A w \in Workers : WorkerId[w] # NoOne
  BY WorkerAssumption DEF WorkerAssumption
<1>2. TokensBounded'
  <2> SUFFICES ASSUME NEW w \in Workers, pc'[w] \in Holding, job'[w].id \in DOMAIN hash',
                      Admins = {} \/ hash'[job'[w].id].by = WorkerId[w]
               PROVE  job'[w].attempts <= hash'[job'[w].id].attempts /\ job'[w].max = hash'[job'[w].id].max
    BY DEF TokensBounded
  <2>1. pc[w] \in Holding /\ job'[w] = job[w]
    BY DEF HoldersKept
  <2>2. Remembers(w) /\ job[w] \in Job /\ nextId \in Nat
    BY <2>1 DEF BaseInv, TokenInv, WorkerInv, WorkerTypeOK, StoreInv, StoreTyped
  <2>3. PICK id : id = job[w].id
    OBVIOUS
  <2>4. id < nextId /\ id \in Nat
    BY <2>2, <2>3 DEF Remembers, Job
  <2>5. id \in DOMAIN hash /\ (SameClaim(id) \/ (Admins # {} /\ hash'[id].by = NoOne))
    BY <2>1, <2>2, <2>3, <2>4 DEF ClaimsKept
  <2>6. SameClaim(id) /\ (Admins = {} \/ hash[id].by = WorkerId[w])
    BY <2>1, <2>3, <2>5, <1>1 DEF SameClaim
  <2>7. job[w].attempts <= hash[id].attempts /\ job[w].max = hash[id].max
    BY <2>1, <2>3, <2>5, <2>6 DEF TokensBounded
  <2> QED
    BY <2>1, <2>3, <2>6, <2>7 DEF SameClaim
<1>3. TokensUnique'
  BY DEF TokensUnique, HoldersKept
<1>4. PlanInv'
  <2>1. "settle" \in Holding
    BY DEF Holding
  <2>2. \A w \in Workers : (pc'[w] = "settle" /\ plan'[w].op = "fail") => job'[w].attempts >= job'[w].max
    BY <2>1 DEF PlanInv, HoldersKept
  <2>3. \A w \in Workers : pc'[w] \in Holding => (pc'[w] = "discard" <=> job'[w].payload \in Undecodable)
    BY DEF PlanInv, HoldersKept
  <2> QED
    BY <2>2, <2>3 DEF PlanInv
<1> QED
  BY <1>2, <1>3, <1>4

LEMMA FailedStay ==
  ASSUME FailedInv,
         \A id \in DOMAIN failedSet' :
           /\ id \in DOMAIN hash'
           /\ \/ hash'[id].payload \in Undecodable
              \/ hash'[id].by = NoOne /\ hash'[id].attempts >= hash'[id].max
              \/ id \in DOMAIN failedSet /\ hash'[id].payload = hash[id].payload /\ SameClaim(id)
  PROVE  FailedInv'
BY DEF FailedInv, SameClaim

\* Steps that leave the hashes and the failed set alone.
LEMMA QuietClaims ==
  ASSUME BaseInv, ClaimInv, HoldersKept, UNCHANGED <<hash, failedSet>>
  PROVE  ClaimInv'
<1>1. ClaimsKept
  BY DEF ClaimsKept, SameClaim
<1>2. FailedInv'
  BY DEF ClaimInv, FailedInv
<1> QED
  BY <1>1, <1>2, TokensKept DEF ClaimInv

LEMMA EmptyHandedHolders ==
  ASSUME NEW w \in Workers, EmptyHanded(w)
  PROVE  HoldersKept
<1>1. "settle" \in Holding
  BY DEF Holding
<1> QED
  BY <1>1 DEF EmptyHanded, HoldersKept

LEMMA IdleHolders == ASSUME UNCHANGED workerVars PROVE HoldersKept
BY DEF workerVars, HoldersKept

LEMMA LoopClaims ==
  ASSUME BaseInv, ClaimInv, NEW w \in Workers, LoopStep(w) \/ BeginReserve(w) \/ Fault(w)
  PROVE  ClaimInv'
<1>1. UNCHANGED <<hash, failedSet>>
  BY DEF LoopStep, BeginReserve, Fault, ReserveError, store
<1>2. HoldersKept
  <2>1. CASE RunJob(w)
    <3>1. /\ job' = job /\ pc[w] \in {"start", "run"} /\ pc'[w] \in {"run", "settle"}
          /\ \A v \in Workers \ {w} : pc'[v] = pc[v] /\ plan'[v] = plan[v]
          /\ (pc'[w] = "settle" /\ plan'[w].op = "fail") => job[w].attempts >= job[w].max
      BY <2>1, RunJobFrame DEF BaseInv
    <3>2. pc[w] \in Holding
      BY <3>1 DEF Holding
    <3> QED
      BY <3>1, <3>2 DEF HoldersKept
  <2>2. CASE Signal(w)
    BY <2>2 DEF Signal, HoldersKept
  <2>3. CASE Quit(w) \/ CallReserve(w) \/ Rest(w) \/ Restart(w) \/ ReserveRaises(w) \/ Crash(w)
    BY <2>3, MovesEmptyHanded, EmptyHandedHolders DEF BaseInv
  <2> QED
    BY <2>1, <2>2, <2>3 DEF LoopStep, BeginReserve, Fault, ReserveError
<1> QED
  BY <1>1, <1>2, QuietClaims

LEMMA QuietScripts ==
  ASSUME BaseInv, ClaimInv,
         \/ Tick
         \/ \E w \in Workers : StartScript(w) \/ NothingTaken(w) \/ DropTombstone(w) \/ Park(w) \/ ScriptReturnsNil(w)
         \/ UNCHANGED vars
  PROVE  ClaimInv'
<1>1. UNCHANGED <<hash, failedSet>>
  BY DEF Tick, StartScript, NothingTaken, DropTombstone, Park, ScriptReturnsNil, ScriptOnly, store, vars
<1>2. HoldersKept
  <2>1. CASE \E w \in Workers : ScriptReturnsNil(w)
    <3>1. PICK w \in Workers : ScriptReturnsNil(w)
      BY <2>1
    <3>2. WorkerInv /\ ScanTyped /\ pc[w] # "exit1" /\ now' = now /\ NextQueue(w)
      BY <3>1 DEF BaseInv, ScanTyped, ScriptReturnsNil
    <3> QED
      BY <3>2, NextQueueDoes, EmptyHandedHolders
  <2>2. CASE UNCHANGED workerVars
    BY <2>2, IdleHolders
  <2> QED
    BY <2>1, <2>2 DEF Tick, StartScript, NothingTaken, DropTombstone, Park, ScriptOnly, vars
<1> QED
  BY <1>1, <1>2, QuietClaims

LEMMA PushClaims ==
  ASSUME BaseInv, ClaimInv, Push
  PROVE  ClaimInv'
<1>1. HashTyped /\ nextId \in Nat \ {0} /\ DOMAIN failedSet \subseteq 1..(nextId - 1)
  BY DEF BaseInv, StoreInv, StoreTyped
<1>2. DOMAIN hash' = DOMAIN hash \cup {nextId} /\ \A id \in DOMAIN hash : hash'[id] = hash[id]
  <2>1. PICK h : hash' = Put(hash, nextId, h)
    BY DEF Push, PushNew
  <2>2. nextId \notin DOMAIN hash
    BY <1>1 DEF HashTyped
  <2> QED
    BY <2>1, <2>2 DEF Put
<1>3. UNCHANGED <<failedSet, workerVars>>
  BY DEF Push, PushNew
<1>4. ClaimsKept
  BY <1>1, <1>2 DEF ClaimsKept, SameClaim
<1>5. FailedInv'
  BY <1>2, <1>3 DEF ClaimInv, FailedInv
<1> QED
  BY <1>3, <1>4, <1>5, IdleHolders, TokensKept DEF ClaimInv

\* A hash that fails is exhausted or undecodable.
LEMMA FailClaims ==
  ASSUME BaseInv, ClaimInv, HoldersKept, NEW id \in DOMAIN hash, NEW score, FailHash(id, score),
         hash[id].payload \in Undecodable \/ hash[id].attempts >= hash[id].max
  PROVE  ClaimInv'
<1>1. /\ DOMAIN hash' = DOMAIN hash
      /\ \A i \in DOMAIN hash \ {id} : hash'[i] = hash[i]
      /\ hash'[id].by = NoOne
      /\ \A i \in DOMAIN hash : /\ hash'[i].payload = hash[i].payload
                                /\ hash'[i].attempts = hash[i].attempts /\ hash'[i].max = hash[i].max
  BY FailHashDoes DEF BaseInv, StoreInv, StoreTyped
<1>2. DOMAIN failedSet' = DOMAIN failedSet \cup {id}
  BY PutDomain DEF FailHash
<1>3. \A i \in DOMAIN hash : SameClaim(i)
  BY <1>1 DEF SameClaim
<1>4. ClaimsKept
  BY <1>1, <1>3 DEF ClaimsKept
<1>5. FailedInv'
  <2>1. \A i \in DOMAIN failedSet : i \in DOMAIN hash
    BY DEF ClaimInv, FailedInv
  <2>2. \A i \in DOMAIN failedSet' :
           /\ i \in DOMAIN hash'
           /\ \/ hash'[i].payload \in Undecodable
              \/ hash'[i].by = NoOne /\ hash'[i].attempts >= hash'[i].max
              \/ i \in DOMAIN failedSet /\ hash'[i].payload = hash[i].payload /\ SameClaim(i)
    BY <2>1, <1>1, <1>2, <1>3
  <2> QED
    BY <2>2, FailedStay DEF ClaimInv
<1> QED
  BY <1>4, <1>5, TokensKept DEF ClaimInv

LEMMA ExhaustClaims ==
  ASSUME BaseInv, ClaimInv, NEW w \in Workers, Exhaust(w)
  PROVE  ClaimInv'
<1>1. PICK id \in DOMAIN hash : OutOfAttempts(id) /\ FailHash(id, scan[w].moment)
  BY DEF Exhaust, InStream
<1>2. HoldersKept
  BY IdleHolders DEF Exhaust
<1> QED
  BY <1>1, <1>2, FailClaims DEF OutOfAttempts

\* Only the holder of an unfailed job ends it.
LEMMA SettleClaims ==
  ASSUME BaseInv, ClaimInv, NEW w \in Workers, Settle(w) \/ Discard(w)
  PROVE  ClaimInv'
<1>1. WorkerInv /\ ScanTyped /\ now' = now
  BY DEF BaseInv, Settle, Discard
<1>2. HoldersKept
  <2>1. CASE Settle(w)
    BY <1>1, <2>1, MovesEmptyHanded, EmptyHandedHolders DEF Settle
  <2>2. CASE Discard(w)
    BY <1>1, <2>2, NextQueueDoes, EmptyHandedHolders DEF Discard
  <2> QED
    BY <2>1, <2>2
<1>3. CASE UNCHANGED store
  BY <1>2, <1>3, QuietClaims DEF store
<1>4. CASE ~UNCHANGED store
  <2>1. /\ pc[w] \in Holding /\ Held(job[w])
        /\ \/ pc[w] = "settle" /\ plan[w].op = "delete" /\ Complete(job[w])
           \/ pc[w] = "settle" /\ plan[w].op = "release" /\ \E t : Release(job[w], t)
           \/ pc[w] = "settle" /\ plan[w].op = "fail" /\ \E t : Fail(job[w], t)
           \/ pc[w] = "discard" /\ \E t : Fail(job[w], t)
    <3>1. plan[w].op \in {"delete", "release", "fail"}
      BY <1>1 DEF WorkerInv, WorkerTypeOK, Plan
    <3>2. CASE Settle(w)
      BY <1>4, <3>1, <3>2 DEF Settle, Holding
    <3>3. CASE Discard(w)
      BY <1>4, <3>3 DEF Discard, Holding
    <3> QED
      BY <3>2, <3>3
  <2>2. Remembers(w) /\ job[w].id \in DOMAIN hash /\ WorkerId[w] # NoOne
    BY <2>1, WorkerAssumption DEF BaseInv, TokenInv, Held, WorkerAssumption
  <2>3. PICK id \in DOMAIN hash : id = job[w].id
    BY <2>2
  <2>4. /\ hash[id].payload = job[w].payload /\ hash[id].attempts = job[w].attempts
        /\ hash[id].by = WorkerId[w] /\ hash[id].by # NoOne /\ job[w].max = hash[id].max
    BY <2>1, <2>2, <2>3 DEF Remembers, Held, ClaimInv, TokensBounded
  <2>5. pc[w] = "discard" <=> hash[id].payload \in Undecodable
    BY <2>1, <2>4 DEF ClaimInv, PlanInv
  <2>6. HashTyped
    BY DEF BaseInv, StoreInv, StoreTyped
  <2>7. CASE pc[w] = "settle" /\ Complete(job[w])
    <3>1. hash' = Drop(hash, id) /\ failedSet' = failedSet
      BY <2>3, <2>7 DEF Complete
    <3>2. DOMAIN hash' = DOMAIN hash \ {id} /\ \A i \in DOMAIN hash' : hash'[i] = hash[i]
      BY <3>1 DEF Drop
    <3>3. id \notin DOMAIN failedSet
      BY <2>4, <2>5, <2>7 DEF ClaimInv, FailedInv
    <3>4. FailedInv'
      BY <3>1, <3>2, <3>3 DEF ClaimInv, FailedInv
    <3>5. ClaimsKept
      BY <3>2 DEF ClaimsKept, SameClaim
    <3> QED
      BY <1>2, <3>4, <3>5, TokensKept DEF ClaimInv
  <2>8. CASE \E t : Release(job[w], t)
    <3>1. hash' = [hash EXCEPT ![id].until = 0, ![id].by = NoOne] /\ failedSet' = failedSet
      BY <2>3, <2>8 DEF Release
    <3>2. hash \in [DOMAIN hash -> Hash]
      BY <2>6 DEF HashTyped
    <3>3. /\ DOMAIN hash' = DOMAIN hash
          /\ \A i \in DOMAIN hash : /\ hash'[i].payload = hash[i].payload /\ hash'[i].attempts = hash[i].attempts
                                    /\ hash'[i].max = hash[i].max
                                    /\ hash'[i].by = hash[i].by \/ hash'[i].by = NoOne
      BY <3>1, <3>2 DEF Hash
    <3>4. ClaimsKept
      BY <3>3 DEF ClaimsKept, SameClaim
    <3>5. FailedInv'
      BY <3>1, <3>3 DEF ClaimInv, FailedInv
    <3> QED
      BY <1>2, <3>4, <3>5, TokensKept DEF ClaimInv
  <2>9. CASE \E t : Fail(job[w], t) /\ (pc[w] = "discard" \/ (pc[w] = "settle" /\ plan[w].op = "fail"))
    <3>1. PICK t : FailHash(id, t)
      BY <2>3, <2>9 DEF Fail
    <3>2. hash[id].payload \in Undecodable \/ hash[id].attempts >= hash[id].max
      BY <2>4, <2>5, <2>9 DEF ClaimInv, PlanInv
    <3> QED
      BY <1>2, <3>1, <3>2, FailClaims
  <2> QED
    BY <2>1, <2>7, <2>8, <2>9
<1> QED
  BY <1>3, <1>4

LEMMA AdminClaims ==
  ASSUME BaseInv, ClaimInv, NEW a \in Admins, Admin(a)
  PROVE  ClaimInv'
<1>1. HoldersKept /\ HashTyped
  BY IdleHolders
  DEF Admin, AdminSelect, AdminSelectBefore, AdminStep, AdminInterrupted, BaseInv, StoreInv, StoreTyped
<1>2. CASE UNCHANGED <<hash, failedSet>>
  BY <1>1, <1>2, QuietClaims
<1>3. ASSUME NEW id \in DOMAIN failedSet, Requeue(id) PROVE ClaimInv'
  <2>1. id \in DOMAIN hash
    BY DEF ClaimInv, FailedInv
  <2>2. /\ DOMAIN hash' = DOMAIN hash /\ \A i \in DOMAIN hash \ {id} : hash'[i] = hash[i]
        /\ hash'[id].by = NoOne
    BY <1>1, <1>3, <2>1, RequeueHashDoes
  <2>3. DOMAIN failedSet' = DOMAIN failedSet \ {id}
    BY <1>3, DropDomain DEF Requeue
  <2>4. ClaimsKept
    BY <2>2 DEF ClaimsKept, SameClaim
  <2>5. FailedInv'
    BY <2>2, <2>3 DEF ClaimInv, FailedInv
  <2> QED
    BY <1>1, <2>4, <2>5, TokensKept DEF ClaimInv
<1>4. ASSUME NEW id \in DOMAIN failedSet, ForgetHash(id) PROVE ClaimInv'
  <2>1. DOMAIN hash' = DOMAIN hash \ {id} /\ \A i \in DOMAIN hash' : hash'[i] = hash[i]
    BY <1>4 DEF ForgetHash, Drop
  <2>2. DOMAIN failedSet' = DOMAIN failedSet \ {id}
    BY <1>4, DropDomain DEF ForgetHash
  <2>3. ClaimsKept
    BY <2>1 DEF ClaimsKept, SameClaim
  <2>4. FailedInv'
    BY <2>1, <2>2 DEF ClaimInv, FailedInv
  <2> QED
    BY <1>1, <2>3, <2>4, TokensKept DEF ClaimInv
<1>5. CASE AdminStep(a)
  <2>1. batch[a].op \in {"retry", "forget"}
    BY DEF BaseInv, ScanTyped
  <2>2. \/ UNCHANGED <<store, forgotten>>
        \/ \E id \in DOMAIN failedSet : Requeue(id)
        \/ \E id \in DOMAIN failedSet : ForgetHash(id)
    BY <1>5, <2>1 DEF AdminStep
  <2> QED
    BY <1>2, <1>3, <1>4, <2>2 DEF store
<1> QED
  BY <1>2, <1>5 DEF Admin, AdminSelect, AdminSelectBefore, AdminInterrupted, store

\* The claim makes a token nobody has: its count is new, or its name is.
LEMMA ClaimClaims ==
  ASSUME Exclusive, BaseInv, ClaimInv, NEW w \in Workers, Claim(w)
  PROVE  ClaimInv'
<1>1. pc[w] = "reserve" /\ UNCHANGED <<plan, finished, failedSet>>
  BY ClaimDoes
<1>2. PICK e \in DOMAIN entries, id \in DOMAIN hash, j \in Job : ClaimedAs(w, e, id, j)
  BY ClaimDoes
<1>3. /\ DOMAIN hash' = DOMAIN hash
      /\ \A i \in DOMAIN hash \ {id} : hash'[i] = hash[i]
      /\ hash'[id].attempts = hash[id].attempts + 1 /\ hash'[id].by = WorkerId[w]
      /\ \A i \in DOMAIN hash : hash'[i].payload = hash[i].payload /\ hash'[i].max = hash[i].max
  BY <1>2, ClaimHashDoes DEF ClaimedAs, BaseInv, StoreInv, StoreTyped
<1>4. hash[id].attempts \in Nat /\ hash[id].max \in Nat
  BY DEF BaseInv, StoreInv, StoreTyped, HashTyped, Hash
<1>5. /\ pc \in [Workers -> Places] /\ job \in [Workers -> Job \cup {NoJob}]
      /\ \A v \in Workers : pc[v] \in Holding => Remembers(v) /\ job[v] \in Job
  BY DEF BaseInv, WorkerInv, WorkerTypeOK, TokenInv
<1>6. /\ job'[w] = j /\ pc'[w] \in {"start", "discard"} /\ (pc'[w] = "discard" <=> j.payload \in Undecodable)
      /\ \A v \in Workers \ {w} : pc'[v] = pc[v] /\ job'[v] = job[v]
      /\ j.id = id /\ j.attempts = hash[id].attempts + 1 /\ j.max = hash[id].max /\ j.by = WorkerId[w]
  BY <1>2, <1>5 DEF ClaimedAs
<1>7. \A v \in Workers \ {w} :
        (pc[v] \in Holding /\ job[v].id = id /\ (Admins = {} \/ WorkerId[v] = WorkerId[w])) =>
           Admins = {} /\ job[v].attempts <= hash[id].attempts /\ job[v].max = hash[id].max /\ job[v].attempts \in Nat
  BY <1>5 DEF Exclusive, ClaimInv, TokensBounded, Job
<1>8. TokensBounded'
  <2> SUFFICES ASSUME NEW v \in Workers, pc'[v] \in Holding, job'[v].id \in DOMAIN hash',
                      Admins = {} \/ hash'[job'[v].id].by = WorkerId[v]
               PROVE  job'[v].attempts <= hash'[job'[v].id].attempts /\ job'[v].max = hash'[job'[v].id].max
    BY DEF TokensBounded
  <2>1. CASE v = w
    BY <1>3, <1>4, <1>6, <2>1
  <2>2. CASE v # w /\ job[v].id = id
    BY <1>3, <1>4, <1>6, <1>7, <2>2
  <2>3. CASE v # w /\ job[v].id # id
    BY <1>3, <1>6, <2>3 DEF ClaimInv, TokensBounded
  <2> QED
    BY <2>1, <2>2, <2>3
<1>9. TokensUnique'
  <2>1. \A v \in Workers \ {w} :
          pc[v] \in Holding => ~(job[v].id = id /\ job[v].attempts = j.attempts /\ job[v].by = WorkerId[w])
    BY <1>4, <1>5, <1>6, <1>7 DEF Remembers
  <2>2. \A u, v \in Workers \ {w} :
          (/\ pc[u] \in Holding /\ pc[v] \in Holding
           /\ job[u].id = job[v].id /\ job[u].attempts = job[v].attempts /\ job[u].by = job[v].by) => u = v
    BY DEF ClaimInv, TokensUnique
  <2> SUFFICES ASSUME NEW u \in Workers, NEW v \in Workers, pc'[u] \in Holding, pc'[v] \in Holding,
                      job'[u].id = job'[v].id, job'[u].attempts = job'[v].attempts, job'[u].by = job'[v].by
               PROVE  u = v
    BY DEF TokensUnique
  <2>3. CASE u = w \/ v = w
    BY <1>6, <2>1, <2>3
  <2>4. CASE u # w /\ v # w
    BY <1>6, <2>2, <2>4
  <2> QED
    BY <2>3, <2>4
<1>10. PlanInv'
  <2>1. \A v \in Workers : (pc'[v] = "settle" /\ plan'[v].op = "fail") => job'[v].attempts >= job'[v].max
    BY <1>1, <1>6 DEF ClaimInv, PlanInv
  <2>2. \A v \in Workers : pc'[v] \in Holding => (pc'[v] = "discard" <=> job'[v].payload \in Undecodable)
    BY <1>6 DEF ClaimInv, PlanInv
  <2> QED
    BY <2>1, <2>2 DEF PlanInv
<1>11. FailedInv'
  <2>1. \A i \in DOMAIN failedSet \ {id} : i \in DOMAIN hash' /\ hash'[i] = hash[i]
    BY <1>3 DEF ClaimInv, FailedInv
  <2>2. id \in DOMAIN failedSet => hash'[id].payload \in Undecodable
    BY <1>2, <1>3, <1>4 DEF ClaimInv, FailedInv, ClaimedAs, OutOfAttempts
  <2> QED
    BY <1>1, <1>3, <2>1, <2>2 DEF ClaimInv, FailedInv
<1> QED
  BY <1>8, <1>9, <1>10, <1>11 DEF ClaimInv

LEMMA ClaimStep ==
  ASSUME Exclusive, BaseInv, ClaimInv, [Next]_vars
  PROVE  ClaimInv'
<1>1. ASSUME NEW w \in Workers, ScriptStep(w) PROVE ClaimInv'
  BY <1>1, QuietScripts, ExhaustClaims, ClaimClaims DEF ScriptStep
<1>2. CASE Push
  BY <1>2, PushClaims
<1>3. CASE Tick \/ UNCHANGED vars
  BY <1>3, QuietScripts
<1>4. ASSUME NEW w \in Workers, ClientStep(w) \/ Fault(w) PROVE ClaimInv'
  BY <1>4, LoopClaims, QuietScripts, SettleClaims DEF ClientStep
<1>5. ASSUME NEW a \in Admins, Admin(a) PROVE ClaimInv'
  BY <1>5, AdminClaims
<1> QED
  BY <1>1, <1>2, <1>3, <1>4, <1>5 DEF Next

LEMMA ClaimInvariant == ASSUME Exclusive PROVE Spec => [](BaseInv /\ ClaimInv)
<1>1. Init => BaseInv /\ ClaimInv
  <2>1. Init => ClaimInv
    BY DEF Init, WorkerInit, ClaimInv, TokensBounded, TokensUnique, PlanInv, FailedInv, Holding
  <2> QED
    BY <2>1, BaseInit
<1>2. (BaseInv /\ ClaimInv) /\ [Next]_vars => (BaseInv /\ ClaimInv)'
  BY BaseStep, ClaimStep
<1> QED
  BY <1>1, <1>2, PTL DEF Spec

LEMMA InvOneHolder == BaseInv /\ ClaimInv => OneHolder
BY DEF ClaimInv, TokensUnique, OneHolder, HasToken

LEMMA InvFailedAtRest == BaseInv /\ ClaimInv => FailedAtRest
<1> SUFFICES ASSUME BaseInv, ClaimInv, NEW id \in DOMAIN failedSet, NEW w \in Workers,
                    pc[w] \in Holding \ {"discard"}, HasToken(w, id)
             PROVE  FALSE
  BY DEF FailedAtRest, ClaimInv, FailedInv
<1>1. Remembers(w) /\ WorkerId[w] # NoOne
  BY WorkerAssumption DEF BaseInv, TokenInv, WorkerAssumption
<1>2. hash[id].payload \in Undecodable /\ hash[id].payload = job[w].payload
  BY <1>1 DEF ClaimInv, FailedInv, HasToken, Remembers
<1> QED
  BY <1>2 DEF ClaimInv, PlanInv

LEMMA BaseTyped == BaseInv => TypeOK
BY DEF BaseInv, WorkerInv, ScanTyped, StoreInv, StoreTyped, HashTyped, EntriesTyped, DelayedTyped, TypeOK

\* The scripts keep the books together: nothing lost, no budget exceeded, and no failed job in
\* the hands of somebody who runs it, as long as no operator retries jobs of processes that
\* share an id (driver_redis.py:189-202, 264-283).
THEOREM BooksAreKept == ASSUME Exclusive PROVE Spec => []JobsKept
<1>1. BaseInv /\ ClaimInv => JobsKept
  BY BaseTyped, InvFailedAtRest DEF JobsKept, BaseInv, StoreInv
<1> QED
  BY <1>1, ClaimInvariant, PTL

\* Through crashes, lost replies, signals and restarts at most one live process can end a job,
\* and every job can still be found, also when the processes share an id and nobody retries
\* (job.py:26-28).
THEOREM CrashesAreSafe == ASSUME Exclusive PROVE Spec => []CrashSafe
<1>1. BaseInv /\ ClaimInv => CrashSafe
  BY BaseTyped, InvFailedAtRest, InvOneHolder DEF CrashSafe, JobsKept, BaseInv, StoreInv
<1> QED
  BY <1>1, ClaimInvariant, PTL

-----------------------------------------------------------------------------
(* The driver implements JobQueue.  Beyond the claims it takes that a      *)
(* payload has one hash at most, and none once it is forgotten.            *)

OneCopy ==
  /\ forgotten \subseteq pushed
  /\ \A id \in DOMAIN hash : hash[id].payload \in pushed \ forgotten
  /\ \A i, j \in DOMAIN hash : hash[i].payload = hash[j].payload => i = j

AllInv == BaseInv /\ ClaimInv /\ OneCopy

\* Nothing the abstract queue can see of the store moves.
QuietStep == UNCHANGED <<hash, failedSet, pushed, forgotten>>

\* Hashes other than id stay, and so does their place in the failed set.
OthersSame(id) ==
  \A o : o # id =>
    /\ o \in DOMAIN hash' <=> o \in DOMAIN hash
    /\ o \in DOMAIN hash => hash'[o] = hash[o]
    /\ o \in DOMAIN failedSet' <=> o \in DOMAIN failedSet

LEMMA FailHashSame ==
  ASSUME HashTyped, NEW id \in DOMAIN hash, NEW t, FailHash(id, t)
  PROVE  /\ OthersSame(id) /\ id \in DOMAIN hash' /\ hash'[id].payload = hash[id].payload
         /\ id \in DOMAIN failedSet'
<1>1. /\ DOMAIN hash' = DOMAIN hash /\ \A i \in DOMAIN hash \ {id} : hash'[i] = hash[i]
      /\ hash'[id].payload = hash[id].payload
  BY FailHashDoes
<1>2. DOMAIN failedSet' = DOMAIN failedSet \cup {id}
  BY PutDomain DEF FailHash
<1> QED
  BY <1>1, <1>2 DEF OthersSame

LEMMA ReleaseSame ==
  ASSUME HashTyped, NEW id \in DOMAIN hash, hash' = [hash EXCEPT ![id].until = 0, ![id].by = NoOne],
         failedSet' = failedSet
  PROVE  /\ OthersSame(id) /\ id \in DOMAIN hash' /\ hash'[id].by = NoOne
         /\ hash'[id].payload = hash[id].payload /\ hash'[id].max = hash[id].max
         /\ hash'[id].attempts = hash[id].attempts
<1>1. hash \in [DOMAIN hash -> Hash]
  BY DEF HashTyped
<1>2. PICK x \in Hash : x = hash[id]
  BY <1>1
<1>3. PICK y : y = [x EXCEPT !.until = 0, !.by = NoOne]
  OBVIOUS
<1>4. y.by = NoOne /\ y.payload = x.payload /\ y.max = x.max /\ y.attempts = x.attempts
  BY <1>3 DEF Hash
<1>5. hash' = [hash EXCEPT ![id] = y]
  BY <1>1, <1>2, <1>3 DEF Hash
<1>6. DOMAIN hash' = DOMAIN hash /\ hash'[id] = y /\ \A i \in DOMAIN hash \ {id} : hash'[i] = hash[i]
  BY <1>1, <1>5
<1> QED
  BY <1>2, <1>4, <1>6 DEF OthersSame

LEMMA DropSame ==
  ASSUME NEW id, hash' = Drop(hash, id), failedSet' = failedSet \/ failedSet' = Drop(failedSet, id)
  PROVE  OthersSame(id) /\ id \notin DOMAIN hash'
BY DEF Drop, OthersSame

-----------------------------------------------------------------------------
(* What the steps do that change a hash *)

LEMMA QuietSteps ==
  ASSUME \/ Tick \/ UNCHANGED vars
         \/ \E w \in Workers : \/ StartScript(w) \/ NothingTaken(w) \/ DropTombstone(w) \/ Park(w) \/ ScriptReturnsNil(w)
                               \/ LoopStep(w) \/ BeginReserve(w) \/ Fault(w)
         \/ \E a \in Admins : AdminSelect(a) \/ AdminSelectBefore(a) \/ AdminInterrupted(a)
  PROVE  QuietStep
<1>1. CASE Tick \/ UNCHANGED vars
  BY <1>1 DEF Tick, vars, store, history, QuietStep
<1>2. CASE \E w \in Workers : StartScript(w) \/ NothingTaken(w) \/ DropTombstone(w) \/ Park(w) \/ ScriptReturnsNil(w)
  BY <1>2 DEF StartScript, NothingTaken, DropTombstone, Park, ScriptReturnsNil, ScriptOnly, store, history, QuietStep
<1>3. CASE \E w \in Workers : LoopStep(w) \/ BeginReserve(w) \/ Fault(w)
  BY <1>3 DEF LoopStep, BeginReserve, Fault, ReserveError, store, history, QuietStep
<1>4. CASE \E a \in Admins : AdminSelect(a) \/ AdminSelectBefore(a) \/ AdminInterrupted(a)
  BY <1>4 DEF AdminSelect, AdminSelectBefore, AdminInterrupted, store, history, QuietStep
<1> QED
  BY <1>1, <1>2, <1>3, <1>4

LEMMA PushDoes ==
  ASSUME BaseInv, Push
  PROVE  /\ OthersSame(nextId) /\ nextId \notin DOMAIN hash /\ nextId \in DOMAIN hash' /\ nextId \notin DOMAIN failedSet'
         /\ UNCHANGED <<failedSet, forgotten, pc, job>>
         /\ \E p \in Payloads \ pushed, b \in Budgets :
              /\ pushed' = pushed \cup {p}
              /\ hash'[nextId].payload = p /\ hash'[nextId].by = NoOne
              /\ hash'[nextId].attempts = 0 /\ hash'[nextId].max = AtLeast(1, b)
<1>1. nextId \in Nat \ {0} /\ nextId \notin DOMAIN hash /\ nextId \notin DOMAIN failedSet
  BY DEF BaseInv, StoreInv, StoreTyped, HashTyped
<1>2. PICK p \in Payloads \ pushed, q \in QueueNames, level \in Levels, delay \in Delays, b \in Budgets,
           k \in Keys \cup {NoKey} :
        PushNew(p, q, level, delay, b, k)
  BY DEF Push
<1>3. PICK h : h = [queue |-> q, payload |-> p, attempts |-> 0, max |-> AtLeast(1, b),
                    level |-> level, key |-> k, until |-> 0, by |-> NoOne]
  OBVIOUS
<1>4. h.payload = p /\ h.by = NoOne /\ h.attempts = 0 /\ h.max = AtLeast(1, b)
  BY <1>3
<1>5. hash' = Put(hash, nextId, h) /\ pushed' = pushed \cup {p} /\ failedSet' = failedSet
  BY <1>2, <1>3 DEF PushNew
<1>6. /\ DOMAIN hash' = DOMAIN hash \cup {nextId} /\ hash'[nextId] = h
      /\ \A o \in DOMAIN hash : o # nextId => hash'[o] = hash[o]
  BY <1>5 DEF Put
<1>7. OthersSame(nextId)
  BY <1>5, <1>6 DEF OthersSame
<1>8. UNCHANGED <<forgotten, pc, job>>
  BY DEF Push, workerVars
<1> QED
  BY <1>1, <1>4, <1>5, <1>6, <1>7, <1>8

LEMMA ExhaustDoes ==
  ASSUME NEW w \in Workers, Exhaust(w)
  PROVE  /\ \E id \in DOMAIN hash : OutOfAttempts(id) /\ FailHash(id, scan[w].moment)
         /\ UNCHANGED <<pushed, forgotten, pc, job>>
BY DEF Exhaust, history, workerVars

\* An end by the worker that holds the job: _COMPLETE, _RELEASE or _FAIL; _HELD turns others away.
LEMMA SettleDoes ==
  ASSUME BaseInv, NEW w \in Workers, Settle(w) \/ Discard(w)
  PROVE  /\ EmptyHanded(w) /\ pc[w] \in Holding /\ pushed' = pushed /\ forgotten' = forgotten
         /\ \/ QuietStep
            \/ \E id \in DOMAIN hash :
                 /\ HasToken(w, id) /\ job[w].id = id
                 /\ \/ pc[w] = "settle" /\ hash' = Drop(hash, id) /\ failedSet' = failedSet
                    \/ /\ pc[w] = "settle" /\ hash' = [hash EXCEPT ![id].until = 0, ![id].by = NoOne]
                       /\ failedSet' = failedSet
                    \/ FailHash(id, NowUtc(w))
<1>1. WorkerInv /\ ScanTyped /\ pc[w] \in {"settle", "discard"} /\ now' = now
  BY DEF BaseInv, Settle, Discard
<1>2. EmptyHanded(w)
  <2>1. CASE Settle(w)
    BY <1>1, <2>1, MovesEmptyHanded DEF Settle
  <2>2. CASE Discard(w)
    BY <1>1, <2>2, NextQueueDoes DEF Discard
  <2> QED
    BY <2>1, <2>2
<1>3. pc[w] \in Holding /\ pushed' = pushed /\ forgotten' = forgotten
  BY <1>1 DEF Settle, Discard, Holding, history
<1>4. CASE UNCHANGED store
  BY <1>2, <1>3, <1>4 DEF QuietStep, store
<1>5. CASE ~UNCHANGED store
  <2>1. Held(job[w])
    BY <1>5 DEF Settle, Discard
  <2>2. PICK id \in DOMAIN hash : id = job[w].id
    BY <2>1 DEF Held
  <2>3. HasToken(w, id)
    BY <1>3, <2>1, <2>2 DEF Held, HasToken
  <2>4. plan[w].op \in {"delete", "release", "fail"}
    BY <1>1 DEF WorkerInv, WorkerTypeOK, Plan
  <2>5. \/ pc[w] = "settle" /\ Complete(job[w])
        \/ pc[w] = "settle" /\ Release(job[w], NowUtc(w) + plan[w].delay)
        \/ Fail(job[w], NowUtc(w))
    BY <2>1, <2>4 DEF Settle, Discard
  <2>6. \/ pc[w] = "settle" /\ hash' = Drop(hash, id) /\ failedSet' = failedSet
        \/ pc[w] = "settle" /\ hash' = [hash EXCEPT ![id].until = 0, ![id].by = NoOne] /\ failedSet' = failedSet
        \/ FailHash(id, NowUtc(w))
    BY <2>2, <2>5 DEF Complete, Release, Fail
  <2> QED
    BY <1>2, <1>3, <2>2, <2>3, <2>6
<1> QED
  BY <1>4, <1>5

LEMMA AdminDoes ==
  ASSUME BaseInv, ClaimInv, NEW a \in Admins, AdminStep(a)
  PROVE  /\ UNCHANGED <<pushed, pc, job>>
         /\ \/ QuietStep
            \/ \E id \in DOMAIN hash \cap DOMAIN failedSet : Requeue(id) \/ ForgetHash(id)
<1>1. UNCHANGED <<pushed, pc, job>>
  BY DEF AdminStep, workerVars
<1>2. PICK id \in batch[a].ids :
        CASE id \notin DOMAIN failedSet -> UNCHANGED <<store, forgotten>>
          [] id \in DOMAIN failedSet /\ batch[a].op = "retry" -> Requeue(id)
          [] id \in DOMAIN failedSet /\ batch[a].op = "forget" -> ForgetHash(id)
  BY DEF AdminStep
<1>3. batch[a].op \in {"retry", "forget"}
  BY BatchKept
<1>4. \/ UNCHANGED <<store, forgotten>>
      \/ id \in DOMAIN failedSet /\ (Requeue(id) \/ ForgetHash(id))
  BY <1>2, <1>3
<1>5. id \in DOMAIN failedSet => id \in DOMAIN hash
  BY DEF ClaimInv, FailedInv
<1> QED
  BY <1>1, <1>4, <1>5 DEF QuietStep, store

-----------------------------------------------------------------------------
(* A payload keeps to one hash *)

LEMMA CopyKept ==
  ASSUME OneCopy, UNCHANGED <<pushed, forgotten>>,
         \A id \in DOMAIN hash' : id \in DOMAIN hash /\ hash'[id].payload = hash[id].payload
  PROVE  OneCopy'
BY DEF OneCopy

LEMMA SameCopy ==
  ASSUME OneCopy, UNCHANGED <<pushed, forgotten>>, NEW id, OthersSame(id),
         id \in DOMAIN hash' => id \in DOMAIN hash /\ hash'[id].payload = hash[id].payload
  PROVE  OneCopy'
<1>1. \A o \in DOMAIN hash' : o \in DOMAIN hash /\ hash'[o].payload = hash[o].payload
  BY DEF OthersSame
<1> QED
  BY <1>1, CopyKept

LEMMA QuietCopy ==
  ASSUME OneCopy, QuietStep
  PROVE  OneCopy'
BY DEF OneCopy, QuietStep

LEMMA PushCopy ==
  ASSUME BaseInv, OneCopy, Push
  PROVE  OneCopy'
<1>1. OthersSame(nextId) /\ nextId \notin DOMAIN hash /\ nextId \in DOMAIN hash' /\ forgotten' = forgotten
  BY PushDoes
<1>2. PICK p \in Payloads \ pushed : pushed' = pushed \cup {p} /\ hash'[nextId].payload = p
  BY PushDoes
<1>3. \A o \in DOMAIN hash' : o = nextId \/ (o \in DOMAIN hash /\ hash'[o] = hash[o])
  BY <1>1 DEF OthersSame
<1>4. \A o \in DOMAIN hash : hash[o].payload \in pushed \ forgotten
  BY DEF OneCopy
<1>5. forgotten \subseteq pushed
  BY DEF OneCopy
<1>6. \A o \in DOMAIN hash' : hash'[o].payload \in pushed' \ forgotten'
  BY <1>1, <1>2, <1>3, <1>4, <1>5
<1>7. ASSUME NEW i \in DOMAIN hash', NEW j \in DOMAIN hash', hash'[i].payload = hash'[j].payload PROVE i = j
  <2>1. CASE i = nextId \/ j = nextId
    BY <1>2, <1>3, <1>4, <1>7, <2>1
  <2>2. CASE i # nextId /\ j # nextId
    BY <1>3, <1>7, <2>2 DEF OneCopy
  <2> QED
    BY <2>1, <2>2
<1> QED
  BY <1>1, <1>2, <1>5, <1>6, <1>7 DEF OneCopy

LEMMA ForgetCopy ==
  ASSUME OneCopy, NEW id \in DOMAIN hash, ForgetHash(id), pushed' = pushed
  PROVE  OneCopy'
<1>1. hash' = Drop(hash, id) /\ forgotten' = forgotten \cup {hash[id].payload}
  BY DEF ForgetHash
<1>2. \A o \in DOMAIN hash' : o \in DOMAIN hash /\ o # id /\ hash'[o] = hash[o]
  BY <1>1 DEF Drop
<1> QED
  BY <1>1, <1>2 DEF OneCopy

LEMMA CopyStep ==
  ASSUME BaseInv, ClaimInv, OneCopy, [Next]_vars
  PROVE  OneCopy'
<1>0. HashTyped /\ ScanTyped
  BY DEF BaseInv, StoreInv, StoreTyped
<1>1. CASE Push
  BY <1>1, PushCopy
<1>2. ASSUME NEW w \in Workers, ScriptStep(w) PROVE OneCopy'
  <2>1. CASE Exhaust(w)
    <3>1. PICK id \in DOMAIN hash : FailHash(id, scan[w].moment)
      BY <2>1, ExhaustDoes
    <3>2. UNCHANGED <<pushed, forgotten>>
      BY <2>1, ExhaustDoes
    <3> QED
      BY <1>0, <3>1, <3>2, FailHashSame, SameCopy
  <2>2. CASE Claim(w)
    <3>1. PICK e \in DOMAIN entries, id \in DOMAIN hash, j \in Job : ClaimedAs(w, e, id, j)
      BY <2>2, ClaimDoes
    <3>2. UNCHANGED <<pushed, forgotten>>
      BY <2>2 DEF Claim, history
    <3>3. DOMAIN hash' = DOMAIN hash /\ \A i \in DOMAIN hash : hash'[i].payload = hash[i].payload
      BY <1>0, <3>1, ClaimHashDoes DEF ClaimedAs
    <3> QED
      BY <3>2, <3>3, CopyKept
  <2>3. CASE NothingTaken(w) \/ DropTombstone(w) \/ Park(w) \/ ScriptReturnsNil(w)
    BY <2>3, QuietSteps, QuietCopy
  <2> QED
    BY <1>2, <2>1, <2>2, <2>3 DEF ScriptStep
<1>3. ASSUME NEW w \in Workers, Settle(w) \/ Discard(w) PROVE OneCopy'
  <2>1. UNCHANGED <<pushed, forgotten>>
    BY <1>3, SettleDoes
  <2>2. CASE QuietStep
    BY <2>2, QuietCopy
  <2>3. ASSUME NEW id \in DOMAIN hash,
               \/ hash' = Drop(hash, id) /\ failedSet' = failedSet
               \/ hash' = [hash EXCEPT ![id].until = 0, ![id].by = NoOne] /\ failedSet' = failedSet
               \/ FailHash(id, NowUtc(w))
        PROVE  OneCopy'
    <3>1. OthersSame(id) /\ (id \in DOMAIN hash' => hash'[id].payload = hash[id].payload)
      BY <1>0, <2>3, DropSame, ReleaseSame, FailHashSame
    <3> QED
      BY <2>1, <3>1, SameCopy
  <2> QED
    BY <1>3, <2>2, <2>3, SettleDoes
<1>4. ASSUME NEW a \in Admins, AdminStep(a) PROVE OneCopy'
  <2>1. pushed' = pushed
    BY <1>4, AdminDoes
  <2>2. CASE QuietStep
    BY <2>2, QuietCopy
  <2>3. ASSUME NEW id \in DOMAIN hash, Requeue(id) PROVE OneCopy'
    <3>1. DOMAIN hash' = DOMAIN hash /\ \A o \in DOMAIN hash : hash'[o].payload = hash[o].payload
      BY <1>0, <2>3, RequeueHashDoes
    <3>2. forgotten' = forgotten
      BY <2>3 DEF Requeue
    <3> QED
      BY <2>1, <3>1, <3>2, CopyKept
  <2>4. ASSUME NEW id \in DOMAIN hash, ForgetHash(id) PROVE OneCopy'
    BY <2>1, <2>4, ForgetCopy
  <2> QED
    BY <1>4, <2>2, <2>3, <2>4, AdminDoes
<1>5. CASE \/ Tick \/ UNCHANGED vars
           \/ \E w \in Workers : StartScript(w) \/ LoopStep(w) \/ BeginReserve(w) \/ Fault(w)
           \/ \E a \in Admins : AdminSelect(a) \/ AdminSelectBefore(a) \/ AdminInterrupted(a)
  BY <1>5, QuietSteps, QuietCopy
<1> QED
  BY <1>1, <1>2, <1>3, <1>4, <1>5 DEF Next, ClientStep, Admin

LEMMA AllInvariant == ASSUME Exclusive PROVE Spec => []AllInv
<1>1. Init => OneCopy
  BY DEF Init, OneCopy
<1>2. (BaseInv /\ ClaimInv) /\ OneCopy /\ [Next]_vars => OneCopy'
  BY CopyStep
<1> QED
  BY <1>1, <1>2, ClaimInvariant, PTL DEF Spec, AllInv

-----------------------------------------------------------------------------
(* What the mapping says of a payload that was never pushed, one whose job *)
(* failed, one whose job is alive and one that is over                     *)

MapsNew(p) == p \notin pushed => StateOf(p) = "new" /\ HolderOf(p) = NoOne /\ LeftOf(p) = 0
MapsFailed(p, id) ==
  hash[id].payload = p /\ id \in DOMAIN failedSet => StateOf(p) = "failed" /\ HolderOf(p) = NoOne /\ LeftOf(p) = 0
MapsLive(p, id) ==
  hash[id].payload = p /\ id \notin DOMAIN failedSet =>
    /\ StateOf(p) = IF hash[id].by = NoOne THEN "waiting" ELSE "held"
    /\ LeftOf(p) = hash[id].max - hash[id].attempts
    /\ \A w \in Workers : HasToken(w, id) => HolderOf(p) = w
    /\ (\A w \in Workers : ~HasToken(w, id)) => HolderOf(p) = NoOne
MapsOver(p) ==
  p \in pushed /\ HashesOf(p) = {} =>
    StateOf(p) = (IF p \in forgotten THEN "gone" ELSE "done") /\ HolderOf(p) = NoOne /\ LeftOf(p) = 0

Mapped ==
  AllInv =>
    \A p \in Payloads :
      /\ MapsNew(p) /\ MapsOver(p)
      /\ \A id \in DOMAIN hash : MapsFailed(p, id) /\ MapsLive(p, id)

LEMMA MappedNow == Mapped
<1> SUFFICES ASSUME AllInv, NEW p \in Payloads
             PROVE  /\ MapsNew(p) /\ MapsOver(p)
                    /\ \A id \in DOMAIN hash : MapsFailed(p, id) /\ MapsLive(p, id)
  BY DEF Mapped
<1>0. OneCopy
  BY DEF AllInv
<1>1. HashesOf(p) \ DOMAIN failedSet = {} => HolderOf(p) = NoOne
  BY DEF HolderOf, HoldersOf
<1>2. MapsNew(p)
  <2> SUFFICES ASSUME p \notin pushed PROVE StateOf(p) = "new" /\ HolderOf(p) = NoOne /\ LeftOf(p) = 0
    BY DEF MapsNew
  <2>1. HashesOf(p) = {} /\ p \notin forgotten
    BY <1>0 DEF OneCopy, HashesOf
  <2>2. StateOf(p) = "new"
    BY <2>1 DEF StateOf
  <2> QED
    BY <1>1, <2>1, <2>2 DEF LeftOf
<1>3. MapsOver(p)
  <2> SUFFICES ASSUME p \in pushed, HashesOf(p) = {}
               PROVE  StateOf(p) = (IF p \in forgotten THEN "gone" ELSE "done") /\ HolderOf(p) = NoOne /\ LeftOf(p) = 0
    BY DEF MapsOver
  <2>1. StateOf(p) = IF p \in forgotten THEN "gone" ELSE "done"
    BY DEF StateOf
  <2> QED
    BY <1>1, <2>1 DEF LeftOf
<1>4. ASSUME NEW id \in DOMAIN hash PROVE MapsFailed(p, id)
  <2> SUFFICES ASSUME hash[id].payload = p, id \in DOMAIN failedSet
               PROVE  StateOf(p) = "failed" /\ HolderOf(p) = NoOne /\ LeftOf(p) = 0
    BY DEF MapsFailed
  <2>1. HashesOf(p) = {id} /\ HashesOf(p) \ DOMAIN failedSet = {} /\ p \in pushed \ forgotten
    BY <1>0 DEF OneCopy, HashesOf
  <2>2. StateOf(p) = "failed"
    BY <2>1 DEF StateOf
  <2> QED
    BY <1>1, <2>1, <2>2 DEF LeftOf
<1>5. ASSUME NEW id \in DOMAIN hash PROVE MapsLive(p, id)
  <2> SUFFICES ASSUME hash[id].payload = p, id \notin DOMAIN failedSet
               PROVE  /\ StateOf(p) = IF hash[id].by = NoOne THEN "waiting" ELSE "held"
                      /\ LeftOf(p) = hash[id].max - hash[id].attempts
                      /\ \A w \in Workers : HasToken(w, id) => HolderOf(p) = w
                      /\ (\A w \in Workers : ~HasToken(w, id)) => HolderOf(p) = NoOne
    BY DEF MapsLive
  <2>1. HashesOf(p) = {id} /\ HashesOf(p) \ DOMAIN failedSet = {id} /\ p \in pushed \ forgotten
    BY <1>0 DEF OneCopy, HashesOf
  <2>2. HoldersOf(p) = {w \in Workers : HasToken(w, id)}
    BY <2>1 DEF HoldersOf
  <2>3. \A v, w \in Workers : HasToken(v, id) /\ HasToken(w, id) => v = w
    BY InvOneHolder DEF AllInv, OneHolder
  <2>4. StateOf(p) = IF hash[id].by = NoOne THEN "waiting" ELSE "held"
    BY <2>1 DEF StateOf
  <2>5. LeftOf(p) = hash[id].max - hash[id].attempts
    <3>1. (CHOOSE i \in HashesOf(p) : TRUE) = id
      BY <2>1
    <3> QED
      BY <2>4, <3>1 DEF LeftOf
  <2>6. ASSUME NEW w \in Workers, HasToken(w, id) PROVE HolderOf(p) = w
    <3>1. HoldersOf(p) = {w}
      BY <2>2, <2>3, <2>6
    <3>2. (CHOOSE v \in HoldersOf(p) : TRUE) = w
      BY <3>1
    <3> QED
      BY <3>1, <3>2 DEF HolderOf
  <2>7. (\A w \in Workers : ~HasToken(w, id)) => HolderOf(p) = NoOne
    BY <2>2 DEF HolderOf
  <2> QED
    BY <2>4, <2>5, <2>6, <2>7
<1> QED
  BY <1>2, <1>3, <1>4, <1>5

LEMMA MappedNext == Mapped'
BY MappedNow, PTL

\* The abstract queue does not see payload q move.
Unmoved(q) == StateOf(q)' = StateOf(q) /\ HolderOf(q)' = HolderOf(q) /\ LeftOf(q)' = LeftOf(q)

\* A payload does not move if its hash keeps its place in the failed set or outside, and, alive,
\* stays as it is in the hands it is in.
LEMMA Still ==
  ASSUME AllInv, AllInv', NEW q \in Payloads,
         q \in pushed' <=> q \in pushed, q \in forgotten' <=> q \in forgotten,
         \A o : o \in DOMAIN hash' /\ hash'[o].payload = q <=> o \in DOMAIN hash /\ hash[o].payload = q,
         \A o \in DOMAIN hash : hash[o].payload = q =>
           /\ o \in DOMAIN failedSet' <=> o \in DOMAIN failedSet
           /\ o \in DOMAIN failedSet \/ (hash'[o] = hash[o] /\ \A v \in Workers : HasToken(v, o)' <=> HasToken(v, o))
  PROVE  Unmoved(q)
<1>1. /\ MapsNew(q) /\ MapsOver(q)
      /\ \A id \in DOMAIN hash : MapsFailed(q, id) /\ MapsLive(q, id)
  BY MappedNow DEF Mapped
<1>2. /\ MapsNew(q)' /\ MapsOver(q)'
      /\ \A id \in DOMAIN hash' : MapsFailed(q, id)' /\ MapsLive(q, id)'
  BY MappedNext DEF Mapped
<1>3. CASE q \notin pushed
  BY <1>1, <1>2, <1>3 DEF MapsNew, Unmoved
<1>4. ASSUME NEW id \in DOMAIN hash, hash[id].payload = q, id \notin DOMAIN failedSet PROVE Unmoved(q)
  <2>1. /\ id \in DOMAIN hash' /\ id \notin DOMAIN failedSet' /\ hash'[id] = hash[id]
        /\ \A v \in Workers : HasToken(v, id)' <=> HasToken(v, id)
    BY <1>4
  <2>2. MapsLive(q, id) /\ MapsLive(q, id)'
    BY <1>1, <1>2, <2>1
  <2>3. StateOf(q)' = StateOf(q) /\ LeftOf(q)' = LeftOf(q)
    BY <1>4, <2>1, <2>2 DEF MapsLive
  <2>4. HolderOf(q)' = HolderOf(q)
    <3>1. CASE \E w \in Workers : HasToken(w, id)
      BY <1>4, <2>1, <2>2, <3>1 DEF MapsLive
    <3>2. CASE \A w \in Workers : ~HasToken(w, id)
      BY <1>4, <2>1, <2>2, <3>2 DEF MapsLive
    <3> QED
      BY <3>1, <3>2
  <2> QED
    BY <2>3, <2>4 DEF Unmoved
<1>5. ASSUME NEW id \in DOMAIN hash, hash[id].payload = q, id \in DOMAIN failedSet PROVE Unmoved(q)
  <2>1. id \in DOMAIN hash' /\ hash'[id].payload = q /\ id \in DOMAIN failedSet'
    BY <1>5
  <2> QED
    BY <1>1, <1>2, <1>5, <2>1 DEF MapsFailed, Unmoved
<1>6. CASE q \in pushed /\ HashesOf(q) = {}
  <2>1. HashesOf(q)' = {} /\ q \in pushed'
    BY <1>6 DEF HashesOf
  <2> QED
    BY <1>1, <1>2, <1>6, <2>1 DEF MapsOver, Unmoved
<1> QED
  BY <1>3, <1>4, <1>5, <1>6 DEF HashesOf

\* A step that sets one payload of the abstract queue.
LEMMA Sets ==
  ASSUME NEW p \in Payloads, NEW s, NEW h, NEW n,
         StateOf(p)' = s, HolderOf(p)' = h, LeftOf(p)' = n,
         \A q \in Payloads : q # p => Unmoved(q)
  PROVE  JQ!Set(p, s, h, n)
BY DEF JQ!Set, Unmoved

LEMMA StutterMaps ==
  ASSUME \A q \in Payloads : Unmoved(q)
  PROVE  UNCHANGED JQ!vars
BY DEF JQ!vars, Unmoved

-----------------------------------------------------------------------------
(* Each step is one step of the abstract queue on one job, or none *)

\* Jobs other than id are in the hands they were in.
HoldersSame(id) == \A v \in Workers : \A o \in DOMAIN hash : o # id => (HasToken(v, o)' <=> HasToken(v, o))

LEMMA LetsGoHolders ==
  ASSUME NEW w \in Workers, NEW id, EmptyHanded(w), OthersSame(id), pc[w] \in Holding => job[w].id = id
  PROVE  HoldersSame(id)
<1> SUFFICES ASSUME NEW v \in Workers, NEW o \in DOMAIN hash, o # id PROVE HasToken(v, o)' <=> HasToken(v, o)
  BY DEF HoldersSame
<1>1. o \in DOMAIN hash' /\ hash'[o] = hash[o]
  BY DEF OthersSame
<1>2. CASE v = w
  BY <1>2 DEF HasToken, EmptyHanded
<1>3. CASE v # w
  BY <1>1, <1>3 DEF HasToken, EmptyHanded
<1> QED
  BY <1>2, <1>3

LEMMA IdleSame ==
  ASSUME UNCHANGED <<pc, job>>, NEW id, OthersSame(id)
  PROVE  HoldersSame(id)
<1> SUFFICES ASSUME NEW v \in Workers, NEW o \in DOMAIN hash, o # id PROVE HasToken(v, o)' <=> HasToken(v, o)
  BY DEF HoldersSame
<1>1. o \in DOMAIN hash' /\ hash'[o] = hash[o]
  BY DEF OthersSame
<1> QED
  BY <1>1 DEF HasToken

\* One hash changes, of payload p: no other payload moves.
LEMMA OthersStill ==
  ASSUME AllInv, AllInv', NEW p, NEW id, OthersSame(id), HoldersSame(id),
         id \in DOMAIN hash => hash[id].payload = p, id \in DOMAIN hash' => hash'[id].payload = p,
         \A q : q # p => (q \in pushed' <=> q \in pushed) /\ (q \in forgotten' <=> q \in forgotten)
  PROVE  \A q \in Payloads : q # p => Unmoved(q)
<1> SUFFICES ASSUME NEW q \in Payloads, q # p PROVE Unmoved(q)
  OBVIOUS
<1>1. (q \in pushed' <=> q \in pushed) /\ (q \in forgotten' <=> q \in forgotten)
  OBVIOUS
<1>2. \A o : o \in DOMAIN hash' /\ hash'[o].payload = q <=> o \in DOMAIN hash /\ hash[o].payload = q
  BY DEF OthersSame
<1>3. \A o \in DOMAIN hash : hash[o].payload = q =>
        /\ o \in DOMAIN failedSet' <=> o \in DOMAIN failedSet
        /\ hash'[o] = hash[o] /\ \A v \in Workers : HasToken(v, o)' <=> HasToken(v, o)
  BY DEF OthersSame, HoldersSame
<1> QED
  BY <1>1, <1>2, <1>3, Still

LEMMA LiveMaps ==
  ASSUME AllInv, NEW id \in DOMAIN hash
  PROVE  /\ hash[id].payload \in Payloads
         /\ hash[id].max \in Nat /\ hash[id].attempts \in Nat /\ hash[id].attempts <= hash[id].max
         /\ id \notin DOMAIN failedSet =>
              /\ StateOf(hash[id].payload) \in {"waiting", "held"}
              /\ LeftOf(hash[id].payload) = hash[id].max - hash[id].attempts
              /\ \A w \in Workers : HasToken(w, id) => /\ HolderOf(hash[id].payload) = w
                                                       /\ StateOf(hash[id].payload) = "held"
                                                       /\ \A v \in Workers : HasToken(v, id) => v = w
<1>1. hash[id] \in Hash /\ BaseInv /\ ClaimInv
  BY DEF AllInv, BaseInv, StoreInv, StoreTyped, HashTyped
<1>2. hash[id].payload \in Payloads /\ hash[id].max \in Nat /\ hash[id].attempts \in Nat
  BY <1>1 DEF Hash
<1>3. hash[id].attempts <= hash[id].max
  BY <1>1 DEF BaseInv, StoreInv, AttemptBudget
<1>4. MapsLive(hash[id].payload, id)
  BY <1>2, MappedNow DEF Mapped
<1>5. ASSUME NEW w \in Workers, HasToken(w, id) PROVE hash[id].by # NoOne /\ \A v \in Workers : HasToken(v, id) => v = w
  <2>1. job[w] \in Job /\ hash[id].by = job[w].by
    BY <1>1, <1>5 DEF HasToken, BaseInv, WorkerInv, WorkerTypeOK
  <2>2. hash[id].by # NoOne
    BY <2>1, WorkerAssumption DEF Job, WorkerAssumption
  <2> QED
    BY <1>1, <1>5, <2>2, InvOneHolder DEF OneHolder
<1> QED
  BY <1>2, <1>3, <1>4, <1>5 DEF MapsLive

\* Failed jobs stay failed, and live ones as they are in the hands they are in.
LEMMA StutterStep ==
  ASSUME AllInv, AllInv', UNCHANGED <<pushed, forgotten>>,
         DOMAIN hash' = DOMAIN hash, DOMAIN failedSet' = DOMAIN failedSet,
         \A o \in DOMAIN hash :
           /\ hash'[o].payload = hash[o].payload
           /\ o \in DOMAIN failedSet \/ (hash'[o] = hash[o] /\ \A v \in Workers : HasToken(v, o)' <=> HasToken(v, o))
  PROVE  UNCHANGED JQ!vars
<1>1. ASSUME NEW q \in Payloads PROVE Unmoved(q)
  <2>1. \A o : o \in DOMAIN hash' /\ hash'[o].payload = q <=> o \in DOMAIN hash /\ hash[o].payload = q
    OBVIOUS
  <2> QED
    BY <2>1, Still
<1> QED
  BY <1>1, StutterMaps

\* The worker lets go and the store stays: Abandon of what it held, if anything.
LEMMA AbandonStep ==
  ASSUME AllInv, AllInv', NEW w \in Workers, EmptyHanded(w), QuietStep
  PROVE  (\E p \in Payloads : JQ!Abandon(p, w)) \/ UNCHANGED JQ!vars
<1>1. hash' = hash /\ failedSet' = failedSet /\ pushed' = pushed /\ forgotten' = forgotten
  BY DEF QuietStep
<1>2. CASE \A o \in DOMAIN hash \ DOMAIN failedSet : ~HasToken(w, o)
  <2>1. \A v \in Workers : \A o \in DOMAIN hash \ DOMAIN failedSet : HasToken(v, o)' <=> HasToken(v, o)
    BY <1>1, <1>2 DEF HasToken, EmptyHanded
  <2> QED
    BY <1>1, <2>1, StutterStep
<1>3. ASSUME NEW id \in DOMAIN hash \ DOMAIN failedSet, HasToken(w, id) PROVE \E p \in Payloads : JQ!Abandon(p, w)
  <2>0. PICK p \in Payloads : hash[id].payload = p
    BY <1>3, LiveMaps
  <2>1. HolderOf(p) = w /\ StateOf(p) = "held" /\ LeftOf(p) = hash[id].max - hash[id].attempts
    BY <1>3, <2>0, LiveMaps
  <2>2. \A v \in Workers : v # w => ~HasToken(v, id)
    BY <1>3, LiveMaps
  <2>3. OthersSame(id) /\ job[w].id = id
    BY <1>1, <1>3 DEF OthersSame, HasToken
  <2>4. HoldersSame(id)
    BY <2>3, LetsGoHolders
  <2>5. \A q \in Payloads : q # p => Unmoved(q)
    BY <1>1, <2>0, <2>3, <2>4, OthersStill
  <2>6. MapsLive(p, id) /\ MapsLive(p, id)'
    BY <1>1, MappedNow, MappedNext DEF Mapped
  <2>7. \A v \in Workers : ~HasToken(v, id)'
    BY <1>1, <2>2 DEF HasToken, EmptyHanded
  <2>8. StateOf(p)' = StateOf(p) /\ LeftOf(p)' = LeftOf(p) /\ HolderOf(p)' = NoOne
    BY <1>1, <1>3, <2>0, <2>6, <2>7 DEF MapsLive
  <2>9. JQ!Set(p, "held", NoOne, LeftOf(p))
    BY <2>1, <2>5, <2>8, Sets
  <2> QED
    BY <2>1, <2>9 DEF JQ!Abandon
<1> QED
  BY <1>2, <1>3

\* A job joins the failed set, or is failed again; nobody else's hands change.
LEMMA FailStep ==
  ASSUME AllInv, AllInv', NEW id \in DOMAIN hash, NEW t, FailHash(id, t), OthersSame(id) => HoldersSame(id),
         UNCHANGED <<pushed, forgotten>>, NEW p \in Payloads, hash[id].payload = p
  PROVE  JQ!Set(p, "failed", NoOne, 0) /\ (id \in DOMAIN failedSet => UNCHANGED JQ!vars)
<1>1. HashTyped
  BY DEF AllInv, BaseInv, StoreInv, StoreTyped
<1>2. OthersSame(id) /\ id \in DOMAIN hash' /\ hash'[id].payload = p /\ id \in DOMAIN failedSet'
  BY <1>1, FailHashSame
<1>3. \A q \in Payloads : q # p => Unmoved(q)
  BY <1>2, OthersStill
<1>4. StateOf(p)' = "failed" /\ HolderOf(p)' = NoOne /\ LeftOf(p)' = 0
  BY <1>2, MappedNext DEF Mapped, MapsFailed
<1>5. JQ!Set(p, "failed", NoOne, 0)
  BY <1>3, <1>4, Sets
<1>6. ASSUME id \in DOMAIN failedSet PROVE UNCHANGED JQ!vars
  <2>1. StateOf(p) = "failed" /\ HolderOf(p) = NoOne /\ LeftOf(p) = 0
    BY <1>6, MappedNow DEF Mapped, MapsFailed
  <2>2. Unmoved(p)
    BY <1>4, <2>1 DEF Unmoved
  <2> QED
    BY <1>3, <2>2, StutterMaps
<1> QED
  BY <1>5, <1>6

\* The job comes to wait for whoever claims it next, with what is left of its budget.
LEMMA WaitsStep ==
  ASSUME AllInv, AllInv', NEW p \in Payloads, NEW id \in DOMAIN hash', NEW n,
         id \notin DOMAIN failedSet',
         hash'[id].payload = p, hash'[id].by = NoOne, hash'[id].max - hash'[id].attempts = n,
         \A q \in Payloads : q # p => Unmoved(q)
  PROVE  JQ!Set(p, "waiting", NoOne, n)
<1>1. MapsLive(p, id)'
  BY MappedNext DEF Mapped
<1>2. ASSUME NEW v \in Workers PROVE ~HasToken(v, id)'
  <2> SUFFICES ASSUME HasToken(v, id)' PROVE FALSE
    OBVIOUS
  <2>1. job'[v] \in Job /\ job'[v].by = NoOne
    BY DEF HasToken, AllInv, BaseInv, WorkerInv, WorkerTypeOK
  <2> QED
    BY <2>1, WorkerAssumption DEF Job, WorkerAssumption
<1>3. StateOf(p)' = "waiting" /\ LeftOf(p)' = n /\ HolderOf(p)' = NoOne
  BY <1>1, <1>2 DEF MapsLive
<1> QED
  BY <1>3, Sets

LEMMA PushMaps ==
  ASSUME AllInv, AllInv', Push
  PROVE  \E p \in Payloads : JQ!Push(p)
<1>1. /\ OthersSame(nextId) /\ nextId \notin DOMAIN hash /\ nextId \in DOMAIN hash' /\ nextId \notin DOMAIN failedSet'
      /\ UNCHANGED <<forgotten, pc, job>>
  BY PushDoes DEF AllInv
<1>2. PICK p \in Payloads \ pushed, b \in Budgets :
        /\ pushed' = pushed \cup {p}
        /\ hash'[nextId].payload = p /\ hash'[nextId].by = NoOne
        /\ hash'[nextId].attempts = 0 /\ hash'[nextId].max = AtLeast(1, b)
  BY PushDoes DEF AllInv
<1>3. HoldersSame(nextId)
  BY <1>1, IdleSame
<1>4. \A q \in Payloads : q # p => Unmoved(q)
  BY <1>1, <1>2, <1>3, OthersStill
<1>5. AtLeast(1, b) \in Nat
  BY AtLeastType, RedisAssumption DEF RedisAssumption
<1>6. hash'[nextId].max - hash'[nextId].attempts = AtLeast(1, b)
  BY <1>2, <1>5
<1>7. JQ!Set(p, "waiting", NoOne, AtLeast(1, b))
  BY <1>1, <1>2, <1>4, <1>6, WaitsStep
<1>8. StateOf(p) = "new"
  BY MappedNow DEF Mapped, MapsNew
<1> QED
  BY <1>7, <1>8 DEF JQ!Push

LEMMA RequeueMaps ==
  ASSUME AllInv, AllInv', NEW id \in DOMAIN hash \cap DOMAIN failedSet, Requeue(id), UNCHANGED <<pushed, pc, job>>
  PROVE  \E p \in Payloads : JQ!Retry(p)
<1>1. HashTyped
  BY DEF AllInv, BaseInv, StoreInv, StoreTyped
<1>2. /\ DOMAIN hash' = DOMAIN hash /\ \A i \in DOMAIN hash \ {id} : hash'[i] = hash[i]
      /\ hash'[id].payload = hash[id].payload /\ hash'[id].by = NoOne
      /\ hash'[id].attempts = 0 /\ hash'[id].max = AtLeast(1, Tries) /\ AtLeast(1, Tries) \in Nat
  BY <1>1, RequeueHashDoes
<1>3. DOMAIN failedSet' = DOMAIN failedSet \ {id} /\ forgotten' = forgotten
  BY DropDomain DEF Requeue
<1>4. OthersSame(id)
  BY <1>2, <1>3 DEF OthersSame
<1>5. PICK p \in Payloads : hash[id].payload = p
  BY LiveMaps
<1>6. \A q \in Payloads : q # p => Unmoved(q)
  BY <1>2, <1>3, <1>4, <1>5, IdleSame, OthersStill
<1>7. hash'[id].max - hash'[id].attempts = AtLeast(1, Tries)
  BY <1>2
<1>8. JQ!Set(p, "waiting", NoOne, AtLeast(1, Tries))
  BY <1>2, <1>3, <1>5, <1>6, <1>7, WaitsStep
<1>9. StateOf(p) = "failed"
  BY <1>5, MappedNow DEF Mapped, MapsFailed
<1> QED
  BY <1>8, <1>9 DEF JQ!Retry

LEMMA ForgetMaps ==
  ASSUME AllInv, AllInv', NEW id \in DOMAIN hash \cap DOMAIN failedSet, ForgetHash(id), UNCHANGED <<pushed, pc, job>>
  PROVE  \E S \in SUBSET Payloads : JQ!Forget(S)
<1>1. PICK p \in Payloads : hash[id].payload = p
  BY LiveMaps
<1>2. hash' = Drop(hash, id) /\ failedSet' = Drop(failedSet, id) /\ forgotten' = forgotten \cup {p}
  BY <1>1 DEF ForgetHash
<1>3. OthersSame(id) /\ id \notin DOMAIN hash'
  BY <1>2, DropSame
<1>4. \A q \in Payloads : q # p => Unmoved(q)
  BY <1>1, <1>2, <1>3, IdleSame, OthersStill
<1>5. StateOf(p) = "failed" /\ HolderOf(p) = NoOne /\ LeftOf(p) = 0
  BY <1>1, MappedNow DEF Mapped, MapsFailed
<1>6. p \in pushed' /\ p \in forgotten'
  BY <1>1, <1>2 DEF AllInv, OneCopy
<1>7. HashesOf(p)' = {}
  BY <1>1, <1>3 DEF HashesOf, OthersSame, AllInv, OneCopy
<1>8. StateOf(p)' = "gone" /\ HolderOf(p)' = NoOne /\ LeftOf(p)' = 0
  BY <1>6, <1>7, MappedNext DEF Mapped, MapsOver
<1>9. \A q \in Payloads : /\ StateOf(q)' = IF q \in {p} THEN "gone" ELSE StateOf(q)
                          /\ HolderOf(q)' = HolderOf(q) /\ LeftOf(q)' = LeftOf(q)
  BY <1>4, <1>5, <1>8 DEF Unmoved
<1>10. JQ!Forget({p})
  BY <1>5, <1>9 DEF JQ!Forget
<1> QED
  BY <1>10

\* A failed job with attempts left is undecodable; claiming it moves nothing.
LEMMA ClaimMaps ==
  ASSUME AllInv, AllInv', NEW w \in Workers, Claim(w)
  PROVE  (\E p \in Payloads : JQ!Claim(p, w)) \/ UNCHANGED JQ!vars
<1>0. BaseInv /\ HashTyped /\ ScanTyped
  BY DEF AllInv, BaseInv, StoreInv, StoreTyped
<1>1. pc[w] = "reserve" /\ UNCHANGED <<failedSet, history>>
  BY <1>0, ClaimDoes
<1>2. PICK e \in DOMAIN entries, id \in DOMAIN hash, j \in Job : ClaimedAs(w, e, id, j)
  BY <1>0, ClaimDoes
<1>3. /\ DOMAIN hash' = DOMAIN hash
      /\ \A i \in DOMAIN hash \ {id} : hash'[i] = hash[i]
      /\ hash'[id].attempts = hash[id].attempts + 1 /\ hash'[id].by = WorkerId[w]
      /\ \A i \in DOMAIN hash : hash'[i].payload = hash[i].payload /\ hash'[i].max = hash[i].max
  BY <1>0, <1>2, ClaimHashDoes DEF ClaimedAs
<1>4. pc \in [Workers -> Places] /\ job \in [Workers -> Job \cup {NoJob}]
  BY <1>0 DEF BaseInv, WorkerInv, WorkerTypeOK
<1>5. /\ job'[w] = j /\ pc'[w] \in Holding /\ pc[w] \notin Holding
      /\ \A v \in Workers \ {w} : pc'[v] = pc[v] /\ job'[v] = job[v]
      /\ j.id = id /\ j.attempts = hash[id].attempts + 1 /\ j.by = WorkerId[w]
  BY <1>1, <1>2, <1>4 DEF ClaimedAs, Holding
<1>6. OthersSame(id) /\ UNCHANGED <<pushed, forgotten>>
  BY <1>1, <1>3 DEF OthersSame, history
<1>7. HoldersSame(id)
  <2> SUFFICES ASSUME NEW v \in Workers, NEW o \in DOMAIN hash, o # id PROVE HasToken(v, o)' <=> HasToken(v, o)
    BY DEF HoldersSame
  <2>1. CASE v = w
    BY <1>5, <2>1 DEF HasToken
  <2>2. CASE v # w
    BY <1>3, <1>5, <2>2 DEF HasToken
  <2> QED
    BY <2>1, <2>2
<1>8. CASE id \in DOMAIN failedSet
  <2>1. \A o \in DOMAIN hash : o # id => \A v \in Workers : HasToken(v, o)' <=> HasToken(v, o)
    BY <1>7 DEF HoldersSame
  <2> QED
    BY <1>1, <1>3, <1>6, <1>8, <2>1, StutterStep
<1>9. CASE id \notin DOMAIN failedSet
  <2>1. PICK p \in Payloads : hash[id].payload = p
    BY LiveMaps
  <2>2. /\ StateOf(p) \in {"waiting", "held"} /\ LeftOf(p) = hash[id].max - hash[id].attempts
        /\ hash[id].max \in Nat /\ hash[id].attempts \in Nat
    BY <1>9, <2>1, LiveMaps
  <2>3. hash[id].attempts < hash[id].max
    BY <1>2, <2>2 DEF ClaimedAs, OutOfAttempts
  <2>4. \A q \in Payloads : q # p => Unmoved(q)
    BY <1>3, <1>6, <1>7, <2>1, OthersStill
  <2>5. MapsLive(p, id)'
    BY <1>3, MappedNext DEF Mapped
  <2>6. HasToken(w, id)'
    BY <1>3, <1>5 DEF HasToken
  <2>7. StateOf(p)' = "held" /\ HolderOf(p)' = w /\ LeftOf(p)' = hash'[id].max - hash'[id].attempts
    BY <1>1, <1>3, <1>9, <2>1, <2>5, <2>6, WorkerAssumption DEF MapsLive, WorkerAssumption
  <2>8. LeftOf(p)' = LeftOf(p) - 1 /\ LeftOf(p) > 0
    BY <1>3, <2>2, <2>3, <2>7
  <2>9. JQ!Set(p, "held", w, LeftOf(p) - 1)
    BY <2>4, <2>7, <2>8, Sets
  <2> QED
    BY <2>2, <2>8, <2>9 DEF JQ!Claim
<1> QED
  BY <1>8, <1>9

LEMMA ExhaustMaps ==
  ASSUME AllInv, AllInv', NEW w \in Workers, Exhaust(w)
  PROVE  (\E p \in Payloads : JQ!Exhaust(p)) \/ UNCHANGED JQ!vars
<1>1. UNCHANGED <<pushed, forgotten, pc, job>>
  BY ExhaustDoes
<1>2. PICK id \in DOMAIN hash : OutOfAttempts(id) /\ FailHash(id, scan[w].moment)
  BY ExhaustDoes
<1>3. PICK p \in Payloads : hash[id].payload = p
  BY LiveMaps
<1>4. JQ!Set(p, "failed", NoOne, 0) /\ (id \in DOMAIN failedSet => UNCHANGED JQ!vars)
  BY <1>1, <1>2, <1>3, IdleSame, FailStep
<1>5. ASSUME id \notin DOMAIN failedSet PROVE JQ!Exhaust(p)
  <2>1. /\ StateOf(p) \in {"waiting", "held"} /\ LeftOf(p) = hash[id].max - hash[id].attempts
        /\ hash[id].max \in Nat /\ hash[id].attempts \in Nat /\ hash[id].attempts <= hash[id].max
    BY <1>3, <1>5, LiveMaps
  <2>2. LeftOf(p) = 0
    BY <1>2, <2>1 DEF OutOfAttempts
  <2> QED
    BY <1>4, <2>1, <2>2 DEF JQ!Exhaust
<1> QED
  BY <1>4, <1>5

\* delete, release and fail of the worker that holds the job; a stale one lets go and no more.
LEMMA SettleMaps ==
  ASSUME AllInv, AllInv', NEW w \in Workers, Settle(w) \/ Discard(w)
  PROVE  (\E p \in Payloads : JQ!Delete(p, w) \/ JQ!Release(p, w) \/ JQ!Fail(p, w) \/ JQ!Abandon(p, w))
         \/ UNCHANGED JQ!vars
<1>0. BaseInv /\ ClaimInv /\ HashTyped /\ FailedAtRest
  BY InvFailedAtRest DEF AllInv, BaseInv, StoreInv, StoreTyped
<1>1. EmptyHanded(w) /\ pc[w] \in Holding /\ pushed' = pushed /\ forgotten' = forgotten
  BY <1>0, SettleDoes
<1>2. CASE QuietStep
  BY <1>1, <1>2, AbandonStep
<1>3. ASSUME NEW id \in DOMAIN hash, HasToken(w, id), job[w].id = id,
             \/ pc[w] = "settle" /\ hash' = Drop(hash, id) /\ failedSet' = failedSet
             \/ /\ pc[w] = "settle" /\ hash' = [hash EXCEPT ![id].until = 0, ![id].by = NoOne]
                /\ failedSet' = failedSet
             \/ FailHash(id, NowUtc(w))
      PROVE  (\E p \in Payloads : JQ!Delete(p, w) \/ JQ!Release(p, w) \/ JQ!Fail(p, w)) \/ UNCHANGED JQ!vars
  <2>1. PICK p \in Payloads : hash[id].payload = p
    BY LiveMaps
  <2>2. id \notin DOMAIN failedSet => HolderOf(p) = w /\ LeftOf(p) = hash[id].max - hash[id].attempts
    BY <1>3, <2>1, LiveMaps
  <2>3. OthersSame(id) => HoldersSame(id)
    BY <1>1, <1>3, LetsGoHolders
  <2>4. pc[w] = "settle" => id \notin DOMAIN failedSet
    BY <1>0, <1>1, <1>3 DEF FailedAtRest
  <2>5. CASE FailHash(id, NowUtc(w))
    <3>1. JQ!Set(p, "failed", NoOne, 0) /\ (id \in DOMAIN failedSet => UNCHANGED JQ!vars)
      BY <1>1, <2>1, <2>3, <2>5, FailStep
    <3> QED
      BY <2>2, <3>1 DEF JQ!Fail
  <2>6. CASE pc[w] = "settle" /\ hash' = Drop(hash, id) /\ failedSet' = failedSet
    <3>1. OthersSame(id) /\ id \notin DOMAIN hash'
      BY <2>6, DropSame
    <3>2. \A q \in Payloads : q # p => Unmoved(q)
      BY <1>1, <2>1, <2>3, <3>1, OthersStill
    <3>3. p \in pushed' /\ p \notin forgotten'
      BY <1>1, <2>1 DEF AllInv, OneCopy
    <3>4. HashesOf(p)' = {}
      BY <2>1, <3>1 DEF HashesOf, OthersSame, AllInv, OneCopy
    <3>5. StateOf(p)' = "done" /\ HolderOf(p)' = NoOne /\ LeftOf(p)' = 0
      BY <3>3, <3>4, MappedNext DEF Mapped, MapsOver
    <3>6. JQ!Set(p, "done", NoOne, 0)
      BY <3>2, <3>5, Sets
    <3> QED
      BY <2>2, <2>4, <2>6, <3>6 DEF JQ!Delete
  <2>7. CASE /\ pc[w] = "settle" /\ hash' = [hash EXCEPT ![id].until = 0, ![id].by = NoOne]
             /\ failedSet' = failedSet
    <3>1. /\ OthersSame(id) /\ id \in DOMAIN hash' /\ hash'[id].by = NoOne
          /\ hash'[id].payload = p /\ hash'[id].max - hash'[id].attempts = hash[id].max - hash[id].attempts
      BY <1>0, <2>1, <2>7, ReleaseSame
    <3>2. \A q \in Payloads : q # p => Unmoved(q)
      BY <1>1, <2>1, <2>3, <3>1, OthersStill
    <3>3. HolderOf(p) = w /\ LeftOf(p) = hash[id].max - hash[id].attempts /\ id \notin DOMAIN failedSet'
      BY <2>2, <2>4, <2>7
    <3>4. JQ!Set(p, "waiting", NoOne, LeftOf(p))
      BY <3>1, <3>2, <3>3, WaitsStep
    <3> QED
      BY <3>3, <3>4 DEF JQ!Release
  <2> QED
    BY <1>3, <2>5, <2>6, <2>7
<1> QED
  BY <1>0, <1>2, <1>3, SettleDoes

\* A handler starting or ending, and a signal, change no hands.
LEMMA RunMaps ==
  ASSUME AllInv, AllInv', NEW w \in Workers, RunJob(w) \/ Signal(w), QuietStep
  PROVE  UNCHANGED JQ!vars
<1>1. job' = job /\ \A v \in Workers : pc'[v] \in Holding <=> pc[v] \in Holding
  <2>1. CASE RunJob(w)
    <3>1. /\ job' = job /\ pc[w] \in {"start", "run"} /\ pc'[w] \in {"run", "settle"}
          /\ \A v \in Workers \ {w} : pc'[v] = pc[v]
      BY <2>1, RunJobFrame DEF AllInv, BaseInv
    <3>2. pc[w] \in Holding /\ pc'[w] \in Holding
      BY <3>1 DEF Holding
    <3> QED
      BY <3>1, <3>2
  <2>2. CASE Signal(w)
    BY <2>2 DEF Signal
  <2> QED
    BY <2>1, <2>2
<1>2. hash' = hash /\ failedSet' = failedSet /\ pushed' = pushed /\ forgotten' = forgotten
  BY DEF QuietStep
<1>3. \A v \in Workers : \A o \in DOMAIN hash : HasToken(v, o)' <=> HasToken(v, o)
  BY <1>1, <1>2 DEF HasToken
<1> QED
  BY <1>2, <1>3, StutterStep

LEMMA IdleMaps ==
  ASSUME AllInv, AllInv', QuietStep, UNCHANGED <<pc, job>>
  PROVE  UNCHANGED JQ!vars
<1>1. hash' = hash /\ failedSet' = failedSet /\ pushed' = pushed /\ forgotten' = forgotten
  BY DEF QuietStep
<1>2. \A v \in Workers : \A o \in DOMAIN hash : HasToken(v, o)' <=> HasToken(v, o)
  BY <1>1 DEF HasToken
<1> QED
  BY <1>1, <1>2, StutterStep

LEMMA NextMaps ==
  ASSUME AllInv, AllInv', [Next]_vars
  PROVE  [JQ!Next]_(JQ!vars)
<1>0. BaseInv /\ ClaimInv /\ WorkerInv /\ ScanTyped
  BY DEF AllInv, BaseInv
<1>1. CASE Push
  BY <1>1, PushMaps DEF JQ!Next
<1>2. CASE \/ Tick \/ UNCHANGED vars
           \/ \E w \in Workers : StartScript(w) \/ NothingTaken(w) \/ DropTombstone(w) \/ Park(w)
           \/ \E a \in Admins : AdminSelect(a) \/ AdminSelectBefore(a) \/ AdminInterrupted(a)
  <2>1. QuietStep
    BY <1>2, QuietSteps
  <2>2. UNCHANGED <<pc, job>>
    BY <1>2 DEF Tick, vars, StartScript, NothingTaken, DropTombstone, Park, ScriptOnly, AdminSelect,
                AdminSelectBefore, AdminInterrupted, workerVars
  <2> QED
    BY <2>1, <2>2, IdleMaps
<1>3. ASSUME NEW w \in Workers, ScriptReturnsNil(w) \/ LoopStep(w) \/ BeginReserve(w) \/ Fault(w)
      PROVE  [JQ!Next]_(JQ!vars)
  <2>1. QuietStep
    BY <1>3, QuietSteps
  <2>2. CASE RunJob(w) \/ Signal(w)
    BY <2>1, <2>2, RunMaps
  <2>3. CASE EmptyHanded(w)
    BY <2>1, <2>3, AbandonStep DEF JQ!Next
  <2>4. CASE ScriptReturnsNil(w)
    <3>1. pc[w] # "exit1" /\ now' = now /\ NextQueue(w)
      BY <1>0, <2>4 DEF ScanTyped, ScriptReturnsNil
    <3> QED
      BY <1>0, <2>3, <3>1, NextQueueDoes
  <2>5. CASE Quit(w) \/ CallReserve(w) \/ Rest(w) \/ Restart(w) \/ ReserveRaises(w) \/ Crash(w)
    BY <1>0, <2>3, <2>5, MovesEmptyHanded
  <2> QED
    BY <1>3, <2>2, <2>4, <2>5 DEF LoopStep, BeginReserve, Fault, ReserveError
<1>4. ASSUME NEW w \in Workers, Claim(w) PROVE [JQ!Next]_(JQ!vars)
  BY <1>4, ClaimMaps DEF JQ!Next
<1>5. ASSUME NEW w \in Workers, Exhaust(w) PROVE [JQ!Next]_(JQ!vars)
  BY <1>5, ExhaustMaps DEF JQ!Next
<1>6. ASSUME NEW w \in Workers, Settle(w) \/ Discard(w) PROVE [JQ!Next]_(JQ!vars)
  BY <1>6, SettleMaps DEF JQ!Next
<1>7. ASSUME NEW a \in Admins, AdminStep(a) PROVE [JQ!Next]_(JQ!vars)
  <2>1. UNCHANGED <<pushed, pc, job>>
    BY <1>0, <1>7, AdminDoes
  <2>2. CASE QuietStep
    BY <2>1, <2>2, IdleMaps
  <2>3. ASSUME NEW id \in DOMAIN hash \cap DOMAIN failedSet, Requeue(id) PROVE [JQ!Next]_(JQ!vars)
    BY <2>1, <2>3, RequeueMaps DEF JQ!Next
  <2>4. ASSUME NEW id \in DOMAIN hash \cap DOMAIN failedSet, ForgetHash(id) PROVE [JQ!Next]_(JQ!vars)
    BY <2>1, <2>4, ForgetMaps DEF JQ!Next
  <2> QED
    BY <1>0, <1>7, <2>2, <2>3, <2>4, AdminDoes
<1> QED
  BY <1>1, <1>2, <1>3, <1>4, <1>5, <1>6, <1>7 DEF Next, ScriptStep, ClientStep, Admin

\* queue/interface.py as JobQueue states it, by driver_redis.py: every script, fault and
\* operator's command is one step of the abstract queue on one job, or none, through parking,
\* promotion, takeover, tombstones and claims of a job that has failed already, as long as no
\* operator retries jobs of processes that share an id.
THEOREM ScriptsImplementJobQueue == ASSUME Exclusive PROVE Spec => ImplementsJobQueue
<1>1. Init => JQ!Init
  BY DEF Init, JQ!Init, StateOf, HolderOf, HoldersOf, LeftOf, HashesOf
<1>2. AllInv /\ AllInv' /\ [Next]_vars => [JQ!Next]_(JQ!vars)
  BY NextMaps
<1> QED
  BY <1>1, <1>2, AllInvariant, PTL DEF Spec, ImplementsJobQueue, JQ!Spec

=============================================================================
