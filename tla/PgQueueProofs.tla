---------------------------- MODULE PgQueueProofs ----------------------------
(***************************************************************************)
(* The PostgreSQL driver for any number of workers, jobs, operators and    *)
(* faults, any clocks, and any assignment of worker ids.                   *)
(***************************************************************************)
EXTENDS PgQueueRefines, QueueWorkerProofs, FiniteSetTheorems

(* Tables *)

LEMMA PutType ==
  ASSUME NEW S, NEW D, NEW f \in [D -> S], NEW x, NEW v \in S
  PROVE  Put(f, x, v) \in [D \cup {x} -> S]
BY DEF Put

LEMMA DropType ==
  ASSUME NEW S, NEW D, NEW f \in [D -> S], NEW x
  PROVE  Drop(f, x) \in [D \ {x} -> S]
BY DEF Drop

TablesOK ==
  /\ nextId \in Nat \ {0} /\ nextFailed \in Nat \ {0}
  /\ jobs \in [DOMAIN jobs -> Row] /\ DOMAIN jobs \subseteq 1..(nextId - 1)
  /\ failed \in [DOMAIN failed -> FailedRow] /\ DOMAIN failed \subseteq 1..(nextFailed - 1)
RestOK ==
  /\ scan \in [Workers -> Scan]
  /\ batch \in [Admins -> SUBSET Pick]
  /\ pushed \subseteq Payloads /\ forgotten \subseteq Payloads

TypeInv == WorkerInv /\ TablesOK /\ RestOK

LEMMA TypeParts == TypeInv <=> TypeOK /\ GivesUp
BY DEF TypeInv, TypeOK, WorkerInv, TablesOK, RestOK

LEMMA NowUtcType == ASSUME TypeInv, NEW w \in Workers PROVE NowUtc(w) \in Nat /\ NowUtc(w) >= now
<1>1. now \in Nat
  BY DEF TypeInv, WorkerInv, TablesOK, RestOK, WorkerTypeOK
<1>2. Skew[w] \in Nat
  BY WorkerAssumption DEF WorkerAssumption
<1> QED
  BY <1>1, <1>2 DEF NowUtc

LEMMA ClaimSecondsType == ClaimSeconds \in Nat \ {0}
BY WorkerAssumption DEF WorkerAssumption, ClaimSeconds, AtLeast

LEMMA MoveToFailedType ==
  ASSUME TypeInv, NEW id \in DOMAIN jobs, NEW at \in Nat, MoveToFailed(id, at)
  PROVE  TablesOK'
<1>1. TablesOK /\ jobs[id] \in Row
  BY DEF TypeInv, WorkerInv, TablesOK, RestOK, TablesOK
<1> DEFINE row == [queue |-> jobs[id].queue, payload |-> jobs[id].payload,
                   attempts |-> jobs[id].attempts, at |-> at]
<1>2. row \in FailedRow
  <2>1. jobs[id].queue \in QueueNames /\ jobs[id].payload \in Payloads /\ jobs[id].attempts \in Nat
    BY <1>1 DEF Row
  <2> QED
    BY <2>1 DEF FailedRow
<1>3. failed' \in [DOMAIN failed \cup {nextFailed} -> FailedRow]
  <2>1. failed' = Put(failed, nextFailed, row)
    BY DEF MoveToFailed
  <2> HIDE DEF row
  <2> QED
    BY <1>1, <1>2, <2>1, PutType DEF TablesOK
<1>4. jobs' \in [DOMAIN jobs \ {id} -> Row]
  BY <1>1, DropType DEF MoveToFailed, TablesOK
<1> QED
  BY <1>1, <1>3, <1>4 DEF MoveToFailed, TablesOK

LEMMA NoScanType == NoScan \in Scan
BY PgAssumption DEF PgAssumption, NoScan, Scan

LEMMA BeginRoundType ==
  ASSUME TypeInv, NEW w \in Workers, NEW q \in DOMAIN Queues, NEW round \in 1..ClaimRounds, BeginRound(w, q, round)
  PROVE  scan' \in [Workers -> Scan]
<1>1. [q |-> q, round |-> round, cand |-> 0, moment |-> NowUtc(w)] \in Scan
  BY NowUtcType DEF Scan
<1> QED
  BY <1>1 DEF BeginRound, TypeInv, RestOK

LEMMA NextQueueType ==
  ASSUME TypeInv, NEW w \in Workers, pc[w] # "exit1", now' = now, NextQueue(w)
  PROVE  WorkerInv' /\ scan' \in [Workers -> Scan]
<1>1. CASE scan[w].q < Len(Queues)
  <2>1. scan[w].q + 1 \in DOMAIN Queues
    BY <1>1, PgAssumption DEF PgAssumption, TypeInv, WorkerInv, TablesOK, RestOK, Scan
  <2>2. 1 \in 1..ClaimRounds
    BY PgAssumption DEF PgAssumption
  <2>3. scan' \in [Workers -> Scan]
    BY <1>1, <2>1, <2>2, BeginRoundType DEF NextQueue
  <2> QED
    BY <1>1, <2>3, KeepLookingInv DEF NextQueue, TypeInv
<1>2. CASE ~(scan[w].q < Len(Queues))
  BY <1>2, ReserveReturnsNoneInv, NoScanType DEF NextQueue, RestOK, TypeInv
<1> QED
  BY <1>1, <1>2

LEMMA NextRoundType ==
  ASSUME TypeInv, NEW w \in Workers, pc[w] # "exit1", now' = now, NextRound(w)
  PROVE  WorkerInv' /\ scan' \in [Workers -> Scan]
<1>1. CASE scan[w].round < ClaimRounds
  <2>1. scan[w].q \in DOMAIN Queues /\ scan[w].round + 1 \in 1..ClaimRounds
    <3>1. scan[w].q \in DOMAIN Queues /\ scan[w].round \in 1..ClaimRounds
      BY DEF TypeInv, RestOK, Scan
    <3> QED
      BY <1>1, <3>1, PgAssumption DEF PgAssumption
  <2>2. scan' \in [Workers -> Scan]
    BY <1>1, <2>1, BeginRoundType DEF NextRound
  <2> QED
    BY <1>1, <2>2, KeepLookingInv DEF NextRound, TypeInv
<1>2. CASE ~(scan[w].round < ClaimRounds)
  BY <1>2, NextQueueType DEF NextRound
<1> QED
  BY <1>1, <1>2

-----------------------------------------------------------------------------
(* Every step keeps the types *)

\* A row that push or retry inserts.
LEMMA InsertType ==
  ASSUME TypeInv, NEW row \in Row, jobs' = Put(jobs, nextId, row), nextId' = nextId + 1
  PROVE  /\ nextId' \in Nat \ {0}
         /\ jobs' \in [DOMAIN jobs' -> Row] /\ DOMAIN jobs' \subseteq 1..(nextId' - 1)
         /\ DOMAIN jobs' = DOMAIN jobs \cup {nextId}
<1>1. TablesOK
  BY DEF TypeInv
<1>2. jobs' \in [DOMAIN jobs \cup {nextId} -> Row]
  BY <1>1, PutType DEF TablesOK
<1> QED
  BY <1>1, <1>2 DEF TablesOK

LEMMA PushType ==
  ASSUME TypeInv, Push
  PROVE  TypeInv'
<1>1. PICK p \in Payloads \ pushed, q \in QueueNames, prio \in Priorities, delay \in Delays, max \in Budgets :
        /\ jobs' = Put(jobs, nextId,
                       [queue |-> q, payload |-> p, prio |-> prio, attempts |-> 0,
                        max |-> AtLeast(1, max), avail |-> now + AtLeast(0, delay),
                        until |-> 0, by |-> NoOne])
        /\ pushed' = pushed \cup {p}
  BY DEF Push
<1> DEFINE row == [queue |-> q, payload |-> p, prio |-> prio, attempts |-> 0,
                   max |-> AtLeast(1, max), avail |-> now + AtLeast(0, delay),
                   until |-> 0, by |-> NoOne]
<1>2. row \in Row
  <2>1. prio \in Int /\ AtLeast(1, max) \in Nat /\ AtLeast(0, delay) \in Nat /\ now \in Nat
    BY PgAssumption DEF PgAssumption, AtLeast, TypeInv, WorkerInv, TablesOK, RestOK, WorkerTypeOK
  <2> QED
    BY <2>1 DEF Row
<1>3. jobs' = Put(jobs, nextId, row) /\ nextId' = nextId + 1
  BY <1>1 DEF Push
<1> HIDE DEF row
<1>4. TablesOK'
  BY <1>2, <1>3, InsertType DEF TablesOK, Push, TypeInv
<1>5. RestOK'
  BY <1>1 DEF RestOK, Push, TypeInv
<1>6. WorkerInv'
  BY DEF Push, workerVars, WorkerInv, WorkerTypeOK, GivesUp, TypeInv
<1> QED
  BY <1>4, <1>5, <1>6 DEF TypeInv

LEMMA TickType ==
  ASSUME TypeInv, Tick
  PROVE  TypeInv'
<1>1. TablesOK' /\ RestOK'
  BY DEF Tick, TablesOK, RestOK, tables, history, TypeInv
<1>2. WorkerInv'
  BY DEF Tick, workerVars, WorkerInv, WorkerTypeOK, GivesUp, TypeInv
<1> QED
  BY <1>1, <1>2 DEF TypeInv

\* Steps that leave everything but the worker alone.
LEMMA WorkerOnlyType ==
  ASSUME TypeInv, NEW w \in Workers, UNCHANGED <<now, tables, scan, batch, history>>,
         Quit(w) \/ Rest(w) \/ RunJob(w) \/ Restart(w) \/ Signal(w)
  PROVE  TypeInv'
<1>1. TablesOK' /\ RestOK'
  BY DEF TablesOK, RestOK, tables, history, TypeInv
<1>2. WorkerInv'
  BY MoveInv, RunJobInv, RestartInv, SignalInv DEF TypeInv
<1> QED
  BY <1>1, <1>2 DEF TypeInv

LEMMA BeginReserveType ==
  ASSUME TypeInv, NEW w \in Workers, BeginReserve(w)
  PROVE  TypeInv'
<1>1. WorkerInv'
  BY MoveInv DEF BeginReserve, TypeInv
<1>2. 1 \in DOMAIN Queues /\ 1 \in 1..ClaimRounds
  BY PgAssumption DEF PgAssumption
<1>3. scan' \in [Workers -> Scan]
  BY <1>2, BeginRoundType DEF BeginReserve
<1> QED
  BY <1>1, <1>3 DEF BeginReserve, TablesOK, RestOK, tables, history, TypeInv

LEMMA FindNothingType ==
  ASSUME TypeInv, NEW w \in Workers, FindNothing(w)
  PROVE  TypeInv'
<1>1. WorkerInv' /\ scan' \in [Workers -> Scan]
  BY NextQueueType DEF FindNothing, Looking
<1> QED
  BY <1>1 DEF FindNothing, TablesOK, RestOK, tables, history, TypeInv

LEMMA FindExhaustedType ==
  ASSUME TypeInv, NEW w \in Workers, FindExhausted(w)
  PROVE  TypeInv'
<1>1. WorkerInv' /\ scan' \in [Workers -> Scan]
  BY NextRoundType DEF FindExhausted, Looking
<1>2. TablesOK'
  BY NowUtcType, MoveToFailedType DEF FindExhausted
<1> QED
  BY <1>1, <1>2 DEF FindExhausted, RestOK, history, TypeInv

LEMMA FindCandidateType ==
  ASSUME TypeInv, NEW w \in Workers, FindCandidate(w)
  PROVE  TypeInv'
<1>1. TablesOK' /\ WorkerInv'
  BY DEF FindCandidate, TablesOK, tables, workerVars, WorkerInv, WorkerTypeOK, GivesUp, TypeInv
<1>2. scan' \in [Workers -> Scan]
  <2>1. PICK id \in DOMAIN jobs : scan' = [scan EXCEPT ![w].cand = id]
    BY DEF FindCandidate
  <2>2. id \in Nat /\ scan \in [Workers -> Scan]
    BY DEF TypeInv, TablesOK, RestOK
  <2> QED
    BY <2>1, <2>2 DEF Scan
<1> QED
  BY <1>1, <1>2 DEF FindCandidate, RestOK, history, TypeInv

\* What Claim needs of the row it found; CandidateStable provides it.
CandidateHere(w) == scan[w].cand \in DOMAIN jobs

LEMMA ClaimType ==
  ASSUME TypeInv, NEW w \in Workers, CandidateHere(w), Claim(w)
  PROVE  TypeInv'
<1> DEFINE id == scan[w].cand
           j  == [id |-> id, payload |-> jobs[id].payload, attempts |-> jobs'[id].attempts,
                  max |-> jobs[id].max, by |-> WorkerId[w], handle |-> 0]
<1>1. id \in DOMAIN jobs /\ jobs[id] \in Row /\ id \in Nat /\ scan[w].moment \in Nat
  BY DEF CandidateHere, TypeInv, TablesOK, RestOK, Scan
<1>2. jobs' = [jobs EXCEPT ![id].until = scan[w].moment + ClaimSeconds,
                           ![id].by = WorkerId[w],
                           ![id].attempts = @ + 1]
  BY DEF Claim, ClaimRow
<1>3. scan[w].moment + ClaimSeconds \in Nat /\ jobs[id].attempts + 1 \in Nat
  BY <1>1, ClaimSecondsType DEF Row
<1>4. jobs' \in [DOMAIN jobs -> Row] /\ jobs'[id].attempts \in Nat
  BY <1>1, <1>2, <1>3 DEF Row, TypeInv, TablesOK
<1>5. TablesOK'
  BY <1>4 DEF Claim, TypeInv, TablesOK
<1>6. j \in Job
  BY <1>1, <1>4 DEF Job, Row
<1>7. WorkerInv'
  <2>1. CASE j.payload \in Undecodable
    <3>1. job' = [job EXCEPT ![w] = j] /\ Goto(w, "discard") /\ now' = now /\ pc[w] = "reserve"
          /\ UNCHANGED <<plan, deadline, failures, done, started, signals, faults, finished>>
      BY <2>1 DEF Claim
    <3> HIDE DEF j
    <3> QED
      BY <1>6, <3>1, KeepLookingInv DEF TypeInv
  <2>2. CASE j.payload \notin Undecodable
    <3>1. ReserveReturns(w, j) /\ now' = now /\ pc[w] = "reserve"
      BY <2>2 DEF Claim
    <3> HIDE DEF j
    <3> QED
      BY <1>6, <3>1, ReserveReturnsInv DEF TypeInv
  <2> QED
    BY <2>1, <2>2
<1>8. RestOK'
  <2>1. scan' = [scan EXCEPT ![w].cand = 0] \/ scan' = [scan EXCEPT ![w] = NoScan]
    BY DEF Claim
  <2>2. scan' \in [Workers -> Scan]
    BY <2>1, NoScanType DEF Scan, TypeInv, RestOK
  <2> QED
    BY <2>2 DEF Claim, TypeInv, RestOK, history
<1> QED
  BY <1>5, <1>7, <1>8 DEF TypeInv

LEMMA DiscardType ==
  ASSUME TypeInv, NEW w \in Workers, Discard(w)
  PROVE  TypeInv'
<1>1. WorkerInv' /\ scan' \in [Workers -> Scan]
  BY NextRoundType DEF Discard
<1>2. TablesOK'
  BY NowUtcType, MoveToFailedType DEF Discard, Owned, tables, TypeInv, TablesOK
<1> QED
  BY <1>1, <1>2 DEF Discard, TypeInv, RestOK, history

LEMMA ApplyType ==
  ASSUME TypeInv, NEW w \in Workers, job[w].id \in DOMAIN jobs, Apply(w)
  PROVE  TablesOK'
<1> DEFINE id == job[w].id
<1>1. id \in DOMAIN jobs /\ jobs[id] \in Row /\ plan[w] \in Plan /\ TablesOK
  BY DEF TypeInv, WorkerInv, WorkerTypeOK, TablesOK
<1>2. NowUtc(w) \in Nat /\ NowUtc(w) + plan[w].delay \in Nat
  BY <1>1, NowUtcType DEF Plan
<1>3. CASE plan[w].op = "delete"
  <2>1. jobs' = Drop(jobs, id) /\ UNCHANGED <<failed, nextId, nextFailed>>
    BY <1>3 DEF Apply
  <2>2. jobs' \in [DOMAIN jobs \ {id} -> Row]
    BY <1>1, <2>1, DropType DEF TablesOK
  <2> QED
    BY <1>1, <2>1, <2>2 DEF TablesOK
<1>4. CASE plan[w].op = "release"
  <2>1. jobs' = [jobs EXCEPT ![id].until = 0, ![id].by = NoOne, ![id].avail = NowUtc(w) + plan[w].delay]
        /\ UNCHANGED <<failed, nextId, nextFailed>>
    BY <1>4 DEF Apply
  <2>2. jobs' \in [DOMAIN jobs -> Row]
    BY <1>1, <1>2, <2>1 DEF Row, TablesOK
  <2> QED
    BY <1>1, <2>1, <2>2 DEF TablesOK
<1>5. CASE plan[w].op = "fail"
  <2>1. MoveToFailed(id, NowUtc(w))
    BY <1>5 DEF Apply
  <2> QED
    BY <1>1, <1>2, <2>1, MoveToFailedType
<1> QED
  BY <1>1, <1>3, <1>4, <1>5 DEF Plan

LEMMA SettleType ==
  ASSUME TypeInv, NEW w \in Workers, Settle(w)
  PROVE  TypeInv'
<1>1. WorkerInv'
  BY SettledInv DEF Settle, TypeInv
<1>2. TablesOK'
  BY ApplyType DEF Settle, Owned, tables, TypeInv, TablesOK
<1> QED
  BY <1>1, <1>2 DEF Settle, TypeInv, RestOK, history

LEMMA ReserveErrorType ==
  ASSUME TypeInv, NEW w \in Workers,
         ReserveError(w) \/ (Crash(w) /\ scan' = [scan EXCEPT ![w] = NoScan]
                             /\ UNCHANGED <<now, tables, batch, history>>)
  PROVE  TypeInv'
<1>1. WorkerInv'
  BY ReserveRaisesInv, CrashInv DEF ReserveError, TypeInv
<1>2. scan' \in [Workers -> Scan]
  BY NoScanType DEF ReserveError, TypeInv, RestOK
<1>3. UNCHANGED <<tables, batch, history>>
  BY DEF ReserveError
<1> QED
  BY <1>1, <1>2, <1>3 DEF TypeInv, TablesOK, RestOK, tables, history

LEMMA AdminType ==
  ASSUME TypeInv, NEW a \in Admins, Admin(a)
  PROVE  TypeInv'
<1>0. (UNCHANGED <<now, workerVars>>) => WorkerInv'
  BY DEF workerVars, TypeInv, WorkerInv, WorkerTypeOK, GivesUp
<1>1. CASE RetrySelect(a)
  <2>1. PICK ids \in SUBSET DOMAIN failed :
          batch' = [batch EXCEPT ![a] = {[id |-> f, row |-> failed[f]] : f \in ids}]
    BY <1>1 DEF RetrySelect
  <2>2. \A f \in ids : [id |-> f, row |-> failed[f]] \in Pick
    BY DEF TypeInv, TablesOK, Pick
  <2>3. batch' \in [Admins -> SUBSET Pick]
    BY <2>1, <2>2 DEF TypeInv, RestOK
  <2> QED
    BY <1>0, <1>1, <2>3 DEF RetrySelect, TypeInv, TablesOK, RestOK, tables, history
<1>2. CASE RetryMove(a)
  <2>1. PICK b \in batch[a] :
          /\ jobs' = Put(jobs, nextId,
                         [queue |-> b.row.queue, payload |-> b.row.payload, prio |-> 0, attempts |-> 0,
                          max |-> AtLeast(1, Tries), avail |-> now, until |-> 0, by |-> NoOne])
          /\ failed' = Drop(failed, b.id)
          /\ batch' = [batch EXCEPT ![a] = @ \ {b}]
    BY <1>2 DEF RetryMove
  <2> DEFINE row == [queue |-> b.row.queue, payload |-> b.row.payload, prio |-> 0, attempts |-> 0,
                     max |-> AtLeast(1, Tries), avail |-> now, until |-> 0, by |-> NoOne]
  <2>2. b.row.queue \in QueueNames /\ b.row.payload \in Payloads /\ now \in Nat
    BY DEF TypeInv, RestOK, Pick, FailedRow, WorkerInv, WorkerTypeOK
  <2>3. row \in Row
    BY <2>2, PgAssumption DEF PgAssumption, Row, AtLeast
  <2>4. jobs' = Put(jobs, nextId, row) /\ nextId' = nextId + 1
    BY <1>2, <2>1 DEF RetryMove
  <2> HIDE DEF row
  <2>5. failed' \in [DOMAIN failed \ {b.id} -> FailedRow]
    BY <2>1, DropType DEF TypeInv, TablesOK
  <2>6. TablesOK'
    BY <1>2, <2>3, <2>4, <2>5, InsertType DEF RetryMove, TypeInv, TablesOK
  <2>7. batch' \in [Admins -> SUBSET Pick]
    BY <2>1 DEF TypeInv, RestOK
  <2> QED
    BY <1>0, <1>2, <2>6, <2>7 DEF RetryMove, TypeInv, RestOK, history
<1>3. CASE RetryInterrupted(a)
  <2>1. batch' \in [Admins -> SUBSET Pick]
    BY <1>3 DEF RetryInterrupted, TypeInv, RestOK
  <2> QED
    BY <1>0, <1>3, <2>1 DEF RetryInterrupted, TypeInv, TablesOK, RestOK, tables, history
<1>4. CASE ForgetFailed(a)
  <2>1. PICK ids \in SUBSET DOMAIN failed :
          /\ failed' = [f \in DOMAIN failed \ ids |-> failed[f]]
          /\ forgotten' = forgotten \cup {failed[f].payload : f \in ids}
    BY <1>4 DEF ForgetFailed
  <2>2. forgotten' \subseteq Payloads
    BY <2>1 DEF TypeInv, TablesOK, RestOK, FailedRow
  <2>3. TablesOK'
    BY <1>4, <2>1 DEF ForgetFailed, TypeInv, TablesOK
  <2> QED
    BY <1>0, <1>4, <2>2, <2>3 DEF ForgetFailed, TypeInv, RestOK
<1> QED
  BY <1>1, <1>2, <1>3, <1>4 DEF Admin

-----------------------------------------------------------------------------
(* Every step but a claim and the SELECT before it leaves the claims alone *)

\* Nobody comes to hold a job.
NoNewHolder == \A v \in Workers : pc'[v] \in Holding => pc[v] \in Holding /\ job'[v] = job[v]

\* Rows keep their counts and payload; a new row has a new id and no attempts.
RowsKept ==
  /\ nextId' >= nextId
  /\ \A id \in DOMAIN jobs' :
       \/ /\ id \in DOMAIN jobs
          /\ jobs'[id].attempts = jobs[id].attempts /\ jobs'[id].max = jobs[id].max
          /\ jobs'[id].payload = jobs[id].payload
       \/ id >= nextId /\ jobs'[id].attempts = 0

\* Open transactions stay as they were, and their rows with them; a moment is
\* kept, dropped or read from the clock.
LocksKept ==
  /\ now' >= now
  /\ \A v \in Workers : scan'[v].moment \in {scan[v].moment, 0, NowUtc(v)}
  /\ \A v \in Workers : scan'[v].cand # 0 =>
       /\ scan'[v].cand = scan[v].cand /\ scan'[v].moment = scan[v].moment /\ pc'[v] = pc[v]
       /\ scan[v].cand \in DOMAIN jobs => /\ scan[v].cand \in DOMAIN jobs'
                                          /\ jobs'[scan[v].cand] = jobs[scan[v].cand]

LEMMA TokensKept ==
  ASSUME TypeInv, TypeInv', ClaimInv, NoNewHolder, RowsKept
  PROVE  TokensBounded' /\ TokensUnique' /\ AttemptBudget'
<1>1. TokensUnique'
  BY DEF ClaimInv, TokensUnique, NoNewHolder
<1>2. TokensBounded'
  <2> SUFFICES ASSUME NEW v \in Workers, pc'[v] \in Holding
               PROVE  /\ job'[v].id \in 1..(nextId' - 1)
                      /\ job'[v].id \in DOMAIN jobs' =>
                           /\ job'[v].attempts <= jobs'[job'[v].id].attempts
                           /\ job'[v].payload = jobs'[job'[v].id].payload
    BY DEF TokensBounded
  <2>1. pc[v] \in Holding /\ job'[v] = job[v] /\ job[v].id \in 1..(nextId - 1)
    BY DEF NoNewHolder, ClaimInv, TokensBounded
  <2>2. nextId \in Nat /\ nextId' \in Nat /\ nextId' >= nextId
    BY DEF TypeInv, TablesOK, RowsKept
  <2>3. job[v].id \in DOMAIN jobs' => job[v].id \in DOMAIN jobs
                                      /\ jobs'[job[v].id].attempts = jobs[job[v].id].attempts
                                      /\ jobs'[job[v].id].payload = jobs[job[v].id].payload
    BY <2>1, <2>2 DEF RowsKept
  <2> QED
    BY <2>1, <2>2, <2>3 DEF ClaimInv, TokensBounded
<1>3. AttemptBudget'
  <2>1. \A id \in DOMAIN jobs' : jobs'[id].attempts <= jobs'[id].max
    BY DEF RowsKept, ClaimInv, AttemptBudget, TypeInv, TablesOK, Row
  <2>2. \A v \in Workers : pc'[v] \in Holding => job'[v].attempts \in 1..job'[v].max
    BY DEF NoNewHolder, ClaimInv, AttemptBudget
  <2> QED
    BY <2>1, <2>2 DEF AttemptBudget
<1> QED
  BY <1>1, <1>2, <1>3

LEMMA CandidatesKept ==
  ASSUME TypeInv, TypeInv', ClaimInv, LocksKept
  PROVE  CandidateStable' /\ MomentPast'
<1>1. CandidateStable'
  <2> SUFFICES ASSUME NEW w \in Workers, scan'[w].cand # 0
               PROVE  /\ scan'[w].cand \in DOMAIN jobs'
                      /\ jobs'[scan'[w].cand].until <= scan'[w].moment
                      /\ jobs'[scan'[w].cand].attempts < jobs'[scan'[w].cand].max
                      /\ \A v \in Workers : scan'[v].cand = scan'[w].cand => v = w
    BY DEF CandidateStable
  <2>1. scan'[w].cand = scan[w].cand /\ scan'[w].moment = scan[w].moment
    BY DEF LocksKept
  <2>2. scan[w].cand \in DOMAIN jobs
    BY <2>1 DEF ClaimInv, CandidateStable
  <2>3. scan[w].cand \in DOMAIN jobs' /\ jobs'[scan[w].cand] = jobs[scan[w].cand]
    BY <2>2 DEF LocksKept
  <2>4. \A v \in Workers : scan'[v].cand = scan'[w].cand => v = w
    BY <2>1 DEF LocksKept, ClaimInv, CandidateStable
  <2> QED
    BY <2>1, <2>3, <2>4 DEF ClaimInv, CandidateStable
<1>2. MomentPast'
  <2> SUFFICES ASSUME NEW w \in Workers
               PROVE  (scan'[w].cand # 0 => pc'[w] = "reserve") /\ scan'[w].moment <= now' + Skew[w]
    BY DEF MomentPast, NowUtc
  <2>1. scan'[w].moment \in {scan[w].moment, 0, now + Skew[w]} /\ now' >= now
    BY DEF LocksKept, NowUtc
  <2>2. (scan'[w].cand # 0 => pc'[w] = "reserve") /\ scan[w].moment <= now + Skew[w]
    BY DEF LocksKept, ClaimInv, MomentPast, NowUtc
  <2>3. now \in Nat /\ now' \in Nat /\ Skew[w] \in Nat /\ scan[w].moment \in Nat
    BY WorkerAssumption DEF WorkerAssumption, TypeInv, WorkerInv, WorkerTypeOK, RestOK, Scan
  <2> QED
    BY <2>1, <2>2, <2>3
<1> QED
  BY <1>1, <1>2

Frame == NoNewHolder /\ RowsKept /\ LocksKept

LEMMA FrameInv ==
  ASSUME TypeInv, TypeInv', ClaimInv, Frame
  PROVE  ClaimInv'
BY TokensKept, CandidatesKept DEF ClaimInv, Frame

\* The worker lets go of what it has in hand, its transaction included.
LetsGo(w) ==
  /\ pc'[w] \notin Holding /\ scan'[w].cand = 0 /\ scan'[w].moment \in {scan[w].moment, 0, NowUtc(w)}
  /\ \A v \in Workers : v # w => pc'[v] = pc[v] /\ job'[v] = job[v] /\ scan'[v] = scan[v]

LEMMA NextRoundLetsGo ==
  ASSUME TypeInv, NEW w \in Workers, NextRound(w) \/ NextQueue(w)
  PROVE  LetsGo(w)
<1>1. pc \in [Workers -> Places] /\ job \in [Workers -> Job \cup {NoJob}] /\ scan \in [Workers -> Scan]
  BY DEF TypeInv, WorkerInv, WorkerTypeOK, RestOK
<1>2. \E place \in {"reserve", "exit0", "rest"} : pc' = [pc EXCEPT ![w] = place]
  BY DEF NextRound, NextQueue, ReserveReturnsNone, Goto
<1>3. job' = [job EXCEPT ![w] = NoJob]
  BY DEF NextRound, NextQueue, ReserveReturnsNone
<1>4. scan'[w].cand = 0 /\ scan'[w].moment \in {0, NowUtc(w)} /\ \A v \in Workers : v # w => scan'[v] = scan[v]
  <2>1. scan' = [scan EXCEPT ![w] = NoScan] \/ \E q, round : BeginRound(w, q, round)
    BY DEF NextRound, NextQueue
  <2>2. CASE scan' = [scan EXCEPT ![w] = NoScan]
    BY <1>1, <2>2 DEF NoScan
  <2>3. CASE \E q, round : BeginRound(w, q, round)
    BY <1>1, <2>3 DEF BeginRound
  <2> QED
    BY <2>1, <2>2, <2>3
<1> QED
  BY <1>1, <1>2, <1>3, <1>4 DEF LetsGo, Holding

LEMMA BeginReserveLetsGo ==
  ASSUME TypeInv, NEW w \in Workers, BeginReserve(w)
  PROVE  LetsGo(w) /\ job' = job
<1>1. pc \in [Workers -> Places] /\ scan \in [Workers -> Scan]
  BY DEF TypeInv, WorkerInv, WorkerTypeOK, RestOK
<1>2. pc' = [pc EXCEPT ![w] = "reserve"] /\ job' = job
  BY DEF BeginReserve, CallReserve, Goto
<1>3. scan' = [scan EXCEPT ![w] = [q |-> 1, round |-> 1, cand |-> 0, moment |-> NowUtc(w)]]
  BY DEF BeginReserve, BeginRound
<1> QED
  BY <1>1, <1>2, <1>3 DEF LetsGo, Holding

LEMMA LetsGoKeeps ==
  ASSUME NEW w \in Workers, LetsGo(w)
  PROVE  NoNewHolder
BY DEF LetsGo, NoNewHolder

\* A row that nobody has locked goes from jobs to failed, or nothing does.
LEMMA MoveKeeps ==
  ASSUME TypeInv, TypeInv', NEW id \in DOMAIN jobs, NEW at, MoveToFailed(id, at)
  PROVE  RowsKept /\ \A o \in DOMAIN jobs : o # id => o \in DOMAIN jobs' /\ jobs'[o] = jobs[o]
BY DEF MoveToFailed, Drop, RowsKept, TypeInv, TablesOK

LEMMA SameTablesKeep ==
  ASSUME TypeInv, UNCHANGED tables
  PROVE  RowsKept /\ \A o \in DOMAIN jobs : o \in DOMAIN jobs' /\ jobs'[o] = jobs[o]
BY DEF tables, RowsKept, TypeInv, TablesOK

\* No lock is lost when one worker lets go and only unlocked rows change.
LEMMA LetsGoLocks ==
  ASSUME TypeInv, NEW w \in Workers, LetsGo(w), now' = now,
         \A o \in DOMAIN jobs : o \in Locked => o \in DOMAIN jobs' /\ jobs'[o] = jobs[o]
  PROVE  LocksKept
<1>1. now \in Nat
  BY DEF TypeInv, WorkerInv, WorkerTypeOK
<1>0. \A v \in Workers : scan'[v].moment \in {scan[v].moment, 0, NowUtc(v)}
  BY DEF LetsGo
<1> SUFFICES ASSUME NEW v \in Workers, scan'[v].cand # 0
             PROVE  /\ scan'[v].cand = scan[v].cand /\ scan'[v].moment = scan[v].moment /\ pc'[v] = pc[v]
                    /\ scan[v].cand \in DOMAIN jobs => /\ scan[v].cand \in DOMAIN jobs'
                                                       /\ jobs'[scan[v].cand] = jobs[scan[v].cand]
  BY <1>0, <1>1 DEF LocksKept
<1>2. v # w /\ scan'[v] = scan[v] /\ pc'[v] = pc[v]
  BY DEF LetsGo
<1>3. scan[v].cand \in Locked
  BY <1>2 DEF Locked
<1> QED
  BY <1>2, <1>3

LEMMA LookFrame ==
  ASSUME TypeInv, TypeInv', ClaimInv, NEW w \in Workers,
         BeginReserve(w) \/ FindNothing(w) \/ FindExhausted(w) \/ Discard(w)
  PROVE  Frame
<1>1. LetsGo(w) /\ now' = now
  BY NextRoundLetsGo, BeginReserveLetsGo DEF BeginReserve, FindNothing, FindExhausted, Discard
<1>2. RowsKept /\ \A o \in DOMAIN jobs : o \in Locked => o \in DOMAIN jobs' /\ jobs'[o] = jobs[o]
  <2>1. CASE BeginReserve(w) \/ FindNothing(w)
    BY <2>1, SameTablesKeep DEF BeginReserve, FindNothing
  <2>2. CASE FindExhausted(w)
    <3>1. PICK id \in DOMAIN jobs : IsCandidate(id, w) /\ MoveToFailed(id, NowUtc(w))
      BY <2>2 DEF FindExhausted
    <3>2. id \notin Locked
      BY <3>1 DEF IsCandidate
    <3> QED
      BY <3>1, <3>2, MoveKeeps
  <2>3. CASE Discard(w)
    BY <2>3, SameTablesKeep, MoveKeeps DEF Discard, Owned
  <2> QED
    BY <2>1, <2>2, <2>3
<1> QED
  BY <1>1, <1>2, LetsGoKeeps, LetsGoLocks DEF Frame

LEMMA ErrorLetsGo ==
  ASSUME TypeInv, NEW w \in Workers, ReserveError(w) \/ (Crash(w) /\ scan' = [scan EXCEPT ![w] = NoScan])
  PROVE  LetsGo(w)
<1>1. pc \in [Workers -> Places] /\ job \in [Workers -> Job \cup {NoJob}] /\ scan \in [Workers -> Scan]
  BY DEF TypeInv, WorkerInv, WorkerTypeOK, RestOK
<1>2. \E place \in {"exit1", "rest", "dead"} : pc' = [pc EXCEPT ![w] = place]
  BY DEF ReserveError, ReserveRaises, Crash, Goto
<1>3. job' = [job EXCEPT ![w] = NoJob] /\ scan' = [scan EXCEPT ![w] = NoScan]
  BY DEF ReserveError, ReserveRaises, Crash
<1> QED
  BY <1>1, <1>2, <1>3 DEF LetsGo, Holding, NoScan

LEMMA ErrorFrame ==
  ASSUME TypeInv, TypeInv', ClaimInv, NEW w \in Workers,
         ReserveError(w) \/ (Crash(w) /\ scan' = [scan EXCEPT ![w] = NoScan]
                             /\ UNCHANGED <<now, tables, batch, history>>)
  PROVE  Frame
<1>1. LetsGo(w)
  BY ErrorLetsGo
<1>2. now' = now /\ UNCHANGED tables
  BY DEF ReserveError
<1> QED
  BY <1>1, <1>2, SameTablesKeep, LetsGoKeeps, LetsGoLocks DEF Frame

\* No worker moves and no row that was there changes: push, tick and operators.
LEMMA OutsideFrame ==
  ASSUME TypeInv, TypeInv', ClaimInv, Push \/ Tick \/ \E a \in Admins : Admin(a)
  PROVE  Frame
<1>1. UNCHANGED <<workerVars, scan>> /\ now' >= now /\ now \in Nat
  BY DEF Push, Tick, Admin, RetrySelect, RetryMove, RetryInterrupted, ForgetFailed,
         TypeInv, WorkerInv, WorkerTypeOK
<1>2. \/ UNCHANGED <<jobs, nextId>>
      \/ /\ nextId' = nextId + 1
         /\ \E row : row.attempts = 0 /\ jobs' = Put(jobs, nextId, row)
  <2>1. CASE Push
    BY <2>1 DEF Push
  <2>2. CASE Tick
    BY <2>2 DEF Tick, tables
  <2>3. ASSUME NEW a \in Admins, RetryMove(a) PROVE nextId' = nextId + 1 /\ \E row : row.attempts = 0 /\ jobs' = Put(jobs, nextId, row)
    BY <2>3 DEF RetryMove
  <2>4. ASSUME NEW a \in Admins, RetrySelect(a) \/ RetryInterrupted(a) \/ ForgetFailed(a) PROVE UNCHANGED <<jobs, nextId>>
    BY <2>4 DEF RetrySelect, RetryInterrupted, ForgetFailed, tables
  <2> QED
    BY <2>1, <2>2, <2>3, <2>4 DEF Admin
<1>3. NoNewHolder
  BY <1>1 DEF workerVars, NoNewHolder
<1>4. RowsKept /\ \A o \in DOMAIN jobs : o \in DOMAIN jobs' /\ jobs'[o] = jobs[o]
  BY <1>2 DEF RowsKept, Put, TypeInv, TablesOK
<1>5. LocksKept
  BY <1>1, <1>4 DEF LocksKept, workerVars
<1> QED
  BY <1>3, <1>4, <1>5 DEF Frame

LEMMA WorkerOnlyFrame ==
  ASSUME TypeInv, TypeInv', ClaimInv, NEW w \in Workers, UNCHANGED <<now, tables, scan, batch, history>>,
         Quit(w) \/ Rest(w) \/ RunJob(w) \/ Restart(w) \/ Signal(w)
  PROVE  Frame
<1>0. pc \in [Workers -> Places]
  BY DEF TypeInv, WorkerInv, WorkerTypeOK
<1>1. job' = job
  BY DEF Quit, Rest, RunJob, Restart, Signal, StartHandler, ResolveFails, HandlerReturns, HandlerReleases,
         HandlerRaises, HandlerTimesOut, HandlerCancelled
<1>2. \/ pc' = pc
      \/ /\ pc[w] # "reserve"
         /\ \/ \E place \in {"exit0", "top"} : pc' = [pc EXCEPT ![w] = place]
            \/ pc[w] \in {"start", "run"} /\ \E place \in {"run", "settle"} : pc' = [pc EXCEPT ![w] = place]
  <2>1. CASE Quit(w) \/ Rest(w) \/ Restart(w) \/ Signal(w)
    BY <2>1 DEF Quit, Rest, Restart, Signal, Goto, Ended
  <2>2. CASE RunJob(w)
    BY <2>2 DEF RunJob, StartHandler, ResolveFails, HandlerReturns, HandlerReleases, HandlerRaises, HandlerTimesOut,
                HandlerCancelled, JobFailed, EndWith, Goto
  <2> QED
    BY <2>1, <2>2
<1>3. NoNewHolder
  BY <1>0, <1>1, <1>2 DEF NoNewHolder, Holding
<1>4. LocksKept
  BY <1>0, <1>2, SameTablesKeep
  DEF LocksKept, ClaimInv, MomentPast, TypeInv, WorkerInv, WorkerTypeOK
<1> QED
  BY <1>3, <1>4, SameTablesKeep DEF Frame

LEMMA SettleFrame ==
  ASSUME TypeInv, TypeInv', ClaimInv, NEW w \in Workers, Settle(w)
  PROVE  Frame
<1> DEFINE id == job[w].id
<1>1. pc[w] = "settle" /\ id \notin Locked /\ now' = now /\ scan' = scan
  BY DEF Settle
<1>2. LetsGo(w)
  <2>1. pc \in [Workers -> Places] /\ job \in [Workers -> Job \cup {NoJob}]
    BY DEF TypeInv, WorkerInv, WorkerTypeOK
  <2>2. \E place \in {"dead", "exit0", "top"} : pc' = [pc EXCEPT ![w] = place]
    BY DEF Settle, Settled, Goto
  <2>3. job' = [job EXCEPT ![w] = NoJob]
    BY DEF Settle, Settled
  <2>4. scan[w].cand = 0
    BY <1>1 DEF ClaimInv, MomentPast
  <2> QED
    BY <1>1, <2>1, <2>2, <2>3, <2>4 DEF LetsGo, Holding
<1>3. RowsKept /\ \A o \in DOMAIN jobs : o \in Locked => o \in DOMAIN jobs' /\ jobs'[o] = jobs[o]
  <2>1. CASE ~Owned(id, job[w].by, job[w].attempts)
    BY <2>1, SameTablesKeep DEF Settle
  <2>2. CASE Owned(id, job[w].by, job[w].attempts)
    <3>1. id \in DOMAIN jobs /\ Apply(w) /\ plan[w] \in Plan /\ jobs \in [DOMAIN jobs -> Row] /\ nextId \in Nat
      BY <2>2 DEF Owned, Settle, TypeInv, WorkerInv, WorkerTypeOK, TablesOK
    <3>2. CASE plan[w].op = "delete"
      <4>1. jobs' = Drop(jobs, id) /\ nextId' = nextId
        BY <3>1, <3>2 DEF Apply
      <4> QED
        BY <1>1, <3>1, <4>1 DEF Drop, RowsKept
    <3>3. CASE plan[w].op = "release"
      <4>1. nextId' = nextId
            /\ jobs' = [jobs EXCEPT ![id].until = 0, ![id].by = NoOne, ![id].avail = NowUtc(w) + plan[w].delay]
        BY <3>1, <3>3 DEF Apply
      <4>2. DOMAIN jobs' = DOMAIN jobs /\ \A o \in DOMAIN jobs : o # id => jobs'[o] = jobs[o]
        BY <3>1, <4>1
      <4>3. jobs'[id].attempts = jobs[id].attempts /\ jobs'[id].max = jobs[id].max /\ jobs'[id].payload = jobs[id].payload
        BY <3>1, <4>1 DEF Row
      <4> QED
        BY <1>1, <3>1, <4>1, <4>2, <4>3 DEF RowsKept
    <3>4. CASE plan[w].op = "fail"
      BY <1>1, <3>1, <3>4, MoveKeeps DEF Apply
    <3> QED
      BY <3>1, <3>2, <3>3, <3>4 DEF Plan
  <2> QED
    BY <2>1, <2>2
<1> QED
  BY <1>1, <1>2, <1>3, LetsGoKeeps, LetsGoLocks DEF Frame

-----------------------------------------------------------------------------
(* The SELECT and the claim *)

LEMMA FindCandidateClaims ==
  ASSUME TypeInv, TypeInv', ClaimInv, NEW w \in Workers, FindCandidate(w)
  PROVE  ClaimInv'
<1>1. PICK id \in DOMAIN jobs :
        /\ IsCandidate(id, w)
        /\ ~Exhausted(id, scan[w].moment)
        /\ scan' = [scan EXCEPT ![w].cand = id]
  BY DEF FindCandidate
<1>2. UNCHANGED <<now, workerVars, tables>> /\ pc[w] = "reserve"
  BY DEF FindCandidate, Looking
<1>3. TokensBounded' /\ TokensUnique' /\ AttemptBudget'
  BY <1>2, SameTablesKeep, TokensKept DEF NoNewHolder, workerVars
<1>4. scan \in [Workers -> Scan] /\ jobs[id] \in Row
  BY DEF TypeInv, RestOK, TablesOK
<1>5. scan'[w].cand = id /\ scan'[w].moment = scan[w].moment /\ \A v \in Workers : v # w => scan'[v] = scan[v]
  BY <1>1, <1>4 DEF Scan
<1>6. jobs[id].until <= scan[w].moment /\ id \notin Locked
  BY <1>1 DEF IsCandidate, Claimable
<1>7. jobs[id].attempts < jobs[id].max
  BY <1>1, <1>4, <1>6 DEF Exhausted, Row
<1>8. \A v \in Workers : scan[v].cand # id
  BY <1>6 DEF Locked, TypeInv, TablesOK
<1>9. CandidateStable'
  <2>1. jobs' = jobs
    BY <1>2 DEF tables
  <2> SUFFICES ASSUME NEW u \in Workers, scan'[u].cand # 0
               PROVE  /\ scan'[u].cand \in DOMAIN jobs
                      /\ jobs[scan'[u].cand].until <= scan'[u].moment
                      /\ jobs[scan'[u].cand].attempts < jobs[scan'[u].cand].max
                      /\ \A v \in Workers : scan'[v].cand = scan'[u].cand => v = u
    BY <2>1 DEF CandidateStable
  <2>2. CASE u = w
    BY <1>5, <1>6, <1>7, <1>8, <2>2
  <2>3. CASE u # w
    BY <1>5, <1>8, <2>3 DEF ClaimInv, CandidateStable
  <2> QED
    BY <2>2, <2>3
<1>10. MomentPast'
  BY <1>2, <1>4, <1>5 DEF ClaimInv, MomentPast, NowUtc, workerVars
<1> QED
  BY <1>3, <1>9, <1>10 DEF ClaimInv

\* The effect of a claim, apart from what the worker goes on to do with it.
LEMMA ClaimEffect ==
  ASSUME TypeInv, ClaimInv, NEW w \in Workers, Claim(w)
  PROVE  LET id == scan[w].cand
         IN /\ id \in DOMAIN jobs /\ pc[w] = "reserve" /\ DOMAIN jobs' = DOMAIN jobs
            /\ \A o \in DOMAIN jobs : o # id => jobs'[o] = jobs[o]
            /\ jobs'[id].attempts = jobs[id].attempts + 1
            /\ jobs'[id].max = jobs[id].max /\ jobs'[id].payload = jobs[id].payload
            /\ job'[w].id = id /\ job'[w].payload = jobs[id].payload
            /\ job'[w].attempts = jobs[id].attempts + 1 /\ job'[w].max = jobs[id].max
            /\ pc'[w] \in Holding /\ pc'[w] # "settle"
            /\ scan'[w].cand = 0 /\ scan'[w].moment \in {scan[w].moment, 0}
            /\ \A v \in Workers : v # w => pc'[v] = pc[v] /\ job'[v] = job[v] /\ scan'[v] = scan[v]
            /\ now' = now /\ nextId' = nextId
<1> DEFINE id == scan[w].cand
           j  == [id |-> id, payload |-> jobs[id].payload, attempts |-> jobs'[id].attempts,
                  max |-> jobs[id].max, by |-> WorkerId[w], handle |-> 0]
<1>1. id \in DOMAIN jobs /\ pc[w] = "reserve"
  BY DEF Claim, ClaimInv, CandidateStable
<1>2. jobs' = [jobs EXCEPT ![id].until = scan[w].moment + ClaimSeconds,
                           ![id].by = WorkerId[w],
                           ![id].attempts = @ + 1]
  BY DEF Claim, ClaimRow
<1>3. jobs \in [DOMAIN jobs -> Row] /\ jobs[id] \in Row /\ pc \in [Workers -> Places]
      /\ job \in [Workers -> Job \cup {NoJob}] /\ scan \in [Workers -> Scan]
  BY <1>1 DEF TypeInv, TablesOK, WorkerInv, WorkerTypeOK, RestOK
<1>4. DOMAIN jobs' = DOMAIN jobs /\ \A o \in DOMAIN jobs : o # id => jobs'[o] = jobs[o]
  BY <1>2, <1>3
<1>5. jobs'[id].attempts = jobs[id].attempts + 1
      /\ jobs'[id].max = jobs[id].max /\ jobs'[id].payload = jobs[id].payload
  BY <1>1, <1>2, <1>3 DEF Row
<1>6. job' = [job EXCEPT ![w] = j] /\ \E place \in {"discard", "start"} : pc' = [pc EXCEPT ![w] = place]
  BY DEF Claim, ReserveReturns, Goto
<1>7. scan' = [scan EXCEPT ![w].cand = 0] \/ scan' = [scan EXCEPT ![w] = NoScan]
  BY DEF Claim
<1>8. /\ scan'[w].cand = 0 /\ scan'[w].moment \in {scan[w].moment, 0}
      /\ \A v \in Workers : v # w => scan'[v] = scan[v]
  <2>1. CASE scan' = [scan EXCEPT ![w].cand = 0]
    BY <1>3, <2>1 DEF Scan
  <2>2. CASE scan' = [scan EXCEPT ![w] = NoScan]
    BY <1>3, <2>2 DEF NoScan
  <2> QED
    BY <1>7, <2>1, <2>2
<1>9. job'[w] = j /\ \A v \in Workers : v # w => job'[v] = job[v]
  BY <1>3, <1>6
<1>10. pc'[w] \in Holding /\ pc'[w] # "settle" /\ \A v \in Workers : v # w => pc'[v] = pc[v]
  BY <1>3, <1>6 DEF Holding
<1>11. now' = now /\ nextId' = nextId
  BY DEF Claim
<1>12. j.id = id /\ j.payload = jobs[id].payload /\ j.attempts = jobs'[id].attempts /\ j.max = jobs[id].max
  OBVIOUS
<1> HIDE DEF j
<1> QED
  BY <1>1, <1>4, <1>5, <1>8, <1>9, <1>10, <1>11, <1>12

LEMMA ClaimClaims ==
  ASSUME TypeInv, TypeInv', ClaimInv, NEW w \in Workers, Claim(w)
  PROVE  ClaimInv'
<1> DEFINE id == scan[w].cand
<1>1. id \in DOMAIN jobs /\ jobs[id] \in Row /\ id \in 1..(nextId - 1) /\ id # 0
  BY ClaimEffect DEF TypeInv, TablesOK
<1>2. jobs[id].attempts < jobs[id].max
  BY <1>1 DEF ClaimInv, CandidateStable
<1>3. \A v \in Workers : pc[v] \in Holding /\ job[v].id = id => job[v].attempts <= jobs[id].attempts
  BY <1>1 DEF ClaimInv, TokensBounded
<1>4. \A v \in Workers : pc[v] \in Holding => job[v].attempts \in Nat
  BY DEF TypeInv, WorkerInv, WorkerTypeOK, Job
<1>5. TokensUnique'
  <2>1. \A v \in Workers : v # w /\ pc'[v] \in Holding =>
          pc[v] \in Holding /\ job'[v] = job[v]
          /\ (job[v].id = id => job[v].attempts < jobs[id].attempts + 1)
    <3>1. jobs[id].attempts \in Nat
      BY <1>1 DEF Row
    <3> QED
      BY <1>3, <1>4, <3>1, ClaimEffect
  <2>2. job'[w].id = id /\ job'[w].attempts = jobs[id].attempts + 1
    BY ClaimEffect
  <2>3. jobs[id].attempts + 1 \in Nat
    BY <1>1 DEF Row
  <2>4. \A v \in Workers : v # w /\ pc'[v] \in Holding /\ job'[v].id = job'[w].id => job'[v].attempts # job'[w].attempts
    BY <1>4, <2>1, <2>2, <2>3
  <2> QED
    BY <2>1, <2>4 DEF ClaimInv, TokensUnique
<1>6. TokensBounded'
  <2> SUFFICES ASSUME NEW v \in Workers, pc'[v] \in Holding
               PROVE  /\ job'[v].id \in 1..(nextId' - 1)
                      /\ job'[v].id \in DOMAIN jobs' =>
                           /\ job'[v].attempts <= jobs'[job'[v].id].attempts
                           /\ job'[v].payload = jobs'[job'[v].id].payload
    BY DEF TokensBounded
  <2>1. CASE v = w
    BY <1>1, <2>1, ClaimEffect DEF Row
  <2>2. CASE v # w
    <3>1. pc[v] \in Holding /\ job'[v] = job[v]
      BY <2>2, ClaimEffect
    <3>2. CASE job[v].id = id
      BY <1>1, <1>4, <3>1, <3>2, ClaimEffect DEF ClaimInv, TokensBounded, Row
    <3>3. CASE job[v].id # id
      BY <3>1, <3>3, ClaimEffect DEF ClaimInv, TokensBounded
    <3> QED
      BY <3>2, <3>3
  <2> QED
    BY <2>1, <2>2
<1>7. AttemptBudget'
  <2>1. \A o \in DOMAIN jobs' : jobs'[o].attempts <= jobs'[o].max
    BY <1>1, <1>2, ClaimEffect DEF ClaimInv, AttemptBudget, Row
  <2>2. \A v \in Workers : pc'[v] \in Holding => job'[v].attempts \in 1..job'[v].max
    <3>1. jobs[id].attempts + 1 \in 1..jobs[id].max
      BY <1>1, <1>2 DEF Row
    <3> QED
      BY <3>1, ClaimEffect DEF ClaimInv, AttemptBudget
  <2> QED
    BY <2>1, <2>2 DEF AttemptBudget
<1>8. LocksKept
  <2>1. \A v \in Workers : v # w /\ scan[v].cand # 0 => scan[v].cand # id
    BY <1>1 DEF ClaimInv, CandidateStable
  <2>2. now' = now /\ now \in Nat
    BY ClaimEffect DEF TypeInv, WorkerInv, WorkerTypeOK
  <2> QED
    BY <1>1, <2>1, <2>2, ClaimEffect DEF LocksKept
<1> QED
  BY <1>5, <1>6, <1>7, <1>8, CandidatesKept DEF ClaimInv

-----------------------------------------------------------------------------
(* The theorems about claims *)

LEMMA InitClaims == Init => TypeInv /\ ClaimInv
<1> SUFFICES ASSUME Init PROVE TypeInv /\ ClaimInv
  OBVIOUS
<1>1. WorkerInv
  BY WorkerInitInv DEF Init
<1>2. TablesOK
  BY DEF Init, TablesOK
<1>3. RestOK
  BY NoScanType DEF Init, RestOK
<1>4. \A w \in Workers : pc[w] = "top" /\ scan[w].cand = 0 /\ scan[w].moment = 0
  BY DEF Init, WorkerInit, NoScan
<1>5. \A w \in Workers : NowUtc(w) >= 0
  BY WorkerAssumption DEF WorkerAssumption, Init, WorkerInit, NowUtc
<1>6. ClaimInv
  BY <1>4, <1>5 DEF Init, ClaimInv, TokensBounded, TokensUnique, CandidateStable, AttemptBudget, MomentPast, Holding
<1> QED
  BY <1>1, <1>2, <1>3, <1>6 DEF TypeInv

LEMMA StutterClaims ==
  ASSUME TypeInv, ClaimInv, UNCHANGED vars
  PROVE  TypeInv' /\ ClaimInv'
<1>1. UNCHANGED <<now, workerVars, tables, scan, batch, history>>
  BY DEF vars
<1>2. TypeInv'
  BY <1>1 DEF workerVars, tables, history, TypeInv, WorkerInv, WorkerTypeOK, GivesUp, TablesOK, RestOK
<1>3. ClaimInv'
  BY <1>1 DEF workerVars, tables, ClaimInv, TokensBounded, TokensUnique, CandidateStable, AttemptBudget, MomentPast, NowUtc
<1> QED
  BY <1>2, <1>3

LEMMA NextClaims ==
  ASSUME TypeInv, ClaimInv, [Next]_vars
  PROVE  TypeInv' /\ ClaimInv'
<1>1. CASE Push
  BY <1>1, PushType, OutsideFrame, FrameInv
<1>2. CASE Tick
  BY <1>2, TickType, OutsideFrame, FrameInv
<1>3. ASSUME NEW w \in Workers, Reserve(w) PROVE TypeInv' /\ ClaimInv'
  <2>1. CASE BeginReserve(w)
    BY <2>1, BeginReserveType, LookFrame, FrameInv
  <2>2. CASE FindNothing(w)
    BY <2>2, FindNothingType, LookFrame, FrameInv
  <2>3. CASE FindExhausted(w)
    BY <2>3, FindExhaustedType, LookFrame, FrameInv
  <2>4. CASE FindCandidate(w)
    BY <2>4, FindCandidateType, FindCandidateClaims
  <2>5. CASE Claim(w)
    <3>1. CandidateHere(w)
      BY <2>5, ClaimEffect DEF CandidateHere
    <3> QED
      BY <2>5, <3>1, ClaimType, ClaimClaims
  <2>6. CASE Discard(w)
    BY <2>6, DiscardType, LookFrame, FrameInv
  <2> QED
    BY <1>3, <2>1, <2>2, <2>3, <2>4, <2>5, <2>6 DEF Reserve
<1>4. ASSUME NEW w \in Workers, Settle(w) PROVE TypeInv' /\ ClaimInv'
  BY <1>4, SettleType, SettleFrame, FrameInv
<1>5. ASSUME NEW w \in Workers, LoopStep(w) PROVE TypeInv' /\ ClaimInv'
  BY <1>5, WorkerOnlyType, WorkerOnlyFrame, FrameInv DEF LoopStep
<1>6. ASSUME NEW w \in Workers, Fault(w) PROVE TypeInv' /\ ClaimInv'
  <2>1. CASE Signal(w) /\ UNCHANGED <<now, tables, scan, batch, history>>
    BY <2>1, WorkerOnlyType, WorkerOnlyFrame, FrameInv
  <2>2. CASE ReserveError(w) \/ (Crash(w) /\ scan' = [scan EXCEPT ![w] = NoScan]
                                 /\ UNCHANGED <<now, tables, batch, history>>)
    BY <2>2, ReserveErrorType, ErrorFrame, FrameInv
  <2> QED
    BY <1>6, <2>1, <2>2 DEF Fault
<1>7. ASSUME NEW a \in Admins, Admin(a) PROVE TypeInv' /\ ClaimInv'
  BY <1>7, AdminType, OutsideFrame, FrameInv
<1>8. CASE UNCHANGED vars
  BY <1>8, StutterClaims
<1> QED
  BY <1>1, <1>2, <1>3, <1>4, <1>5, <1>6, <1>7, <1>8 DEF Next

LEMMA ClaimsHold == Spec => [](TypeInv /\ ClaimInv)
BY InitClaims, NextClaims, PTL DEF Spec

\* Every variable of the driver and of its workers keeps its type (queue/worker.py,
\* queue/driver_pg.py), for any workers, clocks, queues and limits.
THEOREM TypeCorrect == Spec => []TypeOK
<1>1. TypeInv /\ ClaimInv => TypeOK
  BY TypeParts
<1> QED
  BY <1>1, ClaimsHold, PTL

\* driver_pg.py:36-37: at most one process can end a job - for any number of
\* workers, shared worker ids and clocks that differ included.
THEOREM ClaimsAreExclusive == Spec => []OneHolder
<1>1. TypeInv /\ ClaimInv => OneHolder
  BY DEF ClaimInv, TokensUnique, OneHolder, HasToken
<1> QED
  BY <1>1, ClaimsHold, PTL

\* driver_pg.py:227-244: the guarded UPDATE of _claim always finds the row its
\* SELECT locked, unchanged and with an attempt left.
THEOREM CandidatesStayPut == Spec => []CandidateStable
<1>1. TypeInv /\ ClaimInv => CandidateStable
  BY DEF ClaimInv
<1> QED
  BY <1>1, ClaimsHold, PTL

\* driver_pg.py:233-238: no row is claimed more often than max_attempts.
THEOREM BudgetIsKept == Spec => []AttemptBudget
<1>1. TypeInv /\ ClaimInv => AttemptBudget
  BY DEF ClaimInv
<1> QED
  BY <1>1, ClaimsHold, PTL

-----------------------------------------------------------------------------
(* Who may touch a row *)

RowSame(id) == id \in DOMAIN jobs' /\ jobs'[id] = jobs[id]

\* Somebody claims it, or finds it out of attempts, or holds it and ends it.
ClaimedBy(w, id)   == Claim(w) /\ id = scan[w].cand
ExhaustedBy(w, id) == LetsGo(w) /\ pc[w] = "reserve" /\ jobs[id].attempts >= jobs[id].max /\ jobs[id].until <= NowUtc(w)
EndedBy(w, id)     == LetsGo(w) /\ pc[w] \in {"settle", "discard"} /\ HasToken(w, id)

LEMMA SettleLetsGo ==
  ASSUME TypeInv, ClaimInv, NEW w \in Workers, Settle(w) \/ Discard(w)
  PROVE  LetsGo(w)
<1>1. CASE Discard(w)
  BY <1>1, NextRoundLetsGo DEF Discard
<1>2. CASE Settle(w)
  <2>1. pc \in [Workers -> Places] /\ job \in [Workers -> Job \cup {NoJob}] /\ scan' = scan
    BY <1>2 DEF Settle, TypeInv, WorkerInv, WorkerTypeOK
  <2>2. \E place \in {"dead", "exit0", "top"} : pc' = [pc EXCEPT ![w] = place]
    BY <1>2 DEF Settle, Settled, Goto
  <2>3. job' = [job EXCEPT ![w] = NoJob]
    BY <1>2 DEF Settle, Settled
  <2>4. scan[w].cand = 0
    BY <1>2 DEF Settle, ClaimInv, MomentPast
  <2> QED
    BY <2>1, <2>2, <2>3, <2>4 DEF LetsGo, Holding
<1> QED
  BY <1>1, <1>2

LEMMA SettleRow ==
  ASSUME TypeInv, TypeInv', ClaimInv, NEW w \in Workers, Settle(w) \/ Discard(w), NEW id \in DOMAIN jobs, ~RowSame(id)
  PROVE  EndedBy(w, id)
<1>1. pc[w] \in {"settle", "discard"}
  BY DEF Settle, Discard
<1>2. LetsGo(w)
  BY SettleLetsGo
<1>3. Owned(job[w].id, job[w].by, job[w].attempts)
  BY SameTablesKeep DEF Settle, Discard, RowSame
<1>4. id = job[w].id
  <2>1. job[w].id \in DOMAIN jobs
    BY <1>3 DEF Owned
  <2>2. CASE Discard(w)
    BY <1>3, <2>1, <2>2, MoveKeeps DEF Discard, RowSame
  <2>3. CASE Settle(w)
    <3>1. Apply(w) /\ plan[w] \in Plan /\ jobs \in [DOMAIN jobs -> Row]
      BY <1>3, <2>3 DEF Settle, TypeInv, WorkerInv, WorkerTypeOK, TablesOK
    <3>2. CASE plan[w].op = "delete"
      BY <3>1, <3>2 DEF Apply, Drop, RowSame
    <3>3. CASE plan[w].op = "release"
      BY <3>1, <3>3 DEF Apply, RowSame
    <3>4. CASE plan[w].op = "fail"
      BY <2>1, <3>1, <3>4, MoveKeeps DEF Apply, RowSame
    <3> QED
      BY <3>1, <3>2, <3>3, <3>4 DEF Plan
  <2> QED
    BY <2>2, <2>3
<1> QED
  BY <1>1, <1>2, <1>3, <1>4 DEF EndedBy, HasToken, Owned, Holding

LEMMA RowChanges ==
  ASSUME TypeInv, TypeInv', ClaimInv, [Next]_vars, NEW id \in DOMAIN jobs, ~RowSame(id)
  PROVE  \E w \in Workers : ClaimedBy(w, id) \/ ExhaustedBy(w, id) \/ EndedBy(w, id)
<1>1. ~Push /\ ~Tick /\ \A a \in Admins : ~Admin(a)
  <2>1. (UNCHANGED jobs) => RowSame(id)
    BY DEF RowSame
  <2>2. \A row : jobs' = Put(jobs, nextId, row) => RowSame(id)
    BY DEF RowSame, Put, TypeInv, TablesOK
  <2>3. ~Push /\ ~Tick
    BY <2>1, <2>2 DEF Push, Tick, tables
  <2>4. \A a \in Admins : ~RetryMove(a) /\ ~RetrySelect(a) /\ ~RetryInterrupted(a) /\ ~ForgetFailed(a)
    BY <2>1, <2>2 DEF RetryMove, RetrySelect, RetryInterrupted, ForgetFailed, tables
  <2> QED
    BY <2>3, <2>4 DEF Admin
<1>2. ~(UNCHANGED tables)
  BY DEF RowSame, tables
<1>3. PICK w \in Workers : FindExhausted(w) \/ Claim(w) \/ Discard(w) \/ Settle(w)
  <2>1. \A w \in Workers : ~LoopStep(w) /\ ~Fault(w) /\ ~BeginReserve(w) /\ ~FindNothing(w) /\ ~FindCandidate(w)
    BY <1>2 DEF LoopStep, Fault, ReserveError, BeginReserve, FindNothing, FindCandidate
  <2>2. ~(UNCHANGED vars)
    BY <1>2 DEF vars
  <2> QED
    BY <1>1, <2>1, <2>2 DEF Next, Reserve
<1>4. CASE Claim(w)
  BY <1>4, ClaimEffect DEF ClaimedBy, RowSame
<1>5. CASE FindExhausted(w)
  <2>1. PICK c \in DOMAIN jobs : IsCandidate(c, w) /\ Exhausted(c, scan[w].moment) /\ MoveToFailed(c, NowUtc(w))
    BY <1>5 DEF FindExhausted
  <2>2. c = id
    BY <2>1, MoveKeeps DEF RowSame
  <2>3. LetsGo(w) /\ pc[w] = "reserve"
    BY <1>5, NextRoundLetsGo DEF FindExhausted, Looking
  <2>4. scan[w].moment <= NowUtc(w) /\ scan[w].moment \in Nat /\ NowUtc(w) \in Nat /\ jobs[id].until \in Nat
    BY NowUtcType DEF ClaimInv, MomentPast, TypeInv, RestOK, TablesOK, Scan, Row
  <2> QED
    BY <2>1, <2>2, <2>3, <2>4 DEF ExhaustedBy, Exhausted
<1>6. CASE Discard(w) \/ Settle(w)
  BY <1>6, SettleRow
<1> QED
  BY <1>3, <1>4, <1>5, <1>6

\* driver_pg.py:334-381: a late delete, release or fail of a worker that was taken
\* over changes nothing; only the holder ends a job, or reserve() does once its
\* attempts and its claim have run out.
THEOREM OnlyHoldersSettle == Spec => SettledByHolder
<1> DEFINE Step == \A id \in DOMAIN jobs :
       id \notin DOMAIN jobs' \/ (jobs[id].by # NoOne /\ jobs'[id].by = NoOne) =>
         \/ \E w \in Workers : HasToken(w, id) /\ pc[w] \in {"settle", "discard"} /\ pc'[w] # pc[w]
         \/ /\ jobs[id].attempts >= jobs[id].max
            /\ \E w \in Workers : jobs[id].until <= NowUtc(w)
<1>1. TypeInv /\ ClaimInv /\ (TypeInv /\ ClaimInv)' /\ [Next]_vars => Step
  <2> SUFFICES ASSUME TypeInv, ClaimInv, TypeInv', [Next]_vars, NEW id \in DOMAIN jobs,
                      id \notin DOMAIN jobs' \/ (jobs[id].by # NoOne /\ jobs'[id].by = NoOne)
               PROVE  \/ \E w \in Workers : HasToken(w, id) /\ pc[w] \in {"settle", "discard"} /\ pc'[w] # pc[w]
                      \/ /\ jobs[id].attempts >= jobs[id].max
                         /\ \E w \in Workers : jobs[id].until <= NowUtc(w)
    OBVIOUS
  <2>1. PICK w \in Workers : ClaimedBy(w, id) \/ ExhaustedBy(w, id) \/ EndedBy(w, id)
    BY RowChanges DEF RowSame
  <2>2. ~ClaimedBy(w, id)
    <3> SUFFICES ASSUME ClaimedBy(w, id) PROVE FALSE
      OBVIOUS
    <3>1. id \in DOMAIN jobs' /\ id = scan[w].cand
      BY ClaimEffect DEF ClaimedBy
    <3>2. jobs' = [jobs EXCEPT ![id].until = scan[w].moment + ClaimSeconds,
                               ![id].by = WorkerId[w],
                               ![id].attempts = @ + 1]
      BY <3>1 DEF ClaimedBy, Claim, ClaimRow
    <3>3. jobs'[id].by = WorkerId[w]
      BY <3>2 DEF TypeInv, TablesOK, Row
    <3> QED
      BY <3>1, <3>3, WorkerAssumption DEF WorkerAssumption
  <2> QED
    BY <2>1, <2>2 DEF ExhaustedBy, EndedBy, LetsGo, HasToken
<1>2. TypeInv /\ ClaimInv /\ (TypeInv /\ ClaimInv)' /\ [Next]_vars => [Step]_vars
  BY <1>1
<1> QED
  BY <1>2, ClaimsHold, PTL DEF Spec, SettledByHolder

\* Except by a claim, nobody comes to hold a job.
LEMMA HoldersStep ==
  ASSUME TypeInv, TypeInv', ClaimInv, [Next]_vars
  PROVE  NoNewHolder \/ \E w \in Workers : Claim(w)
<1>1. CASE Push \/ Tick \/ \E a \in Admins : Admin(a)
  BY <1>1, OutsideFrame DEF Frame
<1>2. ASSUME NEW w \in Workers, Reserve(w), ~Claim(w) PROVE NoNewHolder
  <2>1. CASE BeginReserve(w)
    BY <2>1, LookFrame DEF Frame
  <2>2. CASE FindNothing(w) \/ FindExhausted(w) \/ Discard(w)
    BY <2>2, LookFrame DEF Frame
  <2>3. CASE FindCandidate(w)
    BY <2>3 DEF FindCandidate, workerVars, NoNewHolder
  <2> QED
    BY <1>2, <2>1, <2>2, <2>3 DEF Reserve
<1>3. ASSUME NEW w \in Workers, Settle(w) PROVE NoNewHolder
  BY <1>3, SettleFrame DEF Frame
<1>4. ASSUME NEW w \in Workers, LoopStep(w) PROVE NoNewHolder
  BY <1>4, WorkerOnlyFrame DEF LoopStep, Frame
<1>5. ASSUME NEW w \in Workers, Fault(w) PROVE NoNewHolder
  BY <1>5, WorkerOnlyFrame, ErrorFrame DEF Fault, Frame
<1>6. CASE UNCHANGED vars
  BY <1>6 DEF vars, workerVars, NoNewHolder
<1> QED
  BY <1>1, <1>2, <1>3, <1>4, <1>5, <1>6 DEF Next

\* interface.py:33, driver_pg.py:281-297: a worker that does not move keeps its
\* claim until reserved_until has passed on somebody's clock.
THEOREM ClaimsAreKept == Spec => ClaimKept
<1> DEFINE Step == \A w \in Workers : \A id \in DOMAIN jobs :
       HasToken(w, id) /\ ~HasToken(w, id)' =>
         \/ pc'[w] # pc[w]
         \/ \E v \in Workers : jobs[id].until <= NowUtc(v)
<1>1. TypeInv /\ ClaimInv /\ (TypeInv /\ ClaimInv)' /\ [Next]_vars => Step
  <2> SUFFICES ASSUME TypeInv, ClaimInv, TypeInv', [Next]_vars, NEW w \in Workers, NEW id \in DOMAIN jobs,
                      HasToken(w, id), ~HasToken(w, id)', pc'[w] = pc[w]
               PROVE  \E v \in Workers : jobs[id].until <= NowUtc(v)
    OBVIOUS
  <2>1. pc[w] \in Holding /\ pc[w] # "reserve"
    BY DEF HasToken, Holding
  <2>2. job'[w] = job[w]
    BY <2>1, HoldersStep, ClaimEffect DEF NoNewHolder
  <2>3. ~RowSame(id)
    BY <2>1, <2>2 DEF RowSame, HasToken
  <2>4. PICK v \in Workers : ClaimedBy(v, id) \/ ExhaustedBy(v, id) \/ EndedBy(v, id)
    BY <2>3, RowChanges
  <2>5. CASE ClaimedBy(v, id)
    <3>1. id = scan[v].cand /\ scan[v].cand # 0
      BY <2>5 DEF ClaimedBy, Claim
    <3>2. jobs[id].until <= scan[v].moment /\ scan[v].moment <= NowUtc(v)
      BY <3>1 DEF ClaimInv, CandidateStable, MomentPast
    <3>3. jobs[id].until \in Nat /\ scan[v].moment \in Nat /\ NowUtc(v) \in Nat
      BY NowUtcType DEF TypeInv, TablesOK, RestOK, Row, Scan
    <3> QED
      BY <3>2, <3>3
  <2>6. CASE ExhaustedBy(v, id)
    BY <2>6 DEF ExhaustedBy
  <2>7. CASE EndedBy(v, id)
    <3>1. v = w
      BY <2>7 DEF EndedBy, HasToken, ClaimInv, TokensUnique
    <3> QED
      BY <2>1, <2>7, <3>1 DEF EndedBy, LetsGo
  <2> QED
    BY <2>4, <2>5, <2>6, <2>7
<1>2. TypeInv /\ ClaimInv /\ (TypeInv /\ ClaimInv)' /\ [Next]_vars => [Step]_vars
  BY <1>1
<1> QED
  BY <1>2, ClaimsHold, PTL DEF Spec, ClaimKept

-----------------------------------------------------------------------------
(* No job is lost *)

\* Where a payload of the queue may still be found.
Kept(p) ==
  \/ p \in finished \cup forgotten
  \/ \E id \in DOMAIN jobs : jobs[id].payload = p
  \/ \E f \in DOMAIN failed : failed[f].payload = p

\* Every row of either table goes on being kept, and so does what is pushed.
Carried ==
  /\ finished \subseteq finished' /\ forgotten \subseteq forgotten'
  /\ \A p \in pushed' \ pushed : Kept(p)'
  /\ \A p : (\E id \in DOMAIN jobs : jobs[id].payload = p) => Kept(p)'
  /\ \A p : (\E f \in DOMAIN failed : failed[f].payload = p) => Kept(p)'

LEMMA CarriedKeeps ==
  ASSUME NoJobLost, Carried
  PROVE  NoJobLost'
<1> SUFFICES ASSUME NEW p \in pushed' PROVE Kept(p)'
  BY DEF NoJobLost, Kept
<1>1. CASE p \notin pushed
  BY <1>1 DEF Carried
<1>2. CASE p \in pushed
  <2>1. Kept(p)
    BY <1>2 DEF NoJobLost, Kept
  <2>2. CASE p \in finished \cup forgotten
    BY <2>2 DEF Carried, Kept
  <2>3. CASE \E id \in DOMAIN jobs : jobs[id].payload = p
    BY <2>3 DEF Carried
  <2>4. CASE \E f \in DOMAIN failed : failed[f].payload = p
    BY <2>4 DEF Carried
  <2> QED
    BY <2>1, <2>2, <2>3, <2>4 DEF Kept
<1> QED
  BY <1>1, <1>2

LEMMA SameTablesCarry ==
  ASSUME UNCHANGED <<tables, history>>, finished \subseteq finished'
  PROVE  Carried
BY DEF tables, history, Carried, Kept

LEMMA MoveCarries ==
  ASSUME TypeInv, NEW id \in DOMAIN jobs, NEW at, MoveToFailed(id, at), UNCHANGED history, finished \subseteq finished'
  PROVE  Carried
<1> DEFINE row == [queue |-> jobs[id].queue, payload |-> jobs[id].payload,
                   attempts |-> jobs[id].attempts, at |-> at]
<1>1. failed' = Put(failed, nextFailed, row) /\ jobs' = Drop(jobs, id) /\ row.payload = jobs[id].payload
  BY DEF MoveToFailed
<1> HIDE DEF row
<1>2. nextFailed \notin DOMAIN failed
  BY DEF TypeInv, TablesOK
<1>3. nextFailed \in DOMAIN failed' /\ failed'[nextFailed].payload = jobs[id].payload
      /\ \A f \in DOMAIN failed : f \in DOMAIN failed' /\ failed'[f] = failed[f]
  BY <1>1, <1>2 DEF Put
<1>4. \A o \in DOMAIN jobs : o # id => o \in DOMAIN jobs' /\ jobs'[o] = jobs[o]
  BY <1>1 DEF Drop
<1>5. \A p : (\E o \in DOMAIN jobs : jobs[o].payload = p) => Kept(p)'
  BY <1>3, <1>4 DEF Kept
<1>6. \A p : (\E f \in DOMAIN failed : failed[f].payload = p) => Kept(p)'
  BY <1>3 DEF Kept
<1> QED
  BY <1>5, <1>6 DEF Carried, history

LEMMA SettleCarries ==
  ASSUME TypeInv, ClaimInv, LossInv, NEW w \in Workers, Settle(w)
  PROVE  Carried
<1>1. UNCHANGED history /\ finished' = finished /\ pc[w] = "settle"
  BY DEF Settle, Settled
<1>2. CASE ~Owned(job[w].id, job[w].by, job[w].attempts)
  BY <1>1, <1>2, SameTablesCarry DEF Settle
<1>3. CASE Owned(job[w].id, job[w].by, job[w].attempts)
  <2> DEFINE id == job[w].id
  <2>1. id \in DOMAIN jobs /\ Apply(w) /\ plan[w] \in Plan /\ jobs \in [DOMAIN jobs -> Row]
    BY <1>3 DEF Owned, Settle, TypeInv, WorkerInv, WorkerTypeOK, TablesOK
  <2>2. CASE plan[w].op = "delete"
    <3>1. jobs' = Drop(jobs, id) /\ failed' = failed
      BY <2>1, <2>2 DEF Apply
    <3>2. jobs[id].payload \in finished
      BY <1>1, <2>1, <2>2 DEF LossInv, DeletesWhatRan, ClaimInv, TokensBounded, Holding
    <3>3. \A o \in DOMAIN jobs : o # id => o \in DOMAIN jobs' /\ jobs'[o] = jobs[o]
      BY <3>1 DEF Drop
    <3> QED
      BY <1>1, <3>1, <3>2, <3>3 DEF Carried, Kept, history
  <2>3. CASE plan[w].op = "release"
    <3>1. failed' = failed
          /\ jobs' = [jobs EXCEPT ![id].until = 0, ![id].by = NoOne, ![id].avail = NowUtc(w) + plan[w].delay]
      BY <2>1, <2>3 DEF Apply
    <3>2. DOMAIN jobs' = DOMAIN jobs /\ \A o \in DOMAIN jobs : jobs'[o].payload = jobs[o].payload
      BY <2>1, <3>1 DEF Row
    <3> QED
      BY <1>1, <3>1, <3>2 DEF Carried, Kept, history
  <2>4. CASE plan[w].op = "fail"
    BY <1>1, <2>1, <2>4, MoveCarries DEF Apply
  <2> QED
    BY <2>1, <2>2, <2>3, <2>4 DEF Plan
<1> QED
  BY <1>2, <1>3

LEMMA FinishedGrows ==
  ASSUME [Next]_vars
  PROVE  finished \subseteq finished'
<1>1. \A w \in Workers : RunJob(w) => finished \subseteq finished'
  BY DEF RunJob, StartHandler, ResolveFails, HandlerReturns, HandlerReleases, HandlerRaises, HandlerTimesOut,
         HandlerCancelled
<1>2. \A w \in Workers : LoopStep(w) => finished \subseteq finished'
  BY <1>1 DEF LoopStep, Quit, Rest, Restart
<1>3. \A w \in Workers : Fault(w) \/ Settle(w) => finished \subseteq finished'
  BY DEF Fault, ReserveError, ReserveRaises, Signal, Crash, Settle, Settled
<1>4. \A w \in Workers : NextRound(w) \/ NextQueue(w) => finished \subseteq finished'
  BY DEF NextRound, NextQueue, ReserveReturnsNone
<1>5. \A w \in Workers : Reserve(w) => finished \subseteq finished'
  BY <1>4 DEF Reserve, BeginReserve, CallReserve, FindNothing, FindExhausted, FindCandidate, Claim, Discard,
              ReserveReturns, workerVars
<1>6. \A a \in Admins : Admin(a) => finished \subseteq finished'
  BY DEF Admin, RetrySelect, RetryMove, RetryInterrupted, ForgetFailed, workerVars
<1> QED
  BY <1>2, <1>3, <1>5, <1>6 DEF Next, Push, Tick, vars, workerVars

LEMMA AdminCarries ==
  ASSUME TypeInv, LossInv, NEW a \in Admins, Admin(a), finished \subseteq finished'
  PROVE  Carried
<1>1. CASE RetrySelect(a) \/ RetryInterrupted(a)
  BY <1>1, SameTablesCarry DEF RetrySelect, RetryInterrupted
<1>2. CASE RetryMove(a)
  <2>1. PICK b \in batch[a] :
          /\ jobs' = Put(jobs, nextId,
                         [queue |-> b.row.queue, payload |-> b.row.payload, prio |-> 0, attempts |-> 0,
                          max |-> AtLeast(1, Tries), avail |-> now, until |-> 0, by |-> NoOne])
          /\ failed' = Drop(failed, b.id)
    BY <1>2 DEF RetryMove
  <2>2. nextId \notin DOMAIN jobs
    BY DEF TypeInv, TablesOK
  <2>3. nextId \in DOMAIN jobs' /\ jobs'[nextId].payload = b.row.payload
        /\ \A o \in DOMAIN jobs : o \in DOMAIN jobs' /\ jobs'[o] = jobs[o]
    BY <2>1, <2>2 DEF Put
  <2>4. \A f \in DOMAIN failed : f # b.id => f \in DOMAIN failed' /\ failed'[f] = failed[f]
    BY <2>1 DEF Drop
  <2>5. b.id \in DOMAIN failed => failed[b.id].payload = b.row.payload
    BY DEF LossInv, SelectedRows
  <2> QED
    BY <1>2, <2>3, <2>4, <2>5 DEF RetryMove, Carried, Kept, history
<1>3. CASE ForgetFailed(a)
  <2>1. PICK ids \in SUBSET DOMAIN failed :
          /\ failed' = [f \in DOMAIN failed \ ids |-> failed[f]]
          /\ forgotten' = forgotten \cup {failed[f].payload : f \in ids}
    BY <1>3 DEF ForgetFailed
  <2>2. UNCHANGED <<jobs, pushed>>
    BY <1>3 DEF ForgetFailed
  <2>3. \A f \in DOMAIN failed : f \in ids \/ (f \in DOMAIN failed' /\ failed'[f] = failed[f])
    BY <2>1
  <2>4. \A f \in ids : failed[f].payload \in forgotten'
    BY <2>1
  <2> QED
    BY <2>1, <2>2, <2>3, <2>4 DEF Carried, Kept
<1> QED
  BY <1>1, <1>2, <1>3 DEF Admin

LEMMA NextCarries ==
  ASSUME TypeInv, ClaimInv, LossInv, [Next]_vars
  PROVE  Carried
<1>0. finished \subseteq finished'
  BY FinishedGrows
<1>1. CASE Push
  <2>1. PICK p \in Payloads : \E row :
           row.payload = p /\ jobs' = Put(jobs, nextId, row) /\ pushed' = pushed \cup {p}
    BY <1>1 DEF Push
  <2>1a. PICK row : row.payload = p /\ jobs' = Put(jobs, nextId, row) /\ pushed' = pushed \cup {p}
    BY <2>1
  <2>2. nextId \notin DOMAIN jobs
    BY DEF TypeInv, TablesOK
  <2>3. nextId \in DOMAIN jobs' /\ jobs'[nextId].payload = p
        /\ \A o \in DOMAIN jobs : o \in DOMAIN jobs' /\ jobs'[o] = jobs[o]
    BY <2>1a, <2>2 DEF Put
  <2>4. failed' = failed /\ forgotten' = forgotten
    BY <1>1 DEF Push
  <2> QED
    BY <1>0, <2>1a, <2>3, <2>4 DEF Carried, Kept
<1>2. CASE Tick
  BY <1>0, <1>2, SameTablesCarry DEF Tick
<1>3. ASSUME NEW w \in Workers, Reserve(w) PROVE Carried
  <2>1. CASE BeginReserve(w) \/ FindNothing(w) \/ FindCandidate(w)
    BY <1>0, <2>1, SameTablesCarry DEF BeginReserve, FindNothing, FindCandidate
  <2>2. CASE FindExhausted(w)
    BY <1>0, <2>2, MoveCarries DEF FindExhausted
  <2>3. CASE Claim(w)
    <3>1. \A o \in DOMAIN jobs : o \in DOMAIN jobs' /\ jobs'[o].payload = jobs[o].payload
      BY <2>3, ClaimEffect
    <3>2. failed' = failed /\ UNCHANGED history
      BY <2>3 DEF Claim
    <3> QED
      BY <1>0, <3>1, <3>2 DEF Carried, Kept, history
  <2>4. CASE Discard(w)
    BY <1>0, <2>4, MoveCarries, SameTablesCarry DEF Discard, Owned
  <2> QED
    BY <1>3, <2>1, <2>2, <2>3, <2>4 DEF Reserve
<1>4. ASSUME NEW w \in Workers, Settle(w) PROVE Carried
  BY <1>4, SettleCarries
<1>5. ASSUME NEW w \in Workers, LoopStep(w) \/ Fault(w) PROVE Carried
  <2>1. UNCHANGED <<tables, history>>
    BY <1>5 DEF LoopStep, Fault, ReserveError
  <2> QED
    BY <1>0, <2>1, SameTablesCarry
<1>6. ASSUME NEW a \in Admins, Admin(a) PROVE Carried
  BY <1>0, <1>6, AdminCarries
<1>7. CASE UNCHANGED vars
  BY <1>0, <1>7, SameTablesCarry DEF vars
<1> QED
  BY <1>1, <1>2, <1>3, <1>4, <1>5, <1>6, <1>7 DEF Next

\* The failed table: rows keep their content, new ones have new ids.
FailedKept ==
  /\ nextFailed' >= nextFailed
  /\ \A f \in DOMAIN failed' : (f \in DOMAIN failed /\ failed'[f] = failed[f]) \/ f >= nextFailed

LEMMA MoveKeepsFailed ==
  ASSUME TypeInv, NEW id, NEW at, MoveToFailed(id, at)
  PROVE  FailedKept
BY DEF MoveToFailed, Put, FailedKept, TypeInv, TablesOK

LEMMA NextKeepsFailed ==
  ASSUME TypeInv, [Next]_vars
  PROVE  FailedKept
<1>0. (UNCHANGED <<failed, nextFailed>>) => FailedKept
  BY DEF FailedKept, TypeInv, TablesOK
<1>1. CASE Push \/ Tick
  BY <1>0, <1>1 DEF Push, Tick, tables
<1>2. ASSUME NEW w \in Workers, Reserve(w) PROVE FailedKept
  <2>1. CASE BeginReserve(w) \/ FindNothing(w) \/ FindCandidate(w) \/ Claim(w)
    BY <1>0, <2>1 DEF BeginReserve, FindNothing, FindCandidate, Claim, tables
  <2>2. CASE FindExhausted(w) \/ Discard(w)
    BY <1>0, <2>2, MoveKeepsFailed DEF FindExhausted, Discard, tables
  <2> QED
    BY <1>2, <2>1, <2>2 DEF Reserve
<1>3. ASSUME NEW w \in Workers, Settle(w) PROVE FailedKept
  <2>1. plan[w].op \in {"delete", "release", "fail"}
    BY DEF TypeInv, WorkerInv, WorkerTypeOK, Plan
  <2> QED
    BY <1>0, <1>3, <2>1, MoveKeepsFailed DEF Settle, Apply, tables
<1>4. ASSUME NEW w \in Workers, LoopStep(w) \/ Fault(w) PROVE FailedKept
  BY <1>0, <1>4 DEF LoopStep, Fault, ReserveError, tables
<1>5. ASSUME NEW a \in Admins, Admin(a) PROVE FailedKept
  <2>1. CASE RetrySelect(a) \/ RetryInterrupted(a)
    BY <1>0, <2>1 DEF RetrySelect, RetryInterrupted, tables
  <2>2. CASE RetryMove(a)
    BY <2>2 DEF RetryMove, Drop, FailedKept, TypeInv, TablesOK
  <2>3. CASE ForgetFailed(a)
    BY <2>3 DEF ForgetFailed, FailedKept, TypeInv, TablesOK
  <2> QED
    BY <1>5, <2>1, <2>2, <2>3 DEF Admin
<1>6. CASE UNCHANGED vars
  BY <1>0, <1>6 DEF vars, tables
<1> QED
  BY <1>1, <1>2, <1>3, <1>4, <1>5, <1>6 DEF Next

LEMMA SelectedStep ==
  ASSUME TypeInv, TypeInv', SelectedRows, [Next]_vars
  PROVE  SelectedRows'
<1>0. FailedKept
  BY NextKeepsFailed
<1>1. \A a \in Admins : \A b \in batch'[a] :
        b \in batch[a] \/ (b.id \in DOMAIN failed /\ b.row = failed[b.id])
  <2>0. batch \in [Admins -> SUBSET Pick]
    BY DEF TypeInv, RestOK
  <2>1. ASSUME NEW c \in Admins, RetrySelect(c)
        PROVE \A a \in Admins : \A b \in batch'[a] : b \in batch[a] \/ (b.id \in DOMAIN failed /\ b.row = failed[b.id])
    <3>1. PICK ids \in SUBSET DOMAIN failed :
            batch' = [batch EXCEPT ![c] = {[id |-> f, row |-> failed[f]] : f \in ids}]
      BY <2>1 DEF RetrySelect
    <3> QED
      BY <2>0, <3>1
  <2>2. ASSUME NEW c \in Admins, RetryMove(c) \/ RetryInterrupted(c)
        PROVE \A a \in Admins : batch'[a] \subseteq batch[a]
    BY <2>0, <2>2 DEF RetryMove, RetryInterrupted
  <2>3. ASSUME NEW c \in Admins, ForgetFailed(c) PROVE batch' = batch
    BY <2>3 DEF ForgetFailed
  <2>4. ASSUME NEW w \in Workers, Reserve(w) \/ Settle(w) \/ LoopStep(w) \/ Fault(w) PROVE batch' = batch
    BY <2>4 DEF Reserve, BeginReserve, FindNothing, FindExhausted, FindCandidate, Claim, Discard, Settle, LoopStep,
                Fault, ReserveError
  <2>5. CASE Push \/ Tick \/ UNCHANGED vars
    BY <2>5 DEF Push, Tick, vars
  <2> QED
    BY <2>1, <2>2, <2>3, <2>4, <2>5 DEF Next, Admin
<1> SUFFICES ASSUME NEW a \in Admins, NEW b \in batch'[a]
             PROVE  b.id < nextFailed' /\ (b.id \in DOMAIN failed' => failed'[b.id].payload = b.row.payload)
  BY DEF SelectedRows
<1>2. b.id < nextFailed /\ (b.id \in DOMAIN failed => failed[b.id].payload = b.row.payload) /\ b.id \in Nat
  BY <1>1 DEF SelectedRows, TypeInv, TablesOK, RestOK, Pick
<1>3. nextFailed \in Nat /\ nextFailed' \in Nat /\ nextFailed' >= nextFailed
  BY <1>0 DEF FailedKept, TypeInv, TablesOK
<1> QED
  BY <1>0, <1>2, <1>3 DEF FailedKept

\* A worker comes to delete only through HandlerReturns.
LEMMA DeletesStep ==
  ASSUME TypeInv, TypeInv', ClaimInv, DeletesWhatRan, [Next]_vars
  PROVE  DeletesWhatRan'
<1> DEFINE Same(v) == pc'[v] = pc[v] /\ plan'[v] = plan[v] /\ job'[v] = job[v]
           Good(v) == pc'[v] = "settle" /\ plan'[v].op = "delete" => Same(v) \/ job'[v].payload \in finished'
<1>0. pc \in [Workers -> Places] /\ plan \in [Workers -> Plan] /\ job \in [Workers -> Job \cup {NoJob}]
  BY DEF TypeInv, WorkerInv, WorkerTypeOK
<1>1. ASSUME NEW w \in Workers, RunJob(w) PROVE \A v \in Workers : Good(v)
  <2>1. job' = job
    BY <1>1 DEF RunJob, StartHandler, ResolveFails, HandlerReturns, HandlerReleases, HandlerRaises, HandlerTimesOut,
                HandlerCancelled
  <2>2. CASE StartHandler(w)
    BY <1>0, <2>1, <2>2 DEF StartHandler, Goto
  <2>3. CASE HandlerReturns(w)
    BY <1>0, <2>1, <2>3 DEF HandlerReturns, EndWith, Goto
  <2>4. CASE ResolveFails(w) \/ HandlerReleases(w) \/ HandlerRaises(w) \/ HandlerTimesOut(w) \/ HandlerCancelled(w)
    <3>1. \E op \in {"release", "fail"} : \E delay, then :
            /\ plan' = [plan EXCEPT ![w] = [op |-> op, delay |-> delay, then |-> then]]
            /\ pc' = [pc EXCEPT ![w] = "settle"]
      BY <2>4 DEF ResolveFails, HandlerReleases, HandlerRaises, HandlerTimesOut, HandlerCancelled, JobFailed, EndWith, Goto
    <3> QED
      BY <1>0, <2>1, <3>1
  <2> QED
    BY <1>1, <2>2, <2>3, <2>4 DEF RunJob
<1>2. ASSUME NEW w \in Workers, Quit(w) \/ Rest(w) \/ Restart(w) \/ Signal(w) \/ CallReserve(w)
      PROVE \A v \in Workers : Good(v)
  BY <1>0, <1>2 DEF Quit, Rest, Restart, Signal, CallReserve, Goto
<1>3. ASSUME NEW w \in Workers, NextRound(w) \/ NextQueue(w) \/ ReserveRaises(w) \/ Crash(w) \/ Settled(w)
      PROVE \A v \in Workers : Good(v)
  <2>1. \E place \in {"reserve", "exit0", "exit1", "rest", "dead", "top"} : pc' = [pc EXCEPT ![w] = place]
    BY <1>3 DEF NextRound, NextQueue, ReserveReturnsNone, ReserveRaises, Crash, Settled, Goto
  <2>2. job' = [job EXCEPT ![w] = NoJob]
    BY <1>3 DEF NextRound, NextQueue, ReserveReturnsNone, ReserveRaises, Crash, Settled
  <2>3. plan' = plan \/ plan' = [plan EXCEPT ![w] = IdlePlan]
    BY <1>3 DEF NextRound, NextQueue, ReserveReturnsNone, ReserveRaises, Crash, Settled
  <2> QED
    BY <1>0, <2>1, <2>2, <2>3
<1>4. ASSUME NEW w \in Workers, Claim(w) PROVE \A v \in Workers : Good(v)
  <2>1. plan' = plan
    BY <1>4 DEF Claim, ReserveReturns
  <2> QED
    BY <1>4, <2>1, ClaimEffect
<1>5. (UNCHANGED workerVars) => \A v \in Workers : Good(v)
  BY DEF workerVars
<1>6. \A v \in Workers : Good(v)
  <2>1. ASSUME NEW w \in Workers, Reserve(w) PROVE \A v \in Workers : Good(v)
    <3>1. CallReserve(w) \/ NextRound(w) \/ NextQueue(w) \/ Claim(w) \/ UNCHANGED workerVars
      BY <2>1 DEF Reserve, BeginReserve, FindNothing, FindExhausted, FindCandidate, Discard
    <3> QED
      BY <1>2, <1>3, <1>4, <1>5, <3>1
  <2>2. ASSUME NEW w \in Workers, Settle(w) \/ LoopStep(w) \/ Fault(w) PROVE \A v \in Workers : Good(v)
    <3>1. \/ Settled(w) \/ Quit(w) \/ Rest(w) \/ RunJob(w) \/ Restart(w) \/ ReserveRaises(w) \/ Signal(w) \/ Crash(w)
      BY <2>2 DEF Settle, LoopStep, Fault, ReserveError
    <3> QED
      BY <1>1, <1>2, <1>3, <3>1
  <2>3. CASE Push \/ Tick \/ (\E a \in Admins : Admin(a)) \/ UNCHANGED vars
    <3>1. UNCHANGED workerVars
      BY <2>3 DEF Push, Tick, Admin, RetrySelect, RetryMove, RetryInterrupted, ForgetFailed, vars
    <3> QED
      BY <1>5, <3>1
  <2> QED
    BY <2>1, <2>2, <2>3 DEF Next
<1> QED
  BY <1>6, FinishedGrows DEF DeletesWhatRan

\* Every payload ever pushed is in a table, or its handler returned, or an operator
\* forgot it: through crashes, takeovers, exhausted attempts, and any number of
\* operators retrying the same failed jobs at once (driver_pg.py:203-381, 443-494).
THEOREM NothingIsLost == Spec => []NoJobLost
<1> DEFINE I == TypeInv /\ ClaimInv /\ LossInv
<1>1. Init => I
  <2> SUFFICES ASSUME Init PROVE LossInv
    BY InitClaims
  <2> QED
    BY DEF Init, WorkerInit, LossInv, SelectedRows, DeletesWhatRan, NoJobLost
<1>2. I /\ [Next]_vars => I'
  <2> SUFFICES ASSUME TypeInv, ClaimInv, LossInv, [Next]_vars
               PROVE  TypeInv' /\ ClaimInv' /\ LossInv'
    OBVIOUS
  <2>1. TypeInv' /\ ClaimInv'
    BY NextClaims
  <2>2. SelectedRows'
    BY <2>1, SelectedStep DEF LossInv
  <2>3. DeletesWhatRan'
    BY <2>1, DeletesStep DEF LossInv
  <2>4. NoJobLost'
    BY NextCarries, CarriedKeeps DEF LossInv
  <2> QED
    BY <2>1, <2>2, <2>3, <2>4 DEF LossInv
<1>3. I => NoJobLost
  BY DEF LossInv
<1> QED
  BY <1>1, <1>2, <1>3, PTL DEF Spec

-----------------------------------------------------------------------------
(* One operator: a job is in one place, and the driver implements JobQueue *)

\* At most one process runs `queue retry` or `queue forget`.
OneOperator == \A a, b \in Admins : a = b

\* A payload has one row in one table, and none once it was forgotten; what a retry has
\* selected is still there.
CopyInv ==
  /\ \A a, b \in DOMAIN jobs : jobs[a].payload = jobs[b].payload => a = b
  /\ \A f, g \in DOMAIN failed : failed[f].payload = failed[g].payload => f = g
  /\ \A a \in DOMAIN jobs : \A f \in DOMAIN failed : jobs[a].payload # failed[f].payload
  /\ \A a \in DOMAIN jobs : jobs[a].payload \in pushed \ forgotten
  /\ \A f \in DOMAIN failed : failed[f].payload \in pushed \ forgotten
  /\ forgotten \subseteq pushed
  /\ \A a \in Admins : \A b \in batch[a] : b.id \in DOMAIN failed /\ failed[b.id] = b.row

\* What a step leaves alone in each table.
OthersSame(id) ==
  \A o : o # id => (o \in DOMAIN jobs' <=> o \in DOMAIN jobs) /\ (o \in DOMAIN jobs => jobs'[o] = jobs[o])
FailedSame(f) ==
  \A o : o # f => (o \in DOMAIN failed' <=> o \in DOMAIN failed) /\ (o \in DOMAIN failed => failed'[o] = failed[o])

LEMMA MoveEffect ==
  ASSUME TypeInv, NEW id \in DOMAIN jobs, NEW at, MoveToFailed(id, at)
  PROVE  /\ OthersSame(id) /\ id \notin DOMAIN jobs'
         /\ FailedSame(nextFailed) /\ nextFailed \notin DOMAIN failed
         /\ nextFailed \in DOMAIN failed' /\ failed'[nextFailed].payload = jobs[id].payload
<1> DEFINE row == [queue |-> jobs[id].queue, payload |-> jobs[id].payload,
                   attempts |-> jobs[id].attempts, at |-> at]
<1>1. failed' = Put(failed, nextFailed, row) /\ jobs' = Drop(jobs, id) /\ row.payload = jobs[id].payload
  BY DEF MoveToFailed
<1> HIDE DEF row
<1>2. nextFailed \notin DOMAIN failed
  BY DEF TypeInv, TablesOK
<1> QED
  BY <1>1, <1>2 DEF Put, Drop, OthersSame, FailedSame

\* push and retry insert one row.
LEMMA InsertEffect ==
  ASSUME TypeInv, NEW row, jobs' = Put(jobs, nextId, row)
  PROVE  /\ OthersSame(nextId) /\ nextId \notin DOMAIN jobs
         /\ nextId \in DOMAIN jobs' /\ jobs'[nextId] = row
<1>1. nextId \notin DOMAIN jobs
  BY DEF TypeInv, TablesOK
<1> QED
  BY <1>1 DEF Put, OthersSame

\* Row by row the tables hold the payloads they held.
SamePlaces ==
  /\ DOMAIN jobs' = DOMAIN jobs /\ \A o \in DOMAIN jobs : jobs'[o].payload = jobs[o].payload
  /\ failed' = failed /\ UNCHANGED history

LEMMA SamePlacesCopy ==
  ASSUME CopyInv, SamePlaces, batch' = batch
  PROVE  CopyInv'
BY DEF CopyInv, SamePlaces, history

LEMMA MoveCopy ==
  ASSUME TypeInv, CopyInv, NEW id \in DOMAIN jobs, NEW at, MoveToFailed(id, at), batch' = batch, UNCHANGED history
  PROVE  CopyInv'
<1>1. /\ OthersSame(id) /\ id \notin DOMAIN jobs'
      /\ FailedSame(nextFailed) /\ nextFailed \notin DOMAIN failed
      /\ nextFailed \in DOMAIN failed' /\ failed'[nextFailed].payload = jobs[id].payload
  BY MoveEffect
<1>2. \A o \in DOMAIN jobs' : o # id /\ o \in DOMAIN jobs /\ jobs'[o] = jobs[o]
  BY <1>1 DEF OthersSame
<1>3. \A f \in DOMAIN failed' : f # nextFailed => f \in DOMAIN failed /\ failed'[f] = failed[f]
  BY <1>1 DEF FailedSame
<1>4. \A f \in DOMAIN failed : f \in DOMAIN failed' /\ failed'[f] = failed[f]
  BY <1>1 DEF FailedSame
<1>5. pushed' = pushed /\ forgotten' = forgotten
  BY DEF history
<1>6. \A a, b \in DOMAIN jobs' : jobs'[a].payload = jobs'[b].payload => a = b
  BY <1>2 DEF CopyInv
<1>7. \A f, g \in DOMAIN failed' : failed'[f].payload = failed'[g].payload => f = g
  BY <1>1, <1>3 DEF CopyInv
<1>8. \A a \in DOMAIN jobs' : \A f \in DOMAIN failed' : jobs'[a].payload # failed'[f].payload
  BY <1>1, <1>2, <1>3 DEF CopyInv
<1>9. /\ \A a \in DOMAIN jobs' : jobs'[a].payload \in pushed' \ forgotten'
      /\ \A f \in DOMAIN failed' : failed'[f].payload \in pushed' \ forgotten'
  BY <1>1, <1>2, <1>3, <1>5 DEF CopyInv
<1>10. \A a \in Admins : \A b \in batch'[a] : b.id \in DOMAIN failed' /\ failed'[b.id] = b.row
  BY <1>4 DEF CopyInv
<1> QED
  BY <1>5, <1>6, <1>7, <1>8, <1>9, <1>10 DEF CopyInv

LEMMA PushCopy ==
  ASSUME TypeInv, CopyInv, Push
  PROVE  CopyInv'
<1>0. PICK p \in Payloads \ pushed :
        /\ \E row : row.payload = p /\ jobs' = Put(jobs, nextId, row)
        /\ pushed' = pushed \cup {p}
  BY DEF Push
<1>1. PICK row : row.payload = p /\ jobs' = Put(jobs, nextId, row) /\ pushed' = pushed \cup {p}
  BY <1>0
<1>2. /\ OthersSame(nextId) /\ nextId \notin DOMAIN jobs
      /\ nextId \in DOMAIN jobs' /\ jobs'[nextId] = row
  BY <1>1, InsertEffect
<1>3. failed' = failed /\ forgotten' = forgotten /\ batch' = batch
  BY DEF Push
<1>4. \A o \in DOMAIN jobs' : o # nextId => o \in DOMAIN jobs /\ jobs'[o] = jobs[o]
  BY <1>2 DEF OthersSame
<1>5. \A a, b \in DOMAIN jobs' : jobs'[a].payload = jobs'[b].payload => a = b
  BY <1>1, <1>2, <1>4 DEF CopyInv
<1>6. \A a \in DOMAIN jobs' : \A f \in DOMAIN failed' : jobs'[a].payload # failed'[f].payload
  BY <1>1, <1>2, <1>3, <1>4 DEF CopyInv
<1>7. \A a \in DOMAIN jobs' : jobs'[a].payload \in pushed' \ forgotten'
  BY <1>1, <1>2, <1>3, <1>4 DEF CopyInv
<1> QED
  BY <1>1, <1>3, <1>5, <1>6, <1>7 DEF CopyInv

\* RetryMove: with one operator the DELETE finds the row its SELECT saw.
LEMMA RetryCopy ==
  ASSUME TypeInv, CopyInv, OneOperator, NEW a \in Admins, RetryMove(a)
  PROVE  CopyInv'
<1>0. PICK b \in batch[a] :
        /\ \E row : row.payload = b.row.payload /\ jobs' = Put(jobs, nextId, row)
        /\ failed' = Drop(failed, b.id)
        /\ batch' = [batch EXCEPT ![a] = @ \ {b}]
  BY DEF RetryMove
<1>1. PICK row :
        /\ row.payload = b.row.payload /\ jobs' = Put(jobs, nextId, row)
        /\ failed' = Drop(failed, b.id)
        /\ batch' = [batch EXCEPT ![a] = @ \ {b}]
  BY <1>0
<1>2. /\ OthersSame(nextId) /\ nextId \notin DOMAIN jobs
      /\ nextId \in DOMAIN jobs' /\ jobs'[nextId] = row
  BY <1>1, InsertEffect
<1>3. b.id \in DOMAIN failed /\ failed[b.id] = b.row /\ UNCHANGED history
  BY DEF CopyInv, RetryMove
<1>4. \A o \in DOMAIN jobs' : o # nextId => o \in DOMAIN jobs /\ jobs'[o] = jobs[o]
  BY <1>2 DEF OthersSame
<1>5. \A f : f \in DOMAIN failed' <=> f \in DOMAIN failed /\ f # b.id
  BY <1>1 DEF Drop
<1>6. \A f \in DOMAIN failed' : failed'[f] = failed[f]
  BY <1>1 DEF Drop
<1>7. \A x, y \in DOMAIN jobs' : jobs'[x].payload = jobs'[y].payload => x = y
  BY <1>1, <1>2, <1>3, <1>4 DEF CopyInv
<1>8. \A f, g \in DOMAIN failed' : failed'[f].payload = failed'[g].payload => f = g
  BY <1>5, <1>6 DEF CopyInv
<1>9. \A x \in DOMAIN jobs' : \A f \in DOMAIN failed' : jobs'[x].payload # failed'[f].payload
  BY <1>1, <1>2, <1>3, <1>4, <1>5, <1>6 DEF CopyInv
<1>10. /\ \A x \in DOMAIN jobs' : jobs'[x].payload \in pushed' \ forgotten'
       /\ \A f \in DOMAIN failed' : failed'[f].payload \in pushed' \ forgotten'
       /\ forgotten' \subseteq pushed'
  BY <1>1, <1>2, <1>3, <1>4, <1>5, <1>6 DEF CopyInv, history
<1>11. ASSUME NEW c \in Admins, NEW d \in batch'[c] PROVE d.id \in DOMAIN failed' /\ failed'[d.id] = d.row
  <2>1. c = a /\ d \in batch[a] /\ d # b /\ batch[a] \subseteq Pick
    BY <1>1 DEF OneOperator, TypeInv, RestOK
  <2>2. d.id \in DOMAIN failed /\ failed[d.id] = d.row
    BY <2>1 DEF CopyInv
  <2>3. d.id # b.id
    BY <1>3, <2>1, <2>2 DEF Pick
  <2> QED
    BY <1>5, <1>6, <2>2, <2>3
<1> QED
  BY <1>7, <1>8, <1>9, <1>10, <1>11 DEF CopyInv

LEMMA ForgetCopy ==
  ASSUME TypeInv, CopyInv, OneOperator, NEW a \in Admins, ForgetFailed(a)
  PROVE  CopyInv'
<1>1. PICK ids \in SUBSET DOMAIN failed :
        /\ failed' = [f \in DOMAIN failed \ ids |-> failed[f]]
        /\ forgotten' = forgotten \cup {failed[f].payload : f \in ids}
  BY DEF ForgetFailed
<1>2. jobs' = jobs /\ pushed' = pushed /\ batch' = batch /\ \A c \in Admins : batch[c] = {}
  BY DEF ForgetFailed, OneOperator
<1>3. \A f \in DOMAIN failed' : f \in DOMAIN failed /\ f \notin ids /\ failed'[f] = failed[f]
  BY <1>1
<1>4. \A x \in DOMAIN jobs' : jobs'[x].payload \in pushed' \ forgotten'
  BY <1>1, <1>2 DEF CopyInv
<1>5. \A f \in DOMAIN failed' : failed'[f].payload \in pushed' \ forgotten'
  BY <1>1, <1>2, <1>3 DEF CopyInv
<1>6. forgotten' \subseteq pushed'
  BY <1>1, <1>2 DEF CopyInv
<1> QED
  BY <1>2, <1>3, <1>4, <1>5, <1>6 DEF CopyInv

LEMMA SettleCopy ==
  ASSUME TypeInv, ClaimInv, CopyInv, NEW w \in Workers, Settle(w)
  PROVE  CopyInv'
<1>0. UNCHANGED history /\ batch' = batch
  BY DEF Settle
<1>1. CASE ~Owned(job[w].id, job[w].by, job[w].attempts)
  BY <1>0, <1>1, SamePlacesCopy DEF Settle, SamePlaces, tables
<1>2. CASE Owned(job[w].id, job[w].by, job[w].attempts)
  <2>1. job[w].id \in DOMAIN jobs /\ Apply(w) /\ plan[w] \in Plan /\ jobs \in [DOMAIN jobs -> Row]
    BY <1>2 DEF Owned, Settle, TypeInv, WorkerInv, WorkerTypeOK, TablesOK
  <2>2. CASE plan[w].op = "delete"
    <3>1. jobs' = Drop(jobs, job[w].id) /\ failed' = failed
      BY <2>1, <2>2 DEF Apply
    <3>2. \A o \in DOMAIN jobs' : o \in DOMAIN jobs /\ jobs'[o] = jobs[o]
      BY <3>1 DEF Drop
    <3> QED
      BY <1>0, <3>1, <3>2 DEF CopyInv, history
  <2>3. CASE plan[w].op = "release"
    <3>1. failed' = failed
          /\ jobs' = [jobs EXCEPT ![job[w].id].until = 0, ![job[w].id].by = NoOne,
                                  ![job[w].id].avail = NowUtc(w) + plan[w].delay]
      BY <2>1, <2>3 DEF Apply
    <3>2. DOMAIN jobs' = DOMAIN jobs /\ \A o \in DOMAIN jobs : jobs'[o].payload = jobs[o].payload
      BY <2>1, <3>1 DEF Row
    <3> QED
      BY <1>0, <3>1, <3>2, SamePlacesCopy DEF SamePlaces
  <2>4. CASE plan[w].op = "fail"
    BY <1>0, <2>1, <2>4, MoveCopy DEF Apply
  <2> QED
    BY <2>1, <2>2, <2>3, <2>4 DEF Plan
<1> QED
  BY <1>1, <1>2

LEMMA NextCopy ==
  ASSUME TypeInv, ClaimInv, CopyInv, OneOperator, [Next]_vars
  PROVE  CopyInv'
<1>1. CASE UNCHANGED tables /\ UNCHANGED history /\ batch' = batch
  BY <1>1, SamePlacesCopy DEF SamePlaces, tables
<1>2. CASE Push
  BY <1>2, PushCopy
<1>3. ASSUME NEW w \in Workers, Reserve(w) PROVE CopyInv'
  <2>1. CASE BeginReserve(w) \/ FindNothing(w) \/ FindCandidate(w)
    BY <1>1, <2>1 DEF BeginReserve, FindNothing, FindCandidate
  <2>2. CASE FindExhausted(w)
    BY <2>2, MoveCopy DEF FindExhausted
  <2>3. CASE Claim(w)
    <3>1. DOMAIN jobs' = DOMAIN jobs /\ \A o \in DOMAIN jobs : jobs'[o].payload = jobs[o].payload
      BY <2>3, ClaimEffect
    <3>2. failed' = failed /\ UNCHANGED history /\ batch' = batch
      BY <2>3 DEF Claim
    <3> QED
      BY <3>1, <3>2, SamePlacesCopy DEF SamePlaces
  <2>4. CASE Discard(w)
    BY <1>1, <2>4, MoveCopy DEF Discard, Owned
  <2> QED
    BY <1>3, <2>1, <2>2, <2>3, <2>4 DEF Reserve
<1>4. ASSUME NEW w \in Workers, Settle(w) PROVE CopyInv'
  BY <1>4, SettleCopy
<1>5. ASSUME NEW w \in Workers, LoopStep(w) \/ Fault(w) PROVE CopyInv'
  BY <1>1, <1>5 DEF LoopStep, Fault, ReserveError
<1>6. ASSUME NEW a \in Admins, Admin(a) PROVE CopyInv'
  <2>1. CASE RetryMove(a)
    BY <2>1, RetryCopy
  <2>2. CASE ForgetFailed(a)
    BY <2>2, ForgetCopy
  <2>3. CASE RetrySelect(a) \/ RetryInterrupted(a)
    <3>0. batch \in [Admins -> SUBSET Pick]
      BY DEF TypeInv, RestOK
    <3>1. UNCHANGED <<jobs, failed, pushed, forgotten>>
      BY <2>3 DEF RetrySelect, RetryInterrupted, tables, history
    <3>2. \A c \in Admins : \A b \in batch'[c] : b \in batch[c] \/ (b.id \in DOMAIN failed /\ failed[b.id] = b.row)
      <4>1. CASE RetryInterrupted(a)
        BY <3>0, <4>1 DEF RetryInterrupted
      <4>2. CASE RetrySelect(a)
        <5>1. PICK ids \in SUBSET DOMAIN failed :
                batch' = [batch EXCEPT ![a] = {[id |-> f, row |-> failed[f]] : f \in ids}]
          BY <4>2 DEF RetrySelect
        <5> QED
          BY <3>0, <5>1
      <4> QED
        BY <2>3, <4>1, <4>2
    <3> QED
      BY <3>1, <3>2 DEF CopyInv
  <2> QED
    BY <1>6, <2>1, <2>2, <2>3 DEF Admin
<1>7. CASE Tick \/ UNCHANGED vars
  BY <1>1, <1>7 DEF Tick, vars
<1> QED
  BY <1>2, <1>3, <1>4, <1>5, <1>6, <1>7 DEF Next

LEMMA InitCopy == Init => CopyInv
BY DEF Init, CopyInv

LEMMA CopiesHold == ASSUME OneOperator PROVE Spec => [](TypeInv /\ ClaimInv /\ CopyInv)
<1>1. Init => TypeInv /\ ClaimInv /\ CopyInv
  BY InitClaims, InitCopy
<1>2. TypeInv /\ ClaimInv /\ CopyInv /\ [Next]_vars => (TypeInv /\ ClaimInv /\ CopyInv)'
  BY NextClaims, NextCopy
<1> QED
  BY <1>1, <1>2, PTL DEF Spec

\* driver_pg.py:371, "a job cannot be in both tables or neither": as long as one operator at a
\* time retries and forgets, a payload is in one table, once.  With two operators the code
\* copies it, which is what the run pg_double_retry shows.
THEOREM JobsAreNotCopied == ASSUME OneOperator PROVE Spec => []OneCopy
<1>1. TypeInv /\ ClaimInv /\ CopyInv => OneCopy
  <2> SUFFICES ASSUME CopyInv, NEW p \in Payloads
               PROVE  Cardinality(RowsOf(p)) + Cardinality(FailedRowsOf(p)) <= 1
    BY DEF OneCopy, RowsOf, FailedRowsOf
  <2>1. Cardinality({}) = 0 /\ \A x : Cardinality({x}) = 1
    BY FS_EmptySet, FS_Singleton
  <2>2. RowsOf(p) = {} \/ \E x : RowsOf(p) = {x}
    BY DEF CopyInv, RowsOf
  <2>3. FailedRowsOf(p) = {} \/ \E x : FailedRowsOf(p) = {x}
    BY DEF CopyInv, FailedRowsOf
  <2>4. RowsOf(p) = {} \/ FailedRowsOf(p) = {}
    BY DEF CopyInv, RowsOf, FailedRowsOf
  <2>5. Cardinality(RowsOf(p)) \in {0, 1} /\ Cardinality(FailedRowsOf(p)) \in {0, 1}
    BY <2>1, <2>2, <2>3
  <2>6. Cardinality(RowsOf(p)) = 0 \/ Cardinality(FailedRowsOf(p)) = 0
    BY <2>1, <2>4
  <2> HIDE DEF RowsOf, FailedRowsOf
  <2> QED
    BY <2>5, <2>6
<1> QED
  BY <1>1, CopiesHold, PTL

-----------------------------------------------------------------------------
(* The driver implements JobQueue *)

AllInv == TypeInv /\ ClaimInv /\ CopyInv

\* What the mapping says of a payload that was never pushed, one with a row, one that failed
\* and one that is over.
MapsNew(p) == p \notin pushed => StateOf(p) = "new" /\ HolderOf(p) = NoOne /\ LeftOf(p) = 0
MapsRow(p, id) ==
  jobs[id].payload = p =>
    /\ StateOf(p) = IF jobs[id].by = NoOne THEN "waiting" ELSE "held"
    /\ LeftOf(p) = jobs[id].max - jobs[id].attempts
    /\ \A w \in Workers : HasToken(w, id) => HolderOf(p) = w
    /\ (\A w \in Workers : ~HasToken(w, id)) => HolderOf(p) = NoOne
MapsFailed(p, f) == failed[f].payload = p => StateOf(p) = "failed" /\ HolderOf(p) = NoOne /\ LeftOf(p) = 0
MapsOver(p) ==
  p \in pushed /\ RowsOf(p) = {} /\ FailedRowsOf(p) = {} =>
    /\ StateOf(p) = IF p \in forgotten THEN "gone" ELSE "done"
    /\ HolderOf(p) = NoOne /\ LeftOf(p) = 0

Mapped ==
  AllInv =>
    \A p \in Payloads :
      /\ MapsNew(p) /\ MapsOver(p)
      /\ \A id \in DOMAIN jobs : MapsRow(p, id)
      /\ \A f \in DOMAIN failed : MapsFailed(p, f)

LEMMA MappedNow == Mapped
<1> SUFFICES ASSUME AllInv, NEW p \in Payloads
             PROVE  /\ MapsNew(p) /\ MapsOver(p)
                    /\ \A id \in DOMAIN jobs : MapsRow(p, id)
                    /\ \A f \in DOMAIN failed : MapsFailed(p, f)
  BY DEF Mapped
<1>0. CopyInv
  BY DEF AllInv
<1>1. RowsOf(p) = {} => HolderOf(p) = NoOne /\ LeftOf(p) = 0
  BY DEF HolderOf, HoldersOf, LeftOf
<1>2. MapsNew(p)
  <2> SUFFICES ASSUME p \notin pushed PROVE StateOf(p) = "new" /\ HolderOf(p) = NoOne /\ LeftOf(p) = 0
    BY DEF MapsNew
  <2>1. RowsOf(p) = {} /\ FailedRowsOf(p) = {} /\ p \notin forgotten
    BY <1>0 DEF CopyInv, RowsOf, FailedRowsOf
  <2> QED
    BY <1>1, <2>1 DEF StateOf
<1>3. MapsOver(p)
  BY <1>1 DEF MapsOver, StateOf
<1>4. ASSUME NEW f \in DOMAIN failed PROVE MapsFailed(p, f)
  <2> SUFFICES ASSUME failed[f].payload = p PROVE StateOf(p) = "failed" /\ HolderOf(p) = NoOne /\ LeftOf(p) = 0
    BY DEF MapsFailed
  <2>1. RowsOf(p) = {} /\ FailedRowsOf(p) # {} /\ p \in pushed \ forgotten
    BY <1>0 DEF CopyInv, RowsOf, FailedRowsOf
  <2> QED
    BY <1>1, <2>1 DEF StateOf
<1>5. ASSUME NEW id \in DOMAIN jobs PROVE MapsRow(p, id)
  <2> SUFFICES ASSUME jobs[id].payload = p
               PROVE /\ StateOf(p) = IF jobs[id].by = NoOne THEN "waiting" ELSE "held"
                     /\ LeftOf(p) = jobs[id].max - jobs[id].attempts
                     /\ \A w \in Workers : HasToken(w, id) => HolderOf(p) = w
                     /\ (\A w \in Workers : ~HasToken(w, id)) => HolderOf(p) = NoOne
    BY DEF MapsRow
  <2>1. RowsOf(p) = {id} /\ p \in pushed \ forgotten /\ FailedRowsOf(p) = {}
    BY <1>0 DEF CopyInv, RowsOf, FailedRowsOf
  <2>2. HoldersOf(p) = {w \in Workers : HasToken(w, id)}
    BY <2>1 DEF HoldersOf
  <2>3. \A v, w \in Workers : HasToken(v, id) /\ HasToken(w, id) => v = w
    BY DEF AllInv, ClaimInv, TokensUnique, HasToken
  <2>4. StateOf(p) = IF jobs[id].by = NoOne THEN "waiting" ELSE "held"
    BY <2>1 DEF StateOf
  <2>5. LeftOf(p) = jobs[id].max - jobs[id].attempts
    <3>1. (CHOOSE i \in RowsOf(p) : TRUE) = id
      BY <2>1
    <3> QED
      BY <2>1, <3>1 DEF LeftOf
  <2>6. ASSUME NEW w \in Workers, HasToken(w, id) PROVE HolderOf(p) = w
    <3>1. HoldersOf(p) = {w}
      BY <2>2, <2>3, <2>6
    <3>2. (CHOOSE v \in HoldersOf(p) : TRUE) = w
      BY <3>1
    <3> QED
      BY <3>1, <3>2 DEF HolderOf
  <2>7. (\A w \in Workers : ~HasToken(w, id)) => HolderOf(p) = NoOne
    BY <2>2 DEF HolderOf
  <2> QED
    BY <2>4, <2>5, <2>6, <2>7
<1> QED
  BY <1>2, <1>3, <1>4, <1>5

LEMMA MappedNext == Mapped'
BY MappedNow, PTL

\* The abstract queue does not see payload q move.
Unmoved(q) == StateOf(q)' = StateOf(q) /\ HolderOf(q)' = HolderOf(q) /\ LeftOf(q)' = LeftOf(q)

\* A payload does not move if its row and its place in failed stay, and who holds it.
LEMMA Still ==
  ASSUME AllInv, AllInv', NEW q \in Payloads,
         q \in pushed' <=> q \in pushed, q \in forgotten' <=> q \in forgotten,
         \A o : o \in DOMAIN jobs' /\ jobs'[o].payload = q <=> o \in DOMAIN jobs /\ jobs[o].payload = q,
         \A f : f \in DOMAIN failed' /\ failed'[f].payload = q <=> f \in DOMAIN failed /\ failed[f].payload = q,
         \A o \in DOMAIN jobs : jobs[o].payload = q =>
           jobs'[o] = jobs[o] /\ \A v \in Workers : HasToken(v, o)' <=> HasToken(v, o)
  PROVE  Unmoved(q)
<1>1. /\ MapsNew(q) /\ MapsOver(q)
      /\ \A id \in DOMAIN jobs : MapsRow(q, id)
      /\ \A f \in DOMAIN failed : MapsFailed(q, f)
  BY MappedNow DEF Mapped
<1>2. /\ MapsNew(q)' /\ MapsOver(q)'
      /\ \A id \in DOMAIN jobs' : MapsRow(q, id)'
      /\ \A f \in DOMAIN failed' : MapsFailed(q, f)'
  BY MappedNext DEF Mapped
<1>3. CASE q \notin pushed
  BY <1>1, <1>2, <1>3 DEF MapsNew, Unmoved
<1>4. ASSUME NEW id \in DOMAIN jobs, jobs[id].payload = q PROVE Unmoved(q)
  <2>1. id \in DOMAIN jobs' /\ jobs'[id] = jobs[id] /\ \A v \in Workers : HasToken(v, id)' <=> HasToken(v, id)
    BY <1>4
  <2>2. MapsRow(q, id) /\ MapsRow(q, id)'
    BY <1>1, <1>2, <2>1
  <2>3. StateOf(q)' = StateOf(q) /\ LeftOf(q)' = LeftOf(q)
    BY <1>4, <2>1, <2>2 DEF MapsRow
  <2>4. HolderOf(q)' = HolderOf(q)
    <3>1. CASE \E w \in Workers : HasToken(w, id)
      BY <1>4, <2>1, <2>2, <3>1 DEF MapsRow
    <3>2. CASE \A w \in Workers : ~HasToken(w, id)
      BY <1>4, <2>1, <2>2, <3>2 DEF MapsRow
    <3> QED
      BY <3>1, <3>2
  <2> QED
    BY <2>3, <2>4 DEF Unmoved
<1>5. ASSUME NEW f \in DOMAIN failed, failed[f].payload = q PROVE Unmoved(q)
  <2>1. f \in DOMAIN failed' /\ failed'[f].payload = q
    BY <1>5
  <2> QED
    BY <1>1, <1>2, <1>5, <2>1 DEF MapsFailed, Unmoved
<1>6. CASE q \in pushed /\ RowsOf(q) = {} /\ FailedRowsOf(q) = {}
  <2>1. RowsOf(q)' = {} /\ FailedRowsOf(q)' = {} /\ q \in pushed'
    BY <1>6 DEF RowsOf, FailedRowsOf
  <2> QED
    BY <1>1, <1>2, <1>6, <2>1 DEF MapsOver, Unmoved
<1> QED
  BY <1>3, <1>4, <1>5, <1>6 DEF RowsOf, FailedRowsOf

\* A step that sets one payload of the abstract queue.
LEMMA Sets ==
  ASSUME NEW p \in Payloads, NEW s, NEW h, NEW n,
         StateOf(p)' = s, HolderOf(p)' = h, LeftOf(p)' = n,
         \A q \in Payloads : q # p => Unmoved(q)
  PROVE  JQ!Set(p, s, h, n)
BY DEF JQ!Set, Unmoved

LEMMA StutterMaps ==
  ASSUME \A q \in Payloads : Unmoved(q)
  PROVE  UNCHANGED JQ!vars
BY DEF JQ!vars, Unmoved

\* Rows other than id are held by whom they were held.
HoldersSame(id) == \A v \in Workers : \A o \in DOMAIN jobs : o # id => (HasToken(v, o)' <=> HasToken(v, o))

\* One row of jobs and one of failed change, both of payload p: no other payload moves.
LEMMA OthersStill ==
  ASSUME AllInv, AllInv', NEW p, NEW id, NEW f,
         OthersSame(id), FailedSame(f), HoldersSame(id),
         id \in DOMAIN jobs => jobs[id].payload = p, id \in DOMAIN jobs' => jobs'[id].payload = p,
         f \in DOMAIN failed => failed[f].payload = p, f \in DOMAIN failed' => failed'[f].payload = p,
         \A q : q # p => (q \in pushed' <=> q \in pushed) /\ (q \in forgotten' <=> q \in forgotten)
  PROVE  \A q \in Payloads : q # p => Unmoved(q)
<1> SUFFICES ASSUME NEW q \in Payloads, q # p PROVE Unmoved(q)
  OBVIOUS
<1>1. (q \in pushed' <=> q \in pushed) /\ (q \in forgotten' <=> q \in forgotten)
  OBVIOUS
<1>2. \A o : o \in DOMAIN jobs' /\ jobs'[o].payload = q <=> o \in DOMAIN jobs /\ jobs[o].payload = q
  BY DEF OthersSame
<1>3. \A g : g \in DOMAIN failed' /\ failed'[g].payload = q <=> g \in DOMAIN failed /\ failed[g].payload = q
  BY DEF FailedSame
<1>4. \A o \in DOMAIN jobs : jobs[o].payload = q =>
        jobs'[o] = jobs[o] /\ \A v \in Workers : HasToken(v, o)' <=> HasToken(v, o)
  BY DEF OthersSame, HoldersSame
<1> QED
  BY <1>1, <1>2, <1>3, <1>4, Still

LEMMA LetsGoHolders ==
  ASSUME NEW w \in Workers, NEW id, LetsGo(w), OthersSame(id), pc[w] \in Holding => job[w].id = id
  PROVE  HoldersSame(id)
<1> SUFFICES ASSUME NEW v \in Workers, NEW o \in DOMAIN jobs, o # id PROVE HasToken(v, o)' <=> HasToken(v, o)
  BY DEF HoldersSame
<1>1. o \in DOMAIN jobs' /\ jobs'[o] = jobs[o]
  BY DEF OthersSame
<1>2. CASE v = w
  BY <1>2 DEF HasToken, LetsGo
<1>3. CASE v # w
  BY <1>1, <1>3 DEF HasToken, LetsGo
<1> QED
  BY <1>2, <1>3

LEMMA StillHolders ==
  ASSUME \A v \in Workers : (pc'[v] \in Holding <=> pc[v] \in Holding) /\ (pc[v] \in Holding => job'[v] = job[v]),
         NEW id, OthersSame(id)
  PROVE  HoldersSame(id)
<1> SUFFICES ASSUME NEW v \in Workers, NEW o \in DOMAIN jobs, o # id PROVE HasToken(v, o)' <=> HasToken(v, o)
  BY DEF HoldersSame
<1>1. o \in DOMAIN jobs' /\ jobs'[o] = jobs[o]
  BY DEF OthersSame
<1> QED
  BY <1>1 DEF HasToken

\* What a claim says of its row in the abstract queue.
LEMMA RowMaps ==
  ASSUME AllInv, NEW id \in DOMAIN jobs
  PROVE  /\ jobs[id].payload \in Payloads
         /\ StateOf(jobs[id].payload) \in {"waiting", "held"}
         /\ LeftOf(jobs[id].payload) = jobs[id].max - jobs[id].attempts
         /\ jobs[id].max \in Nat /\ jobs[id].attempts \in Nat /\ jobs[id].attempts <= jobs[id].max
         /\ \A w \in Workers : HasToken(w, id) => /\ HolderOf(jobs[id].payload) = w
                                                  /\ StateOf(jobs[id].payload) = "held"
                                                  /\ \A v \in Workers : HasToken(v, id) => v = w
<1>1. jobs[id] \in Row
  BY DEF AllInv, TypeInv, TablesOK
<1>2. jobs[id].payload \in Payloads /\ jobs[id].max \in Nat /\ jobs[id].attempts \in Nat
  BY <1>1 DEF Row
<1>3. jobs[id].attempts <= jobs[id].max
  BY DEF AllInv, ClaimInv, AttemptBudget
<1>4. MapsRow(jobs[id].payload, id)
  BY <1>2, MappedNow DEF Mapped
<1>5. \A w \in Workers : HasToken(w, id) => jobs[id].by # NoOne /\ \A v \in Workers : HasToken(v, id) => v = w
  <2> SUFFICES ASSUME NEW w \in Workers, HasToken(w, id)
               PROVE  jobs[id].by # NoOne /\ \A v \in Workers : HasToken(v, id) => v = w
    OBVIOUS
  <2>1. job[w] \in Job /\ jobs[id].by = job[w].by
    BY DEF HasToken, AllInv, TypeInv, WorkerInv, WorkerTypeOK
  <2>2. jobs[id].by # NoOne
    BY <2>1, WorkerAssumption DEF Job, WorkerAssumption
  <2> QED
    BY <2>2 DEF HasToken, AllInv, ClaimInv, TokensUnique
<1> QED
  BY <1>2, <1>3, <1>4, <1>5 DEF MapsRow

\* Tables and claims stay as they are: the abstract queue stutters.
LEMMA StutterStep ==
  ASSUME AllInv, AllInv', UNCHANGED tables, UNCHANGED history,
         \A v \in Workers : \A o \in DOMAIN jobs : HasToken(v, o)' <=> HasToken(v, o)
  PROVE  UNCHANGED JQ!vars
<1>1. jobs' = jobs /\ failed' = failed /\ pushed' = pushed /\ forgotten' = forgotten
  BY DEF tables, history
<1>2. \A q \in Payloads : Unmoved(q)
  BY <1>1, Still
<1> QED
  BY <1>2, StutterMaps

\* The worker lets go and the tables stay: Abandon of what it held, if anything.
LEMMA AbandonStep ==
  ASSUME AllInv, AllInv', NEW w \in Workers, LetsGo(w), UNCHANGED tables, UNCHANGED history
  PROVE  (\E p \in Payloads : JQ!Abandon(p, w)) \/ UNCHANGED JQ!vars
<1>1. jobs' = jobs /\ failed' = failed /\ pushed' = pushed /\ forgotten' = forgotten
  BY DEF tables, history
<1>2. CASE \A o \in DOMAIN jobs : ~HasToken(w, o)
  <2>1. \A v \in Workers : \A o \in DOMAIN jobs : HasToken(v, o)' <=> HasToken(v, o)
    BY <1>1, <1>2 DEF HasToken, LetsGo
  <2> QED
    BY <2>1, StutterStep
<1>3. ASSUME NEW id \in DOMAIN jobs, HasToken(w, id) PROVE \E p \in Payloads : JQ!Abandon(p, w)
  <2>0. PICK p \in Payloads : jobs[id].payload = p
    BY <1>3, RowMaps
  <2>1. p \in Payloads /\ HolderOf(p) = w /\ StateOf(p) = "held" /\ LeftOf(p) = jobs[id].max - jobs[id].attempts
    BY <1>3, <2>0, RowMaps
  <2>2. \A v \in Workers : v # w => ~HasToken(v, id)
    BY <1>3, RowMaps
  <2>3. OthersSame(id) /\ FailedSame(0) /\ job[w].id = id
    BY <1>1, <1>3 DEF OthersSame, FailedSame, HasToken
  <2>4. HoldersSame(id)
    BY <2>3, LetsGoHolders
  <2>5. 0 \notin DOMAIN failed
    BY DEF AllInv, TypeInv, TablesOK
  <2>6. \A q \in Payloads : q # p => Unmoved(q)
    BY <1>1, <2>0, <2>3, <2>4, <2>5, OthersStill
  <2>7. MapsRow(p, id)'
    BY <1>1, MappedNext DEF Mapped
  <2>8. \A v \in Workers : ~HasToken(v, id)'
    BY <1>1, <2>2 DEF HasToken, LetsGo
  <2>9. StateOf(p)' = StateOf(p) /\ LeftOf(p)' = LeftOf(p) /\ HolderOf(p)' = NoOne
    BY <1>1, <1>3, <2>0, <2>1, <2>7, <2>8, MappedNow DEF MapsRow, Mapped
  <2>10. JQ!Set(p, "held", NoOne, LeftOf(p))
    BY <2>1, <2>6, <2>9, Sets
  <2> QED
    BY <2>1, <2>10 DEF JQ!Abandon
<1> QED
  BY <1>2, <1>3

\* A row nobody holds, or that the worker holds that lets go, moves to failed.
LEMMA MoveStep ==
  ASSUME AllInv, AllInv', NEW w \in Workers, NEW id \in DOMAIN jobs, NEW at, MoveToFailed(id, at),
         LetsGo(w), pc[w] \in Holding => job[w].id = id, UNCHANGED history, NEW p \in Payloads, jobs[id].payload = p
  PROVE  JQ!Set(p, "failed", NoOne, 0)
<1>1. /\ OthersSame(id) /\ id \notin DOMAIN jobs'
      /\ FailedSame(nextFailed) /\ nextFailed \notin DOMAIN failed
      /\ nextFailed \in DOMAIN failed' /\ failed'[nextFailed].payload = p
  BY MoveEffect DEF AllInv
<1>2. HoldersSame(id)
  BY <1>1, LetsGoHolders
<1>3. pushed' = pushed /\ forgotten' = forgotten
  BY DEF history
<1>4. \A q \in Payloads : q # p => Unmoved(q)
  BY <1>1, <1>2, <1>3, OthersStill
<1>5. StateOf(p)' = "failed" /\ HolderOf(p)' = NoOne /\ LeftOf(p)' = 0
  BY <1>1, MappedNext DEF Mapped, MapsFailed
<1> QED
  BY <1>4, <1>5, Sets

\* The row comes to wait for whoever claims it next, with what is left of its budget.
LEMMA WaitsStep ==
  ASSUME AllInv, AllInv', NEW p \in Payloads, NEW id \in DOMAIN jobs', NEW n,
         jobs'[id].payload = p, jobs'[id].by = NoOne, jobs'[id].max - jobs'[id].attempts = n,
         \A q \in Payloads : q # p => Unmoved(q)
  PROVE  JQ!Set(p, "waiting", NoOne, n)
<1>1. MapsRow(p, id)'
  BY MappedNext DEF Mapped
<1>2. ASSUME NEW v \in Workers PROVE ~HasToken(v, id)'
  <2> SUFFICES ASSUME HasToken(v, id)' PROVE FALSE
    OBVIOUS
  <2>1. job'[v] \in Job /\ job'[v].by = NoOne
    BY DEF HasToken, AllInv, TypeInv, WorkerInv, WorkerTypeOK
  <2> QED
    BY <2>1, WorkerAssumption DEF Job, WorkerAssumption
<1>3. StateOf(p)' = "waiting" /\ LeftOf(p)' = n /\ HolderOf(p)' = NoOne
  BY <1>1, <1>2 DEF MapsRow
<1> QED
  BY <1>3, Sets

LEMMA PushStep ==
  ASSUME AllInv, AllInv', Push
  PROVE  \E p \in Payloads : JQ!Push(p)
<1>0. PICK p \in Payloads \ pushed, name \in QueueNames, prio \in Priorities, delay \in Delays, b \in Budgets :
        /\ jobs' = Put(jobs, nextId,
                       [queue |-> name, payload |-> p, prio |-> prio, attempts |-> 0,
                        max |-> AtLeast(1, b), avail |-> now + AtLeast(0, delay),
                        until |-> 0, by |-> NoOne])
        /\ pushed' = pushed \cup {p}
  BY DEF Push
<1>1. PICK row :
        /\ row.payload = p /\ row.by = NoOne /\ row.attempts = 0 /\ row.max = AtLeast(1, b)
        /\ jobs' = Put(jobs, nextId, row) /\ pushed' = pushed \cup {p}
  BY <1>0
<1>2. /\ OthersSame(nextId) /\ nextId \notin DOMAIN jobs
      /\ nextId \in DOMAIN jobs' /\ jobs'[nextId] = row
  BY <1>1, InsertEffect DEF AllInv
<1>3. failed' = failed /\ forgotten' = forgotten /\ pc' = pc /\ job' = job
  BY DEF Push, workerVars
<1>4. HoldersSame(nextId)
  BY <1>2, <1>3, StillHolders
<1>5. FailedSame(0) /\ 0 \notin DOMAIN failed /\ 0 \notin DOMAIN failed'
  BY <1>3 DEF FailedSame, AllInv, TypeInv, TablesOK
<1>6. \A q \in Payloads : q # p => Unmoved(q)
  BY <1>1, <1>2, <1>3, <1>4, <1>5, OthersStill
<1>7. AtLeast(1, b) \in Nat /\ AtLeast(1, b) - 0 = AtLeast(1, b)
  BY AtLeastType, PgAssumption DEF PgAssumption
<1>8. JQ!Set(p, "waiting", NoOne, AtLeast(1, b))
  BY <1>1, <1>2, <1>6, <1>7, WaitsStep
<1>9. StateOf(p) = "new"
  BY MappedNow DEF Mapped, MapsNew
<1> QED
  BY <1>8, <1>9 DEF JQ!Push

LEMMA RetryStep ==
  ASSUME AllInv, AllInv', NEW a \in Admins, RetryMove(a)
  PROVE  \E p \in Payloads : JQ!Retry(p)
<1>0. PICK b \in batch[a] :
        /\ jobs' = Put(jobs, nextId,
                       [queue |-> b.row.queue, payload |-> b.row.payload, prio |-> 0, attempts |-> 0,
                        max |-> AtLeast(1, Tries), avail |-> now, until |-> 0, by |-> NoOne])
        /\ failed' = Drop(failed, b.id)
  BY DEF RetryMove
<1>1. PICK row :
        /\ row.payload = b.row.payload /\ row.by = NoOne /\ row.attempts = 0 /\ row.max = AtLeast(1, Tries)
        /\ jobs' = Put(jobs, nextId, row) /\ failed' = Drop(failed, b.id)
  BY <1>0
<1>2. /\ OthersSame(nextId) /\ nextId \notin DOMAIN jobs
      /\ nextId \in DOMAIN jobs' /\ jobs'[nextId] = row
  BY <1>1, InsertEffect DEF AllInv
<1>3. b.id \in DOMAIN failed /\ failed[b.id] = b.row
  BY DEF AllInv, CopyInv
<1>4. PICK p \in Payloads : failed[b.id].payload = p
  BY <1>3 DEF AllInv, TypeInv, TablesOK, FailedRow
<1>5. pushed' = pushed /\ forgotten' = forgotten /\ pc' = pc /\ job' = job
  BY DEF RetryMove, workerVars, history
<1>6. HoldersSame(nextId)
  BY <1>2, <1>5, StillHolders
<1>7. FailedSame(b.id) /\ b.id \notin DOMAIN failed'
  BY <1>1 DEF FailedSame, Drop
<1>8. \A q \in Payloads : q # p => Unmoved(q)
  BY <1>1, <1>2, <1>3, <1>4, <1>5, <1>6, <1>7, OthersStill
<1>9. AtLeast(1, Tries) \in Nat /\ AtLeast(1, Tries) - 0 = AtLeast(1, Tries)
  <2>1. Tries \in Int
    BY PgAssumption DEF PgAssumption
  <2>2. AtLeast(1, Tries) \in Nat
    BY <2>1, AtLeastType
  <2> QED
    BY <2>2
<1>10. JQ!Set(p, "waiting", NoOne, AtLeast(1, Tries))
  BY <1>1, <1>2, <1>3, <1>4, <1>8, <1>9, WaitsStep
<1>11. StateOf(p) = "failed"
  BY <1>3, <1>4, MappedNow DEF Mapped, MapsFailed
<1> QED
  BY <1>10, <1>11 DEF JQ!Retry

LEMMA ForgetStep ==
  ASSUME AllInv, AllInv', NEW a \in Admins, ForgetFailed(a)
  PROVE  \E S \in SUBSET Payloads : JQ!Forget(S)
<1>1. PICK ids \in SUBSET DOMAIN failed :
        /\ failed' = [f \in DOMAIN failed \ ids |-> failed[f]]
        /\ forgotten' = forgotten \cup {failed[f].payload : f \in ids}
  BY DEF ForgetFailed
<1>2. jobs' = jobs /\ pushed' = pushed /\ pc' = pc /\ job' = job
  BY DEF ForgetFailed, workerVars
<1>3. PICK S \in SUBSET Payloads : S = {failed[f].payload : f \in ids}
  BY DEF AllInv, TypeInv, TablesOK, FailedRow
<1>4. \A p \in S : StateOf(p) = "failed" /\ HolderOf(p) = NoOne /\ LeftOf(p) = 0
  BY <1>3, MappedNow DEF Mapped, MapsFailed
<1>5. \A p \in S : StateOf(p)' = "gone" /\ HolderOf(p)' = NoOne /\ LeftOf(p)' = 0
  <2> SUFFICES ASSUME NEW p \in S PROVE StateOf(p)' = "gone" /\ HolderOf(p)' = NoOne /\ LeftOf(p)' = 0
    OBVIOUS
  <2>1. PICK f \in ids : failed[f].payload = p
    BY <1>3
  <2>2. p \in forgotten' /\ p \in pushed' /\ AllInv
    BY <1>1, <1>2, <2>1 DEF AllInv, CopyInv
  <2>3. RowsOf(p)' = {}
    BY <1>2, <2>1 DEF RowsOf, AllInv, CopyInv
  <2>4. FailedRowsOf(p)' = {}
    BY <1>1, <2>1 DEF FailedRowsOf, AllInv, CopyInv
  <2> QED
    BY <2>2, <2>3, <2>4, MappedNext DEF Mapped, MapsOver
<1>6. ASSUME NEW q \in Payloads, q \notin S PROVE Unmoved(q)
  <2>1. (q \in pushed' <=> q \in pushed) /\ (q \in forgotten' <=> q \in forgotten)
    BY <1>1, <1>2, <1>3, <1>6
  <2>2. \A f : f \in DOMAIN failed' /\ failed'[f].payload = q <=> f \in DOMAIN failed /\ failed[f].payload = q
    BY <1>1, <1>3, <1>6
  <2>3. \A v \in Workers : \A o \in DOMAIN jobs : HasToken(v, o)' <=> HasToken(v, o)
    BY <1>2 DEF HasToken
  <2> QED
    BY <1>2, <2>1, <2>2, <2>3, Still
<1>7. \A q \in Payloads : /\ StateOf(q)' = IF q \in S THEN "gone" ELSE StateOf(q)
                          /\ HolderOf(q)' = HolderOf(q) /\ LeftOf(q)' = LeftOf(q)
  BY <1>4, <1>5, <1>6 DEF Unmoved
<1>8. JQ!Forget(S)
  BY <1>4, <1>7 DEF JQ!Forget
<1> QED
  BY <1>8

LEMMA ClaimStep ==
  ASSUME AllInv, AllInv', NEW w \in Workers, Claim(w)
  PROVE  \E p \in Payloads : JQ!Claim(p, w)
<1>0. TypeInv /\ ClaimInv
  BY DEF AllInv
<1>1. PICK id : id = scan[w].cand
  OBVIOUS
<1>2. /\ id \in DOMAIN jobs /\ pc[w] = "reserve" /\ DOMAIN jobs' = DOMAIN jobs
      /\ \A o \in DOMAIN jobs : o # id => jobs'[o] = jobs[o]
      /\ jobs'[id].attempts = jobs[id].attempts + 1
      /\ jobs'[id].max = jobs[id].max /\ jobs'[id].payload = jobs[id].payload
      /\ job'[w].id = id /\ job'[w].attempts = jobs[id].attempts + 1
      /\ pc'[w] \in Holding
      /\ \A v \in Workers : v # w => pc'[v] = pc[v] /\ job'[v] = job[v]
  BY <1>0, <1>1, ClaimEffect
<1>3. jobs'[id].by = WorkerId[w] /\ job'[w].by = WorkerId[w]
  <2>1. jobs[id] \in Row /\ jobs \in [DOMAIN jobs -> Row] /\ job \in [Workers -> Job \cup {NoJob}]
    BY <1>0, <1>2 DEF TypeInv, TablesOK, WorkerInv, WorkerTypeOK
  <2>2. jobs' = [jobs EXCEPT ![id].until = scan[w].moment + ClaimSeconds,
                             ![id].by = WorkerId[w],
                             ![id].attempts = @ + 1]
    BY <1>1 DEF Claim, ClaimRow
  <2>3. jobs'[id].by = WorkerId[w]
    BY <1>2, <2>1, <2>2 DEF Row
  <2>4. PICK j : j.by = WorkerId[w] /\ job' = [job EXCEPT ![w] = j]
    BY DEF Claim, ReserveReturns
  <2> QED
    BY <2>1, <2>3, <2>4
<1>4. PICK p \in Payloads : jobs[id].payload = p
  BY <1>2, RowMaps
<1>5. /\ StateOf(p) \in {"waiting", "held"} /\ LeftOf(p) = jobs[id].max - jobs[id].attempts
      /\ jobs[id].max \in Nat /\ jobs[id].attempts \in Nat
  BY <1>2, <1>4, RowMaps
<1>6. jobs[id].attempts < jobs[id].max
  BY <1>0, <1>1 DEF ClaimInv, CandidateStable, Claim
<1>7. OthersSame(id) /\ UNCHANGED history /\ failed' = failed
  BY <1>2 DEF OthersSame, Claim
<1>8. HoldersSame(id)
  <2> SUFFICES ASSUME NEW v \in Workers, NEW o \in DOMAIN jobs, o # id PROVE HasToken(v, o)' <=> HasToken(v, o)
    BY DEF HoldersSame
  <2>1. CASE v = w
    BY <1>2, <2>1 DEF HasToken, Holding
  <2>2. CASE v # w
    BY <1>2, <2>2 DEF HasToken
  <2> QED
    BY <2>1, <2>2
<1>9. FailedSame(0) /\ 0 \notin DOMAIN failed
  BY <1>0, <1>7 DEF FailedSame, TypeInv, TablesOK
<1>10. \A q \in Payloads : q # p => Unmoved(q)
  BY <1>2, <1>4, <1>7, <1>8, <1>9, OthersStill DEF history
<1>11. MapsRow(p, id)'
  BY <1>2, MappedNext DEF Mapped
<1>12. HasToken(w, id)'
  BY <1>2, <1>3 DEF HasToken
<1>13. StateOf(p)' = "held" /\ HolderOf(p)' = w /\ LeftOf(p)' = jobs'[id].max - jobs'[id].attempts
  BY <1>2, <1>3, <1>4, <1>11, <1>12, WorkerAssumption DEF MapsRow, WorkerAssumption
<1>14. LeftOf(p)' = LeftOf(p) - 1 /\ LeftOf(p) > 0
  BY <1>2, <1>5, <1>6, <1>13
<1>15. JQ!Set(p, "held", w, LeftOf(p) - 1)
  BY <1>10, <1>13, <1>14, Sets
<1> QED
  BY <1>5, <1>14, <1>15 DEF JQ!Claim

\* delete, release and fail of the worker that holds the job; a stale one lets go and no more.
LEMMA SettleStep ==
  ASSUME AllInv, AllInv', NEW w \in Workers, Settle(w) \/ Discard(w), LetsGo(w)
  PROVE  (\E p \in Payloads : JQ!Delete(p, w) \/ JQ!Release(p, w) \/ JQ!Fail(p, w) \/ JQ!Abandon(p, w))
         \/ UNCHANGED JQ!vars
<1>0. UNCHANGED history /\ pc[w] \in Holding
  BY DEF Settle, Discard, Holding
<1>1. CASE ~Owned(job[w].id, job[w].by, job[w].attempts)
  <2>1. UNCHANGED tables
    BY <1>1 DEF Settle, Discard
  <2> QED
    BY <1>0, <2>1, AbandonStep
<1>2. CASE Owned(job[w].id, job[w].by, job[w].attempts)
  <2>1. PICK id \in DOMAIN jobs : id = job[w].id /\ HasToken(w, id)
    BY <1>0, <1>2 DEF Owned, HasToken
  <2>2. PICK p \in Payloads : jobs[id].payload = p
    BY RowMaps
  <2>3. /\ HolderOf(p) = w /\ LeftOf(p) = jobs[id].max - jobs[id].attempts
    BY <2>1, <2>2, RowMaps
  <2>4. ASSUME MoveToFailed(id, NowUtc(w)) PROVE JQ!Fail(p, w)
    <3>1. JQ!Set(p, "failed", NoOne, 0)
      BY <1>0, <2>1, <2>2, <2>4, MoveStep
    <3> QED
      BY <2>3, <3>1 DEF JQ!Fail
  <2>5. CASE Discard(w)
    BY <1>2, <2>1, <2>4, <2>5 DEF Discard
  <2>6. CASE Settle(w)
    <3>1. Apply(w) /\ plan[w] \in Plan /\ jobs \in [DOMAIN jobs -> Row] /\ jobs[id] \in Row
      BY <1>2, <2>6 DEF Settle, AllInv, TypeInv, WorkerInv, WorkerTypeOK, TablesOK
    <3>2. CASE plan[w].op = "fail"
      BY <2>1, <2>4, <3>1, <3>2 DEF Apply
    <3>3. ASSUME OthersSame(id), failed' = failed, id \in DOMAIN jobs' => jobs'[id].payload = p
          PROVE  \A q \in Payloads : q # p => Unmoved(q)
      <4>1. HoldersSame(id)
        BY <2>1, <3>3, LetsGoHolders
      <4>2. FailedSame(0) /\ 0 \notin DOMAIN failed
        BY <3>3 DEF FailedSame, AllInv, TypeInv, TablesOK
      <4> QED
        BY <1>0, <2>2, <3>3, <4>1, <4>2, OthersStill DEF history
    <3>4. CASE plan[w].op = "delete"
      <4>1. jobs' = Drop(jobs, id) /\ failed' = failed
        BY <2>1, <3>1, <3>4 DEF Apply
      <4>2. OthersSame(id) /\ id \notin DOMAIN jobs'
        BY <4>1 DEF Drop, OthersSame
      <4>3. \A q \in Payloads : q # p => Unmoved(q)
        BY <3>3, <4>1, <4>2
      <4>4. p \in pushed' /\ p \notin forgotten'
        BY <1>0, <2>2 DEF AllInv, CopyInv, history
      <4>5. RowsOf(p)' = {} /\ FailedRowsOf(p)' = {}
        BY <2>2, <4>1, <4>2 DEF RowsOf, FailedRowsOf, OthersSame, AllInv, CopyInv
      <4>6. StateOf(p)' = "done" /\ HolderOf(p)' = NoOne /\ LeftOf(p)' = 0
        BY <4>4, <4>5, MappedNext DEF Mapped, MapsOver
      <4>7. JQ!Set(p, "done", NoOne, 0)
        BY <4>3, <4>6, Sets
      <4> QED
        BY <2>3, <4>7 DEF JQ!Delete
    <3>5. CASE plan[w].op = "release"
      <4>1. failed' = failed
            /\ jobs' = [jobs EXCEPT ![id].until = 0, ![id].by = NoOne, ![id].avail = NowUtc(w) + plan[w].delay]
        BY <2>1, <3>1, <3>5 DEF Apply
      <4>2. OthersSame(id) /\ DOMAIN jobs' = DOMAIN jobs
        BY <3>1, <4>1 DEF OthersSame
      <4>3. /\ jobs'[id].by = NoOne /\ jobs'[id].payload = jobs[id].payload
            /\ jobs'[id].max = jobs[id].max /\ jobs'[id].attempts = jobs[id].attempts
        BY <3>1, <4>1 DEF Row
      <4>4. \A q \in Payloads : q # p => Unmoved(q)
        BY <2>2, <3>3, <4>1, <4>2, <4>3
      <4>5. JQ!Set(p, "waiting", NoOne, LeftOf(p))
        BY <2>2, <2>3, <4>2, <4>3, <4>4, WaitsStep
      <4> QED
        BY <2>3, <4>5 DEF JQ!Release
    <3> QED
      BY <3>1, <3>2, <3>4, <3>5 DEF Plan
  <2> QED
    BY <2>5, <2>6
<1> QED
  BY <1>1, <1>2

LEMMA ExhaustStep ==
  ASSUME AllInv, AllInv', NEW w \in Workers, FindExhausted(w)
  PROVE  \E p \in Payloads : JQ!Exhaust(p)
<1>1. PICK id \in DOMAIN jobs : Exhausted(id, scan[w].moment) /\ MoveToFailed(id, NowUtc(w))
  BY DEF FindExhausted
<1>2. PICK p \in Payloads : jobs[id].payload = p
  BY RowMaps
<1>3. LetsGo(w) /\ pc[w] \notin Holding /\ UNCHANGED history
  BY NextRoundLetsGo DEF FindExhausted, Looking, Holding, AllInv
<1>4. JQ!Set(p, "failed", NoOne, 0)
  BY <1>1, <1>2, <1>3, MoveStep
<1>5. /\ StateOf(p) \in {"waiting", "held"} /\ LeftOf(p) = jobs[id].max - jobs[id].attempts
      /\ jobs[id].max \in Nat /\ jobs[id].attempts \in Nat /\ jobs[id].attempts <= jobs[id].max
  BY <1>2, RowMaps
<1>6. LeftOf(p) = 0
  BY <1>1, <1>5 DEF Exhausted
<1> QED
  BY <1>4, <1>5, <1>6 DEF JQ!Exhaust

\* Steps of the loop that touch no table move no claim either.
LEMMA LoopHolders ==
  ASSUME TypeInv, NEW w \in Workers, Quit(w) \/ Rest(w) \/ RunJob(w) \/ Restart(w) \/ Signal(w)
  PROVE  job' = job /\ \A v \in Workers : pc'[v] \in Holding <=> pc[v] \in Holding
<1>0. pc \in [Workers -> Places]
  BY DEF TypeInv, WorkerInv, WorkerTypeOK
<1>1. CASE Quit(w) \/ Rest(w) \/ Restart(w) \/ Signal(w)
  BY <1>0, <1>1 DEF Quit, Rest, Restart, Signal, Goto, Ended, Holding
<1>2. CASE RunJob(w)
  <2>1. job' = job
    BY <1>2 DEF RunJob, StartHandler, ResolveFails, HandlerReturns, HandlerReleases, HandlerRaises, HandlerTimesOut,
                HandlerCancelled
  <2>2. pc[w] \in {"start", "run"} /\ \E place \in {"run", "settle"} : pc' = [pc EXCEPT ![w] = place]
    BY <1>2 DEF RunJob, StartHandler, ResolveFails, HandlerReturns, HandlerReleases, HandlerRaises, HandlerTimesOut,
                HandlerCancelled, JobFailed, EndWith, Goto
  <2> QED
    BY <1>0, <2>1, <2>2 DEF Holding
<1> QED
  BY <1>1, <1>2

LEMMA NextStep ==
  ASSUME AllInv, AllInv', [Next]_vars
  PROVE  [JQ!Next]_(JQ!vars)
<1>0. TypeInv /\ ClaimInv
  BY DEF AllInv
<1>1. ASSUME UNCHANGED tables, UNCHANGED history, UNCHANGED <<pc, job>> PROVE UNCHANGED JQ!vars
  <2>1. \A v \in Workers : \A o \in DOMAIN jobs : HasToken(v, o)' <=> HasToken(v, o)
    BY <1>1 DEF HasToken, tables
  <2> QED
    BY <1>1, <2>1, StutterStep
<1>2. ASSUME NEW w \in Workers, LetsGo(w), UNCHANGED tables, UNCHANGED history PROVE [JQ!Next]_(JQ!vars)
  BY <1>2, AbandonStep DEF JQ!Next
<1>3. CASE Push
  BY <1>3, PushStep DEF JQ!Next
<1>4. CASE Tick \/ UNCHANGED vars
  <2>1. UNCHANGED tables /\ UNCHANGED history /\ UNCHANGED <<pc, job>>
    BY <1>4 DEF Tick, vars, workerVars
  <2> QED
    BY <1>1, <2>1
<1>5. ASSUME NEW w \in Workers, Reserve(w) PROVE [JQ!Next]_(JQ!vars)
  <2>1. CASE BeginReserve(w)
    BY <1>0, <1>2, <2>1, BeginReserveLetsGo DEF BeginReserve
  <2>2. CASE FindNothing(w)
    BY <1>0, <1>2, <2>2, NextRoundLetsGo DEF FindNothing
  <2>3. CASE FindExhausted(w)
    BY <2>3, ExhaustStep DEF JQ!Next
  <2>4. CASE FindCandidate(w)
    <3>1. UNCHANGED tables /\ UNCHANGED history /\ UNCHANGED <<pc, job>>
      BY <2>4 DEF FindCandidate, workerVars
    <3> QED
      BY <1>1, <3>1
  <2>5. CASE Claim(w)
    BY <2>5, ClaimStep DEF JQ!Next
  <2>6. CASE Discard(w)
    BY <1>0, <2>6, SettleLetsGo, SettleStep DEF JQ!Next
  <2> QED
    BY <1>5, <2>1, <2>2, <2>3, <2>4, <2>5, <2>6 DEF Reserve
<1>6. ASSUME NEW w \in Workers, Settle(w) PROVE [JQ!Next]_(JQ!vars)
  BY <1>0, <1>6, SettleLetsGo, SettleStep DEF JQ!Next
<1>7. ASSUME NEW w \in Workers, LoopStep(w) \/ Fault(w) PROVE [JQ!Next]_(JQ!vars)
  <2>0. UNCHANGED tables /\ UNCHANGED history
    BY <1>7 DEF LoopStep, Fault, ReserveError
  <2>1. CASE Quit(w) \/ Rest(w) \/ RunJob(w) \/ Restart(w) \/ Signal(w)
    <3>1. job' = job /\ \A v \in Workers : pc'[v] \in Holding <=> pc[v] \in Holding
      BY <1>0, <2>1, LoopHolders
    <3>2. \A v \in Workers : \A o \in DOMAIN jobs : HasToken(v, o)' <=> HasToken(v, o)
      BY <2>0, <3>1 DEF HasToken, tables
    <3> QED
      BY <2>0, <3>2, StutterStep
  <2>2. CASE ReserveError(w) \/ (Crash(w) /\ scan' = [scan EXCEPT ![w] = NoScan])
    BY <1>0, <1>2, <2>0, <2>2, ErrorLetsGo
  <2> QED
    BY <1>7, <2>1, <2>2 DEF LoopStep, Fault
<1>8. ASSUME NEW a \in Admins, Admin(a) PROVE [JQ!Next]_(JQ!vars)
  <2>1. CASE RetryMove(a)
    BY <2>1, RetryStep DEF JQ!Next
  <2>2. CASE ForgetFailed(a)
    BY <2>2, ForgetStep DEF JQ!Next
  <2>3. CASE RetrySelect(a) \/ RetryInterrupted(a)
    <3>1. UNCHANGED tables /\ UNCHANGED history /\ UNCHANGED <<pc, job>>
      BY <2>3 DEF RetrySelect, RetryInterrupted, workerVars
    <3> QED
      BY <1>1, <3>1
  <2> QED
    BY <1>8, <2>1, <2>2, <2>3 DEF Admin
<1> QED
  BY <1>3, <1>4, <1>5, <1>6, <1>7, <1>8 DEF Next

\* queue/interface.py as JobQueue states it, by driver_pg.py: every statement, fault and
\* operator's command of the tables and the workers is one step of the abstract queue on one
\* job, or none.  A worker that was taken over no longer ends the job, no attempt is handed
\* out beyond the budget, and a job changes state only along the edges JobQueue allows.
THEOREM TablesImplementJobQueue == ASSUME OneOperator PROVE Spec => ImplementsJobQueue
<1>1. Init => JQ!Init
  BY DEF Init, JQ!Init, StateOf, HolderOf, HoldersOf, LeftOf, RowsOf, FailedRowsOf
<1>2. AllInv /\ AllInv' /\ [Next]_vars => [JQ!Next]_(JQ!vars)
  BY NextStep
<1>3. Spec => []AllInv
  BY CopiesHold DEF AllInv
<1> QED
  BY <1>1, <1>2, <1>3, PTL DEF Spec, ImplementsJobQueue, JQ!Spec

=============================================================================
