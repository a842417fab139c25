-------------------------------- MODULE PgQueue --------------------------------
(***************************************************************************)
(* The PostgreSQL queue driver (queue/driver_pg.py) with the workers that  *)
(* drive it and the operators who retry and forget failed jobs             *)
(* (queue/commands.py).                                                    *)
(*                                                                         *)
(* One step is one committed statement or transaction, except that the     *)
(* reserve transaction is two steps, SELECT ... FOR UPDATE SKIP LOCKED     *)
(* (FindCandidate) and the guarded UPDATE (Claim), with the row locked in  *)
(* between: a statement of another connection on that row waits.           *)
(*                                                                         *)
(* reserved_until = NULL is 0: a real deadline is at least 1, and every    *)
(* test of the column is "IS NULL OR <= moment", which until <= moment is. *)
(* unique_key is left to PgPush, which models push in the transaction of   *)
(* its caller; here a push commits at once and names no key.               *)
(***************************************************************************)
EXTENDS QueueWorker

CONSTANTS
  Queues,        \* --queue of every worker, in precedence order
  Priorities, Delays, Budgets,   \* push arguments: priority, delay, max_attempts
  Tries,         \* config queue.tries, the budget a retried job gets
  ClaimRounds,   \* CLAIM_ROUNDS
  Admins,        \* processes running `queue retry` or `queue forget`
  MaxIds,        \* bound: rows ever inserted into the jobs table
  MaxNow         \* bound: the last second

ASSUME PgAssumption ==
  /\ Queues \in Seq(STRING) /\ Queues # <<>>
  /\ Priorities \subseteq Int /\ Delays \subseteq Int /\ Budgets \subseteq Int
  /\ Tries \in Int
  /\ ClaimRounds \in Nat \ {0}
  /\ MaxIds \in Nat
  /\ MaxNow \in Nat

VARIABLES
  jobs,       \* the jobs table: id -> row
  failed,     \* the failed table: id -> row
  nextId,     \* the serial of jobs
  nextFailed, \* the serial of failed
  scan,       \* where each worker's reserve() is
  batch,      \* the failed rows an admin's retry has selected and not yet moved
  pushed,     \* history: payloads ever pushed
  forgotten   \* history: payloads deleted by `queue forget`

tables == <<jobs, failed, nextId, nextFailed>>
history == <<pushed, forgotten>>
vars == <<now, workerVars, tables, scan, batch, history>>

-----------------------------------------------------------------------------
QueueNames == {Queues[i] : i \in DOMAIN Queues}

Row == [queue: QueueNames, payload: Payloads, prio: Int, attempts: Nat, max: Nat,
        avail: Nat, until: Nat, by: {WorkerId[w] : w \in Workers} \cup {NoOne}]
FailedRow == [queue: QueueNames, payload: Payloads, attempts: Nat, at: Nat]

\* What reserve() keeps: the queue and round it is in, the row it has locked (0
\* for none), and the moment it read before the round's first statement.
NoScan == [q |-> 1, round |-> 1, cand |-> 0, moment |-> 0]
Scan == [q: DOMAIN Queues, round: 1..ClaimRounds, cand: Nat, moment: Nat]

\* Rows of a retry still to move: a selected failed row with its id.
Pick == [id: Nat, row: FailedRow]

\* f without x, f with x mapped to v.
Drop(f, x) == [y \in DOMAIN f \ {x} |-> f[y]]
Put(f, x, v) == [y \in DOMAIN f \cup {x} |-> IF y = x THEN v ELSE f[y]]

-----------------------------------------------------------------------------
(* Push *)

\* push() outside a transaction and without `unique`.
Push ==
  /\ nextId <= MaxIds
  /\ \E p \in Payloads \ pushed, q \in QueueNames, prio \in Priorities, delay \in Delays,
        max \in Budgets :
       /\ jobs' = Put(jobs, nextId,
                      [queue |-> q, payload |-> p, prio |-> prio, attempts |-> 0,
                       max |-> AtLeast(1, max), avail |-> now + AtLeast(0, delay),
                       until |-> 0, by |-> NoOne])
       /\ pushed' = pushed \cup {p}
  /\ nextId' = nextId + 1
  /\ UNCHANGED <<now, workerVars, failed, nextFailed, scan, batch, forgotten>>

-----------------------------------------------------------------------------
(* The two guards of driver_pg.py:37-38, on row id *)

\* Mutant: the claim is told by worker id alone.
OwnedByName(id, by, attempts) == id \in DOMAIN jobs /\ jobs[id].by = by

Owned(id, by, attempts) ==
  /\ id \in DOMAIN jobs
  /\ jobs[id].by = by
  /\ jobs[id].attempts = attempts

\* Mutant: one attempt too many.
ExhaustedOneLate(id, moment) ==
  /\ id \in DOMAIN jobs
  /\ jobs[id].attempts > jobs[id].max
  /\ jobs[id].until <= moment

Exhausted(id, moment) ==
  /\ id \in DOMAIN jobs
  /\ jobs[id].attempts >= jobs[id].max
  /\ jobs[id].until <= moment

\* Row locks: the candidates of open reserve transactions.
Locked == {scan[w].cand : w \in Workers} \ {0}

\* Mutants: half of the move.
MoveToNowhere(id, at) ==
  /\ jobs' = Drop(jobs, id)
  /\ UNCHANGED <<failed, nextId, nextFailed>>
CopyToFailed(id, at) ==
  /\ failed' = Put(failed, nextFailed,
                   [queue |-> jobs[id].queue, payload |-> jobs[id].payload,
                    attempts |-> jobs[id].attempts, at |-> at])
  /\ nextFailed' = nextFailed + 1
  /\ UNCHANGED <<jobs, nextId>>

\* _move_to_failed once its guard has matched: DELETE ... RETURNING and INSERT
\* in one transaction.
MoveToFailed(id, at) ==
  /\ failed' = Put(failed, nextFailed,
                   [queue |-> jobs[id].queue, payload |-> jobs[id].payload,
                    attempts |-> jobs[id].attempts, at |-> at])
  /\ nextFailed' = nextFailed + 1
  /\ jobs' = Drop(jobs, id)
  /\ UNCHANGED nextId

-----------------------------------------------------------------------------
(* Reserve *)

\* Mutant: a claim is a flag, not a deadline.
ClaimableIfUnreserved(id, q, moment) ==
  /\ id \in DOMAIN jobs
  /\ jobs[id].queue = Queues[q]
  /\ jobs[id].avail <= moment
  /\ jobs[id].until = 0

\* A row the candidate SELECT of worker w would return, locks apart.
Claimable(id, q, moment) ==
  /\ id \in DOMAIN jobs
  /\ jobs[id].queue = Queues[q]
  /\ jobs[id].avail <= moment
  /\ jobs[id].until <= moment

\* ORDER BY priority DESC, available_at, id
Before(a, b) ==
  \/ jobs[a].prio > jobs[b].prio
  \/ jobs[a].prio = jobs[b].prio /\ jobs[a].avail < jobs[b].avail
  \/ jobs[a].prio = jobs[b].prio /\ jobs[a].avail = jobs[b].avail /\ a <= b

\* Mutant: no FOR UPDATE SKIP LOCKED.
IsCandidateUnlocked(id, w) ==
  LET due == {c \in DOMAIN jobs : Claimable(c, scan[w].q, scan[w].moment)}
  IN id \in due /\ \A other \in due : Before(id, other)

\* _candidate: LIMIT 1 of the claimable rows nobody has locked.
IsCandidate(id, w) ==
  LET due == {c \in DOMAIN jobs \ Locked : Claimable(c, scan[w].q, scan[w].moment)}
  IN id \in due /\ \A other \in due : Before(id, other)

NoCandidate(w) == \A id \in DOMAIN jobs \ Locked : ~Claimable(id, scan[w].q, scan[w].moment)

\* moment = now_utc(), and the round's transaction is still to begin.
BeginRound(w, q, round) ==
  scan' = [scan EXCEPT ![w] = [q |-> q, round |-> round, cand |-> 0, moment |-> NowUtc(w)]]

\* Mutant: the queues after the first are not looked at.
NextQueueNever(w) ==
  /\ scan' = [scan EXCEPT ![w] = NoScan]
  /\ ReserveReturnsNone(w)

\* What reserve() does after _reserve_from returned None.
NextQueue(w) ==
  IF scan[w].q < Len(Queues)
    THEN /\ BeginRound(w, scan[w].q + 1, 1)
         /\ Goto(w, "reserve")
         /\ job' = [job EXCEPT ![w] = NoJob]
         /\ UNCHANGED <<plan, deadline, failures, done, started, signals, faults, finished>>
    ELSE /\ scan' = [scan EXCEPT ![w] = NoScan]
         /\ ReserveReturnsNone(w)

\* `continue`, and the end of range(CLAIM_ROUNDS).
NextRound(w) ==
  IF scan[w].round < ClaimRounds
    THEN /\ BeginRound(w, scan[w].q, scan[w].round + 1)
         /\ Goto(w, "reserve")
         /\ job' = [job EXCEPT ![w] = NoJob]
         /\ UNCHANGED <<plan, deadline, failures, done, started, signals, faults, finished>>
    ELSE NextQueue(w)

Looking(w) == pc[w] = "reserve" /\ scan[w].cand = 0

BeginReserve(w) ==
  /\ CallReserve(w)
  /\ BeginRound(w, 1, 1)
  /\ UNCHANGED <<now, tables, batch, history>>

FindNothing(w) ==
  /\ Looking(w)
  /\ NoCandidate(w)
  /\ NextQueue(w)
  /\ UNCHANGED <<now, tables, batch, history>>

\* A candidate whose attempts are used up goes to failed in the same transaction.
FindExhausted(w) ==
  /\ Looking(w)
  /\ \E id \in DOMAIN jobs :
       /\ IsCandidate(id, w)
       /\ Exhausted(id, scan[w].moment)
       /\ MoveToFailed(id, NowUtc(w))
  /\ NextRound(w)
  /\ UNCHANGED <<now, batch, history>>

FindCandidate(w) ==
  /\ Looking(w)
  /\ \E id \in DOMAIN jobs :
       /\ IsCandidate(id, w)
       /\ ~Exhausted(id, scan[w].moment)
       /\ scan' = [scan EXCEPT ![w].cand = id]
  /\ UNCHANGED <<now, workerVars, tables, batch, history>>

\* Mutant: a claim that does not count.
ClaimRowUncounted(w) ==
  LET id == scan[w].cand
  IN /\ jobs[id].until <= scan[w].moment
     /\ jobs' = [jobs EXCEPT ![id].until = scan[w].moment + ClaimSeconds,
                             ![id].by = WorkerId[w]]

\* The guarded UPDATE of _claim.
ClaimRow(w) ==
  LET id == scan[w].cand
  IN /\ jobs[id].until <= scan[w].moment
     /\ jobs' = [jobs EXCEPT ![id].until = scan[w].moment + ClaimSeconds,
                             ![id].by = WorkerId[w],
                             ![id].attempts = @ + 1]

\* _claim, _read, COMMIT, and _to_job; a payload that does not decode is this
\* worker's to discard.
Claim(w) ==
  LET id == scan[w].cand
      j  == [id |-> id, payload |-> jobs[id].payload, attempts |-> jobs'[id].attempts,
             max |-> jobs[id].max, by |-> WorkerId[w], handle |-> 0]
  IN /\ pc[w] = "reserve" /\ id # 0
     /\ ClaimRow(w)
     /\ IF j.payload \in Undecodable
          THEN /\ job' = [job EXCEPT ![w] = j]
               /\ Goto(w, "discard")
               /\ scan' = [scan EXCEPT ![w].cand = 0]
               /\ UNCHANGED <<plan, deadline, failures, done, started, signals, faults, finished>>
          ELSE /\ ReserveReturns(w, j)
               /\ scan' = [scan EXCEPT ![w] = NoScan]
     /\ UNCHANGED <<now, failed, nextId, nextFailed, batch, history>>

\* Undecodable: straight to failed, if the claim is still ours.
Discard(w) ==
  /\ pc[w] = "discard" /\ job[w].id \notin Locked
  /\ IF Owned(job[w].id, job[w].by, job[w].attempts)
       THEN MoveToFailed(job[w].id, NowUtc(w))
       ELSE UNCHANGED tables
  /\ NextRound(w)
  /\ UNCHANGED <<now, batch, history>>

\* Any statement of reserve() raises and its open transaction rolls back; or the
\* claim was committed and the answer never arrived ("start").
ReserveError(w) ==
  /\ pc[w] \in {"reserve", "discard", "start"}
  /\ ReserveRaises(w)
  /\ scan' = [scan EXCEPT ![w] = NoScan]
  /\ UNCHANGED <<now, tables, batch, history>>

Reserve(w) ==
  \/ BeginReserve(w)
  \/ FindNothing(w)
  \/ FindExhausted(w)
  \/ FindCandidate(w)
  \/ Claim(w)
  \/ Discard(w)

-----------------------------------------------------------------------------
(* delete, release, fail: what plan asks for, where _OWNED matches *)

Apply(w) ==
  LET id == job[w].id
  IN CASE plan[w].op = "delete"  -> jobs' = Drop(jobs, id) /\ UNCHANGED <<failed, nextId, nextFailed>>
       [] plan[w].op = "release" -> /\ jobs' = [jobs EXCEPT ![id].until = 0,
                                                            ![id].by = NoOne,
                                                            ![id].avail = NowUtc(w) + plan[w].delay]
                                    /\ UNCHANGED <<failed, nextId, nextFailed>>
       [] plan[w].op = "fail"    -> MoveToFailed(id, NowUtc(w))

\* The statement waits while the row is locked, then its WHERE decides; a
\* stale claim only logs.
Settle(w) ==
  /\ pc[w] = "settle" /\ job[w].id \notin Locked
  /\ IF Owned(job[w].id, job[w].by, job[w].attempts) THEN Apply(w) ELSE UNCHANGED tables
  /\ Settled(w)
  /\ UNCHANGED <<now, scan, batch, history>>

-----------------------------------------------------------------------------
(* queue retry, queue forget *)

\* SELECT ... ORDER BY id: one row, or all of them.
RetrySelect(a) ==
  /\ batch[a] = {}
  /\ \E ids \in {DOMAIN failed} \cup {{f} : f \in DOMAIN failed} :
       batch' = [batch EXCEPT ![a] = {[id |-> f, row |-> failed[f]] : f \in ids}]
  /\ UNCHANGED <<now, workerVars, tables, scan, history>>

\* One row, one transaction: INSERT the copy, DELETE the original - whether or
\* not it is still there.
RetryMove(a) ==
  /\ nextId <= MaxIds
  /\ \E b \in batch[a] :
       /\ \A other \in batch[a] : b.id <= other.id
       /\ jobs' = Put(jobs, nextId,
                      [queue |-> b.row.queue, payload |-> b.row.payload, prio |-> 0, attempts |-> 0,
                       max |-> AtLeast(1, Tries), avail |-> now, until |-> 0, by |-> NoOne])
       /\ failed' = Drop(failed, b.id)
       /\ batch' = [batch EXCEPT ![a] = @ \ {b}]
  /\ nextId' = nextId + 1
  /\ UNCHANGED <<now, workerVars, nextFailed, scan, history>>

\* An interrupted run: what it had not moved stays failed.
RetryInterrupted(a) ==
  /\ batch[a] # {}
  /\ batch' = [batch EXCEPT ![a] = {}]
  /\ UNCHANGED <<now, workerVars, tables, scan, history>>

\* DELETE by id, by failed_at < before, or all.
ForgetFailed(a) ==
  /\ batch[a] = {} /\ DOMAIN failed # {}
  /\ \E ids \in {DOMAIN failed} \cup {{f} : f \in DOMAIN failed}
                \cup {{f \in DOMAIN failed : failed[f].at < before} : before \in {failed[g].at : g \in DOMAIN failed}} :
       /\ failed' = [f \in DOMAIN failed \ ids |-> failed[f]]
       /\ forgotten' = forgotten \cup {failed[f].payload : f \in ids}
  /\ UNCHANGED <<now, workerVars, jobs, nextId, nextFailed, scan, batch, pushed>>

Admin(a) == RetrySelect(a) \/ RetryMove(a) \/ RetryInterrupted(a) \/ ForgetFailed(a)

-----------------------------------------------------------------------------
(* Time.  A second passes only while some timestamp is still ahead: nobody   *)
(* can tell how long a queue with nothing pending has been idle.            *)

TimerPending ==
  \/ \E id \in DOMAIN jobs : now < jobs[id].avail \/ now < jobs[id].until
  \/ \E w \in Workers : pc[w] = "run" /\ now < deadline[w]
  \/ \E w \in Workers : scan[w].cand # 0 /\ now < scan[w].moment + ClaimSeconds

Tick ==
  /\ now < MaxNow /\ TimerPending
  /\ now' = now + 1
  /\ UNCHANGED <<workerVars, tables, scan, batch, history>>

-----------------------------------------------------------------------------
Init ==
  /\ WorkerInit
  /\ jobs = <<>> /\ failed = <<>>
  /\ nextId = 1 /\ nextFailed = 1
  /\ scan = [w \in Workers |-> NoScan]
  /\ batch = [a \in Admins |-> {}]
  /\ pushed = {} /\ forgotten = {}

\* Steps of the loop that touch no table.
LoopStep(w) ==
  /\ Quit(w) \/ Rest(w) \/ RunJob(w) \/ Restart(w)
  /\ UNCHANGED <<now, tables, scan, batch, history>>

Fault(w) ==
  \/ ReserveError(w)
  \/ /\ Signal(w)
     /\ UNCHANGED <<now, tables, scan, batch, history>>
  \/ /\ Crash(w)
     /\ scan' = [scan EXCEPT ![w] = NoScan]
     /\ UNCHANGED <<now, tables, batch, history>>

Next ==
  \/ Push
  \/ Tick
  \/ \E w \in Workers : Reserve(w) \/ Settle(w) \/ LoopStep(w) \/ Fault(w)
  \/ \E a \in Admins : Admin(a)

Spec == Init /\ [][Next]_vars

\* The loop runs on, asyncio.timeout() ends a handler that does not end itself,
\* the supervisor restarts what ended and the clock advances.  Producers,
\* operators and faults are under no obligation.
WorkerStep(w) == Reserve(w) \/ Settle(w) \/ LoopStep(w)
FairSpec == Spec /\ WF_vars(Tick) /\ \A w \in Workers : WF_vars(WorkerStep(w))

-----------------------------------------------------------------------------
(* Properties *)

TypeOK ==
  /\ WorkerTypeOK
  /\ nextId \in Nat \ {0} /\ nextFailed \in Nat \ {0}
  /\ jobs \in [DOMAIN jobs -> Row] /\ DOMAIN jobs \subseteq 1..(nextId - 1)
  /\ failed \in [DOMAIN failed -> FailedRow] /\ DOMAIN failed \subseteq 1..(nextFailed - 1)
  /\ scan \in [Workers -> Scan]
  /\ batch \in [Admins -> SUBSET Pick]
  /\ pushed \subseteq Payloads /\ forgotten \subseteq Payloads

\* Worker w believes it holds row id, and the row agrees: (reserved_by, attempts)
\* is the claim it was given.
HasToken(w, id) ==
  /\ pc[w] \in Holding
  /\ job[w].id = id
  /\ id \in DOMAIN jobs
  /\ jobs[id].by = job[w].by
  /\ jobs[id].attempts = job[w].attempts

\* "Each claim increments attempts, so the pair names one claim rather than one
\* worker" (driver_pg.py:36): at most one process can end a job, even when
\* worker ids are shared, clocks differ and workers are killed and restarted.
OneHolder ==
  \A v, w \in Workers : \A id \in DOMAIN jobs : HasToken(v, id) /\ HasToken(w, id) => v = w

\* A row leaves the table, or is put back, only at the hand of the process that
\* holds it, or because its attempts are used up and its claim has run out: the
\* late delete/release/fail of a worker that was taken over changes nothing
\* (driver_pg.py:334-361).
SettledByHolder ==
  [][\A id \in DOMAIN jobs :
       id \notin DOMAIN jobs' \/ (jobs[id].by # NoOne /\ jobs'[id].by = NoOne) =>
         \/ \E w \in Workers : HasToken(w, id) /\ pc[w] \in {"settle", "discard"} /\ pc'[w] # pc[w]
         \/ /\ jobs[id].attempts >= jobs[id].max
            /\ \E w \in Workers : jobs[id].until <= NowUtc(w)]_vars

\* A worker that stays alive keeps its claim until reserved_until, by the clock
\* of whoever takes it over: "The claim lasts `timeout` seconds"
\* (interface.py:33).
ClaimKept ==
  [][\A w \in Workers : \A id \in DOMAIN jobs :
       HasToken(w, id) /\ ~HasToken(w, id)' =>
         \/ pc'[w] # pc[w]
         \/ \E v \in Workers : jobs[id].until <= NowUtc(v)]_vars

\* Between the candidate SELECT and the guarded UPDATE nothing happens to the
\* row, so the UPDATE always matches and `if not claimed` never runs
\* (driver_pg.py:227-244).
CandidateStable ==
  \A w \in Workers : scan[w].cand # 0 =>
    /\ scan[w].cand \in DOMAIN jobs
    /\ jobs[scan[w].cand].until <= scan[w].moment
    /\ jobs[scan[w].cand].attempts < jobs[scan[w].cand].max
    /\ \A v \in Workers : scan[v].cand = scan[w].cand => v = w

\* Every payload ever pushed is still in a table, or its handler returned, or an
\* operator forgot it - whatever crashes, expires, or is retried twice.
NoJobLost ==
  \A p \in pushed :
    \/ p \in finished \cup forgotten
    \/ \E id \in DOMAIN jobs : jobs[id].payload = p
    \/ \E f \in DOMAIN failed : failed[f].payload = p

\* A row is never claimed more often than max_attempts, so a handler that kills
\* its worker every time is not handed out forever (driver_pg.py:233-238).
AttemptBudget ==
  /\ \A id \in DOMAIN jobs : jobs[id].attempts <= jobs[id].max
  /\ \A w \in Workers : pc[w] \in Holding => job[w].attempts \in 1..job[w].max

\* "a job cannot be in both tables or neither" (driver_pg.py:371), and a retry
\* moves a job rather than copying it: one row per payload.
OneCopy ==
  \A p \in Payloads :
    Cardinality({id \in DOMAIN jobs : jobs[id].payload = p})
      + Cardinality({f \in DOMAIN failed : failed[f].payload = p}) <= 1

\* What makes the above inductive.  A claim a worker remembers is never ahead of
\* its row, which still carries the payload it was given; no two workers
\* remember the same claim; a reserve transaction measures expiry by a moment
\* that has passed; a row a retry has selected is what it was; and what is
\* about to be deleted has been run.
TokensBounded ==
  \A w \in Workers : pc[w] \in Holding =>
    /\ job[w].id \in 1..(nextId - 1)
    /\ job[w].id \in DOMAIN jobs => /\ job[w].attempts <= jobs[job[w].id].attempts
                                    /\ job[w].payload = jobs[job[w].id].payload
TokensUnique ==
  \A v, w \in Workers :
    pc[v] \in Holding /\ pc[w] \in Holding /\ job[v].id = job[w].id /\ job[v].attempts = job[w].attempts => v = w
MomentPast ==
  \A w \in Workers :
    /\ scan[w].cand # 0 => pc[w] = "reserve"
    /\ scan[w].moment <= NowUtc(w)
SelectedRows ==
  \A a \in Admins : \A b \in batch[a] :
    b.id < nextFailed /\ (b.id \in DOMAIN failed => failed[b.id].payload = b.row.payload)
DeletesWhatRan ==
  \A w \in Workers : pc[w] = "settle" /\ plan[w].op = "delete" => job[w].payload \in finished

ClaimInv == TokensBounded /\ TokensUnique /\ CandidateStable /\ AttemptBudget /\ MomentPast
LossInv == SelectedRows /\ DeletesWhatRan /\ NoJobLost

\* Every job ends: its handler returns, or it lands in the failed table, or an
\* operator forgets it.
JobEnds(p) ==
  p \in finished \cup forgotten \/ \E f \in DOMAIN failed : failed[f].payload = p

EventuallyEnds == \A p \in Payloads : p \in pushed ~> JobEnds(p)

\* SIGTERM and SIGINT end the loop after the job in hand, wherever they find it
\* (worker.py:66-69, 91): an idle, resting, reserving or running worker that was
\* asked to stop is gone sooner or later.
StopsWhenAsked == \A w \in Workers : signals[w] > 0 ~> pc[w] \in Ended

-----------------------------------------------------------------------------
(* What the comments say, and the code does not do *)

\* "The visibility timeout stays as the backstop for a worker that dies outright
\* rather than merely overrunning" (worker.py:8-9): while every worker is alive,
\* a handler still inside its own asyncio.timeout() runs its job alone.
RunsAlone ==
  \A v, w \in Workers :
    pc[v] = "run" /\ pc[w] = "run" /\ job[v].id = job[w].id /\ now < deadline[v] /\ now < deadline[w] => v = w

=============================================================================
