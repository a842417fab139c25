------------------------------ MODULE QueueWorker ------------------------------
(***************************************************************************)
(* The queue worker process: queue/worker.py, the Job a handler sees       *)
(* (queue/job.py) and the signal handlers of queue/_service.py.            *)
(*                                                                         *)
(* The module holds the state one worker process keeps for itself and the  *)
(* steps of its loop.  What reserve, delete, release and fail do to the    *)
(* stored jobs belongs to a driver: PgQueue and RedisQueue EXTEND this     *)
(* module and conjoin their own step with the operators below that only    *)
(* say what the worker does with the driver's answer (ReserveReturns,      *)
(* ReserveReturnsNone, ReserveRaises, Settled).                            *)
(***************************************************************************)
EXTENDS Integers, Sequences, FiniteSets

CONSTANTS
  Workers,                 \* worker processes
  WorkerId,                \* reserved_by of each: "host:pid" cut to 64 characters,
                           \* so two processes may well share one
  Skew,                    \* seconds each worker's clock runs ahead
  Payloads,                \* jobs are told apart by their payload
  Undecodable,             \* payloads json.loads refuses or that are not an object
  NoOne,                   \* SQL NULL / '' in reserved_by
  Timeout,                 \* --timeout: visibility and per-job timeout
  BackoffSteps,            \* config queue.backoff as a list
  ReleaseDelays,           \* delays handlers pass to job.release
  MaxJobs,                 \* --max-jobs, 0 for no limit
  MaxTime,                 \* --max-time, 0 for no limit
  StopWhenEmpty,           \* --stop-when-empty
  MaxConsecutiveFailures,  \* MAX_CONSECUTIVE_FAILURES
  MaxFaults                \* bound: crashes, cancellations, signals and
                           \* unreadable-queue errors in one behaviour

ASSUME WorkerAssumption ==
  /\ Skew \in [Workers -> Nat]
  /\ NoOne \notin {WorkerId[w] : w \in Workers}
  /\ Timeout \in Nat
  /\ BackoffSteps \in Seq(Int)
  /\ ReleaseDelays \subseteq Int
  /\ MaxJobs \in Nat
  /\ MaxTime \in Nat
  /\ StopWhenEmpty \in BOOLEAN
  /\ MaxConsecutiveFailures \in Nat \ {0}
  /\ MaxFaults \in Nat

VARIABLES
  now,        \* the true time, in seconds
  pc,         \* where each worker is
  job,        \* the Job its last reserve returned
  plan,       \* how it is about to end that job
  deadline,   \* when asyncio.timeout() cancels its handler
  failures,   \* consecutive reserve failures
  done,       \* jobs run, counted up to MaxJobs: only done >= max_jobs is asked
  started,    \* when run() began (kept at 0 without a --max-time)
  signals,    \* SIGTERM/SIGINT received; should_quit is signals > 0
  faults,     \* faults so far, against MaxFaults
  finished    \* history: payloads whose handler returned without releasing

workerVars == <<pc, job, plan, deadline, failures, done, started, signals, faults, finished>>

-----------------------------------------------------------------------------
(* Values *)

AtLeast(low, n) == IF n < low THEN low ELSE n
AtMost(high, n) == IF n > high THEN high ELSE n

\* now_utc() as worker w reads it.
NowUtc(w) == now + Skew[w]

\* The length of a claim: max(1, timeout).
ClaimSeconds == AtLeast(1, Timeout)

Job == [id: Nat, payload: Payloads, attempts: Nat, max: Nat, by: {WorkerId[w] : w \in Workers},
        handle: Nat]
Plan == [op: {"delete", "release", "fail"}, delay: Nat, then: {"loop", "die"}]

NoJob == [id |-> 0, handle |-> 0]
IdlePlan == [op |-> "delete", delay |-> 0, then |-> "loop"]

\* Where a worker still believes it has a claim.
Holding == {"start", "run", "settle", "discard"}
Ended == {"exit0", "exit1", "dead"}
Places == {"top", "reserve", "rest"} \cup Holding \cup Ended

WorkerTypeOK ==
  /\ now \in Nat
  /\ pc \in [Workers -> Places]
  /\ job \in [Workers -> Job \cup {NoJob}]
  /\ \A w \in Workers : pc[w] \in Holding => job[w] \in Job
  /\ plan \in [Workers -> Plan]
  /\ deadline \in [Workers -> Nat]
  /\ failures \in [Workers -> 0..MaxConsecutiveFailures]
  /\ done \in [Workers -> 0..MaxJobs]
  /\ started \in [Workers -> Nat]
  /\ signals \in [Workers -> Nat]
  /\ faults \in 0..MaxFaults
  /\ finished \subseteq Payloads

\* A worker has given up exactly when it has seen MAX_CONSECUTIVE_FAILURES.
GivesUp == \A w \in Workers : pc[w] # "exit1" => failures[w] < MaxConsecutiveFailures

WorkerInit ==
  /\ now = 0
  /\ pc = [w \in Workers |-> "top"]
  /\ job = [w \in Workers |-> NoJob]
  /\ plan = [w \in Workers |-> IdlePlan]
  /\ deadline = [w \in Workers |-> 0]
  /\ failures = [w \in Workers |-> 0]
  /\ done = [w \in Workers |-> 0]
  /\ started = [w \in Workers |-> 0]
  /\ signals = [w \in Workers |-> 0]
  /\ faults = 0
  /\ finished = {}

-----------------------------------------------------------------------------
(* The pure parts: backoff, is_last_attempt, job.release *)

Backoff(attempt) ==
  IF BackoffSteps = <<>> THEN 0
  ELSE AtLeast(0, BackoffSteps[AtMost(Len(BackoffSteps) - 1, AtLeast(0, attempt - 1)) + 1])

IsLastAttempt(j) == j.attempts >= j.max

\* _limit_reached after n jobs.
LimitReached(w, n) ==
  \/ MaxJobs > 0 /\ n >= MaxJobs
  \/ MaxTime > 0 /\ now - started[w] >= MaxTime

-----------------------------------------------------------------------------
(* The loop.  Each operator below primes workerVars only. *)

Goto(w, place) == pc' = [pc EXCEPT ![w] = place]

\* worker.py:91: should_quit is only looked at here.
Quit(w) ==
  /\ pc[w] = "top" /\ signals[w] > 0
  /\ Goto(w, "exit0")
  /\ UNCHANGED <<job, plan, deadline, failures, done, started, signals, faults, finished>>

\* Mutant: a loop that does not look at should_quit.
CallReserveUnasked(w) ==
  /\ pc[w] = "top"
  /\ Goto(w, "reserve")
  /\ UNCHANGED <<job, plan, deadline, failures, done, started, signals, faults, finished>>

CallReserve(w) ==
  /\ pc[w] = "top" /\ signals[w] = 0
  /\ Goto(w, "reserve")
  /\ UNCHANGED <<job, plan, deadline, failures, done, started, signals, faults, finished>>

\* The claim is committed and its answer on the way; `failures = 0` is part of
\* the next step, which sees it arrive.
ReserveReturns(w, j) ==
  /\ job' = [job EXCEPT ![w] = j]
  /\ Goto(w, "start")
  /\ UNCHANGED <<plan, deadline, failures, done, started, signals, faults, finished>>

ReserveReturnsNone(w) ==
  /\ failures' = [failures EXCEPT ![w] = 0]
  /\ job' = [job EXCEPT ![w] = NoJob]
  /\ Goto(w, IF StopWhenEmpty \/ LimitReached(w, done[w]) THEN "exit0" ELSE "rest")
  /\ UNCHANGED <<plan, deadline, done, started, signals, faults, finished>>

\* Mutant: gives up one failure too late.
ReserveRaisesOnceMore(w) ==
  /\ faults < MaxFaults
  /\ faults' = faults + 1
  /\ failures' = [failures EXCEPT ![w] = @ + 1]
  /\ job' = [job EXCEPT ![w] = NoJob]
  /\ Goto(w, IF failures[w] >= MaxConsecutiveFailures THEN "exit1" ELSE "rest")
  /\ UNCHANGED <<plan, deadline, done, started, signals, finished>>

ReserveRaises(w) ==
  /\ faults < MaxFaults
  /\ faults' = faults + 1
  /\ failures' = [failures EXCEPT ![w] = @ + 1]
  /\ job' = [job EXCEPT ![w] = NoJob]
  /\ Goto(w, IF failures[w] + 1 >= MaxConsecutiveFailures THEN "exit1" ELSE "rest")
  /\ UNCHANGED <<plan, deadline, done, started, signals, finished>>

\* _rest, cut short by a shutdown request or not.
Rest(w) ==
  /\ pc[w] = "rest"
  /\ Goto(w, "top")
  /\ UNCHANGED <<job, plan, deadline, failures, done, started, signals, faults, finished>>

-----------------------------------------------------------------------------
(* _run_job *)

EndWith(w, op, delay, then) ==
  /\ plan' = [plan EXCEPT ![w] = [op |-> op, delay |-> AtLeast(0, delay), then |-> then]]
  /\ Goto(w, "settle")

\* _job_failed
JobFailed(w) ==
  IF IsLastAttempt(job[w]) THEN EndWith(w, "fail", 0, "loop")
  ELSE EndWith(w, "release", Backoff(job[w].attempts), "loop")

\* resolve() found a handler and asyncio.timeout() was entered.
StartHandler(w) ==
  /\ pc[w] = "start"
  /\ deadline' = [deadline EXCEPT ![w] = now + Timeout]
  /\ failures' = [failures EXCEPT ![w] = 0]
  /\ Goto(w, "run")
  /\ UNCHANGED <<job, plan, done, started, signals, faults, finished>>

\* resolve() raised: a failure like any other.
ResolveFails(w) ==
  /\ pc[w] = "start"
  /\ JobFailed(w)
  /\ failures' = [failures EXCEPT ![w] = 0]
  /\ UNCHANGED <<job, deadline, done, started, signals, faults, finished>>

HandlerReturns(w) ==
  /\ pc[w] = "run"
  /\ EndWith(w, "delete", 0, "loop")
  /\ finished' = finished \cup {job[w].payload}
  /\ UNCHANGED <<job, deadline, failures, done, started, signals, faults>>

HandlerReleases(w) ==
  /\ pc[w] = "run"
  /\ \E delay \in ReleaseDelays : EndWith(w, "release", delay, "loop")
  /\ UNCHANGED <<job, deadline, failures, done, started, signals, faults, finished>>

HandlerRaises(w) ==
  /\ pc[w] = "run"
  /\ JobFailed(w)
  /\ UNCHANGED <<job, deadline, failures, done, started, signals, faults, finished>>

\* asyncio.timeout() fires; TimeoutError is an Exception.
HandlerTimesOut(w) ==
  /\ pc[w] = "run" /\ now >= deadline[w]
  /\ JobFailed(w)
  /\ UNCHANGED <<job, deadline, failures, done, started, signals, faults, finished>>

\* CancelledError from outside: _safe_release(job, 0) and let it propagate.
HandlerCancelled(w) ==
  /\ pc[w] = "run" /\ faults < MaxFaults
  /\ faults' = faults + 1
  /\ EndWith(w, "release", 0, "die")
  /\ UNCHANGED <<job, deadline, failures, done, started, signals, finished>>

RunJob(w) ==
  \/ StartHandler(w)
  \/ ResolveFails(w)
  \/ HandlerReturns(w)
  \/ HandlerReleases(w)
  \/ HandlerRaises(w)
  \/ HandlerTimesOut(w)
  \/ HandlerCancelled(w)

\* The driver call that plan asked for has returned.
Settled(w) ==
  LET n == AtMost(MaxJobs, done[w] + 1)
  IN /\ job' = [job EXCEPT ![w] = NoJob]
     /\ plan' = [plan EXCEPT ![w] = IdlePlan]
     /\ deadline' = [deadline EXCEPT ![w] = 0]
     /\ IF plan[w].then = "die"
          THEN Goto(w, "dead") /\ UNCHANGED done
          ELSE /\ done' = [done EXCEPT ![w] = n]
               /\ Goto(w, IF LimitReached(w, n) THEN "exit0" ELSE "top")
     /\ UNCHANGED <<failures, started, signals, faults, finished>>

-----------------------------------------------------------------------------
(* Signals, death and the supervisor that starts workers again *)

\* The handler installed for SIGTERM and SIGINT is worker.stop, every time.
Signal(w) ==
  /\ pc[w] \notin Ended /\ faults < MaxFaults
  /\ faults' = faults + 1
  /\ signals' = [signals EXCEPT ![w] = @ + 1]
  /\ UNCHANGED <<pc, job, plan, deadline, failures, done, started, finished>>

\* The process is killed, or a driver call in _run_job raises out of run().
Crash(w) ==
  /\ pc[w] \notin Ended /\ faults < MaxFaults
  /\ faults' = faults + 1
  /\ Goto(w, "dead")
  /\ job' = [job EXCEPT ![w] = NoJob]
  /\ plan' = [plan EXCEPT ![w] = IdlePlan]
  /\ deadline' = [deadline EXCEPT ![w] = 0]
  /\ UNCHANGED <<failures, done, started, signals, finished>>

\* A supervisor (external) runs `queue work` again; the new process may get the
\* same host:pid.
Restart(w) ==
  /\ pc[w] \in Ended
  /\ Goto(w, "top")
  /\ failures' = [failures EXCEPT ![w] = 0]
  /\ done' = [done EXCEPT ![w] = 0]
  /\ started' = [started EXCEPT ![w] = IF MaxTime > 0 THEN now ELSE 0]
  /\ signals' = [signals EXCEPT ![w] = 0]
  /\ UNCHANGED <<job, plan, deadline, faults, finished>>

=============================================================================
