-------------------------- MODULE QueueWorkerProofs --------------------------
(***************************************************************************)
(* The worker's steps keep its state well typed, whatever the driver they  *)
(* are conjoined with does.                                                *)
(***************************************************************************)
EXTENDS QueueWorker, TLAPS

WorkerInv == WorkerTypeOK /\ GivesUp

LEMMA AtLeastType == ASSUME NEW n \in Int PROVE AtLeast(0, n) \in Nat /\ AtLeast(1, n) \in Nat \ {0}
BY DEF AtLeast

\* backoff() yields a delay, whatever the attempt.
LEMMA BackoffType == ASSUME NEW n \in Nat PROVE Backoff(n) \in Nat
<1> DEFINE i == AtMost(Len(BackoffSteps) - 1, AtLeast(0, n - 1)) + 1
<1>1. CASE BackoffSteps = <<>>
  BY <1>1 DEF Backoff
<1>2. CASE BackoffSteps # <<>>
  <2>1. BackoffSteps \in Seq(Int)
    BY WorkerAssumption DEF WorkerAssumption
  <2>2. Len(BackoffSteps) \in Nat \ {0}
    BY <1>2, <2>1
  <2>3. i \in 1..Len(BackoffSteps)
    BY <2>2 DEF AtMost, AtLeast
  <2>4. BackoffSteps[i] \in Int
    BY <2>1, <2>3
  <2> QED
    BY <1>2, <2>4, AtLeastType DEF Backoff
<1> QED
  BY <1>1, <1>2

LEMMA WorkerInitInv == WorkerInit => WorkerInv
BY WorkerAssumption DEF WorkerAssumption, WorkerInit, WorkerInv, WorkerTypeOK, GivesUp, Places, Holding, Ended,
                        Plan, IdlePlan

\* Steps that only move the worker.
LEMMA MoveInv ==
  ASSUME WorkerInv, NEW w \in Workers, now' = now, Quit(w) \/ CallReserve(w) \/ Rest(w)
  PROVE  WorkerInv'
BY WorkerAssumption DEF WorkerAssumption, WorkerInv, WorkerTypeOK, GivesUp, Quit, CallReserve, Rest, Goto,
                        Places, Holding, Ended

\* The answers of reserve(): a job, none, an error, or another round.
LEMMA ReserveReturnsInv ==
  ASSUME WorkerInv, NEW w \in Workers, pc[w] = "reserve", NEW j \in Job, now' = now, ReserveReturns(w, j)
  PROVE  WorkerInv'
BY DEF WorkerInv, WorkerTypeOK, GivesUp, ReserveReturns, Goto, Places, Holding, Ended

LEMMA ReserveReturnsNoneInv ==
  ASSUME WorkerInv, NEW w \in Workers, now' = now, ReserveReturnsNone(w)
  PROVE  WorkerInv'
BY WorkerAssumption DEF WorkerAssumption, WorkerInv, WorkerTypeOK, GivesUp, ReserveReturnsNone, Goto,
                        Places, Holding, Ended

\* One more fault is within the bound.
LEMMA FaultTyped == ASSUME WorkerInv, faults < MaxFaults, faults' = faults + 1 PROVE faults' \in 0..MaxFaults
<1>1. faults \in 0..MaxFaults /\ MaxFaults \in Nat
  BY WorkerAssumption DEF WorkerAssumption, WorkerInv, WorkerTypeOK
<1> QED
  BY <1>1

\* A worker goes where it has no job in hand.
LEMMA LetGoInv ==
  ASSUME WorkerInv, NEW w \in Workers, now' = now,
         NEW place \in Places \ Holding, pc' = [pc EXCEPT ![w] = place],
         job' = job \/ job' = [job EXCEPT ![w] = NoJob],
         plan' \in [Workers -> Plan], deadline' \in [Workers -> Nat], done' \in [Workers -> 0..MaxJobs],
         started' \in [Workers -> Nat], signals' \in [Workers -> Nat], faults' \in 0..MaxFaults,
         finished' = finished,
         NEW n \in 0..MaxConsecutiveFailures, failures' = [failures EXCEPT ![w] = n],
         place # "exit1" => n < MaxConsecutiveFailures
  PROVE  WorkerInv'
<1>1. pc \in [Workers -> Places] /\ failures \in [Workers -> 0..MaxConsecutiveFailures]
  BY DEF WorkerInv, WorkerTypeOK
<1>2. pc' \in [Workers -> Places] /\ failures' \in [Workers -> 0..MaxConsecutiveFailures]
  BY <1>1
<1>3. job' \in [Workers -> Job \cup {NoJob}] /\ \A v \in Workers \ {w} : job'[v] = job[v]
  BY DEF WorkerInv, WorkerTypeOK
<1>4. \A v \in Workers : pc'[v] \in Holding => job'[v] \in Job
  BY <1>1, <1>3 DEF WorkerInv, WorkerTypeOK
<1>5. GivesUp'
  BY <1>1 DEF GivesUp, WorkerInv
<1> QED
  BY <1>2, <1>3, <1>4, <1>5 DEF WorkerInv, WorkerTypeOK

LEMMA ReserveRaisesInv ==
  ASSUME WorkerInv, NEW w \in Workers, pc[w] # "exit1", now' = now, ReserveRaises(w)
  PROVE  WorkerInv'
<1>1. PICK n : n = failures[w] + 1
  OBVIOUS
<1>2. PICK place : place = IF n >= MaxConsecutiveFailures THEN "exit1" ELSE "rest"
  OBVIOUS
<1>3. MaxConsecutiveFailures \in Nat /\ failures[w] \in 0..MaxConsecutiveFailures
      /\ failures[w] < MaxConsecutiveFailures
  BY WorkerAssumption DEF WorkerAssumption, WorkerInv, WorkerTypeOK, GivesUp
<1>4. n \in 0..MaxConsecutiveFailures /\ (place # "exit1" => n < MaxConsecutiveFailures)
  BY <1>1, <1>2, <1>3
<1>5. place \in Places \ Holding
  BY <1>2 DEF Places, Holding, Ended
<1>6. pc' = [pc EXCEPT ![w] = place] /\ failures' = [failures EXCEPT ![w] = n]
  BY <1>1, <1>2 DEF ReserveRaises, Goto
<1>7. faults' \in 0..MaxFaults
  BY FaultTyped DEF ReserveRaises
<1>8. /\ plan' \in [Workers -> Plan] /\ deadline' \in [Workers -> Nat] /\ done' \in [Workers -> 0..MaxJobs]
      /\ started' \in [Workers -> Nat] /\ signals' \in [Workers -> Nat] /\ finished' = finished
      /\ job' = [job EXCEPT ![w] = NoJob]
  BY DEF ReserveRaises, WorkerInv, WorkerTypeOK
<1> QED
  BY <1>4, <1>5, <1>6, <1>7, <1>8, LetGoInv

\* The worker keeps looking, with nothing in hand or with a job to discard.
LEMMA KeepLookingInv ==
  ASSUME WorkerInv, NEW w \in Workers, pc[w] # "exit1", now' = now,
         \/ job' = [job EXCEPT ![w] = NoJob] /\ Goto(w, "reserve")
         \/ \E j \in Job : job' = [job EXCEPT ![w] = j] /\ Goto(w, "discard"),
         UNCHANGED <<plan, deadline, failures, done, started, signals, faults, finished>>
  PROVE  WorkerInv'
BY DEF WorkerInv, WorkerTypeOK, GivesUp, Goto, Places, Holding, Ended

LEMMA EndWithType ==
  ASSUME WorkerInv, NEW w \in Workers, NEW op \in {"delete", "release", "fail"}, NEW delay \in Int,
         NEW then \in {"loop", "die"}, EndWith(w, op, delay, then)
  PROVE  plan' \in [Workers -> Plan] /\ pc' = [pc EXCEPT ![w] = "settle"]
BY AtLeastType DEF EndWith, WorkerInv, WorkerTypeOK, Plan, Goto

LEMMA JobFailedType ==
  ASSUME WorkerInv, NEW w \in Workers, pc[w] \in {"start", "run"}, JobFailed(w)
  PROVE  plan' \in [Workers -> Plan] /\ pc' = [pc EXCEPT ![w] = "settle"]
<1>1. job[w].attempts \in Nat
  BY DEF WorkerInv, WorkerTypeOK, Holding, Job
<1>2. Backoff(job[w].attempts) \in Int
  BY <1>1, BackoffType
<1> QED
  BY <1>2, EndWithType DEF JobFailed

\* A worker that goes on to a job, its failures kept or cleared, has not given up.
LEMMA KeepsTrying ==
  ASSUME WorkerTypeOK, GivesUp, NEW w \in Workers, pc[w] \in {"start", "run"},
         NEW place \in {"run", "settle"}, pc' = [pc EXCEPT ![w] = place],
         failures' = failures \/ failures' = [failures EXCEPT ![w] = 0]
  PROVE  GivesUp'
<1>1. 0 < MaxConsecutiveFailures
  BY WorkerAssumption DEF WorkerAssumption
<1>2. pc \in [Workers -> Places] /\ failures \in [Workers -> 0..MaxConsecutiveFailures]
  BY DEF WorkerTypeOK
<1>3. ASSUME NEW v \in Workers, pc'[v] # "exit1"
      PROVE  failures'[v] < MaxConsecutiveFailures
  <2>1. pc[v] # "exit1"
    BY <1>2, <1>3
  <2>2. failures[v] < MaxConsecutiveFailures
    BY <2>1 DEF GivesUp
  <2>3. failures'[v] = failures[v] \/ failures'[v] = 0
    BY <1>2
  <2> QED
    BY <1>1, <2>2, <2>3
<1> QED
  BY <1>3 DEF GivesUp

\* Settling: the plan is made, nothing else that is typed moves.
LEMMA SettleSoonInv ==
  ASSUME WorkerInv, NEW w \in Workers, pc[w] \in {"start", "run"}, now' = now,
         plan' \in [Workers -> Plan], pc' = [pc EXCEPT ![w] = "settle"],
         failures' = failures \/ failures' = [failures EXCEPT ![w] = 0],
         faults' \in 0..MaxFaults, finished' \subseteq Payloads,
         UNCHANGED <<job, deadline, done, started, signals>>
  PROVE  WorkerInv'
<1>1. failures' \in [Workers -> 0..MaxConsecutiveFailures]
  <2>1. failures \in [Workers -> 0..MaxConsecutiveFailures]
    BY DEF WorkerInv, WorkerTypeOK
  <2>2. 0 \in 0..MaxConsecutiveFailures
    BY WorkerAssumption DEF WorkerAssumption
  <2> QED
    BY <2>1, <2>2
<1>2. GivesUp'
  BY KeepsTrying DEF WorkerInv
<1>3. pc' \in [Workers -> Places] /\ \A v \in Workers : pc'[v] \in Holding => pc[v] \in Holding
  BY DEF WorkerInv, WorkerTypeOK, Places, Holding
<1> QED
  BY <1>1, <1>2, <1>3 DEF WorkerInv, WorkerTypeOK

LEMMA RunJobInv ==
  ASSUME WorkerInv, NEW w \in Workers, now' = now, RunJob(w)
  PROVE  WorkerInv'
<1>1. CASE StartHandler(w)
  <2>1. pc' = [pc EXCEPT ![w] = "run"] /\ failures' = [failures EXCEPT ![w] = 0] /\ pc[w] = "start"
    BY <1>1 DEF StartHandler, Goto
  <2>2. GivesUp'
    BY <2>1, KeepsTrying DEF WorkerInv
  <2>3. failures' \in [Workers -> 0..MaxConsecutiveFailures]
    <3>1. 0 \in 0..MaxConsecutiveFailures
      BY WorkerAssumption DEF WorkerAssumption
    <3> QED
      BY <2>1, <3>1 DEF WorkerInv, WorkerTypeOK
  <2>4. deadline' \in [Workers -> Nat]
    <3>1. now + Timeout \in Nat
      BY WorkerAssumption DEF WorkerAssumption, WorkerInv, WorkerTypeOK
    <3> QED
      BY <1>1, <3>1 DEF StartHandler, WorkerInv, WorkerTypeOK
  <2>5. pc' \in [Workers -> Places] /\ \A v \in Workers : pc'[v] \in Holding => pc[v] \in Holding
    BY <2>1 DEF WorkerInv, WorkerTypeOK, Places, Holding
  <2> QED
    BY <1>1, <2>2, <2>3, <2>4, <2>5 DEF StartHandler, WorkerInv, WorkerTypeOK
<1>2. CASE ResolveFails(w)
  BY <1>2, JobFailedType, SettleSoonInv DEF ResolveFails, WorkerInv, WorkerTypeOK
<1>3. CASE HandlerReturns(w)
  <2>1. finished' \subseteq Payloads
    BY <1>3 DEF HandlerReturns, WorkerInv, WorkerTypeOK, Holding, Job
  <2> QED
    BY <1>3, <2>1, EndWithType, SettleSoonInv DEF HandlerReturns, WorkerInv, WorkerTypeOK
<1>4. CASE HandlerReleases(w)
  BY <1>4, EndWithType, SettleSoonInv, WorkerAssumption
  DEF HandlerReleases, WorkerAssumption, WorkerInv, WorkerTypeOK
<1>5. CASE HandlerRaises(w) \/ HandlerTimesOut(w)
  BY <1>5, JobFailedType, SettleSoonInv DEF HandlerRaises, HandlerTimesOut, WorkerInv, WorkerTypeOK
<1>6. CASE HandlerCancelled(w)
  <2>1. faults' \in 0..MaxFaults
    BY <1>6, FaultTyped DEF HandlerCancelled
  <2> QED
    BY <1>6, <2>1, EndWithType, SettleSoonInv DEF HandlerCancelled, WorkerInv, WorkerTypeOK
<1> QED
  BY <1>1, <1>2, <1>3, <1>4, <1>5, <1>6 DEF RunJob

LEMMA SettledInv ==
  ASSUME WorkerInv, NEW w \in Workers, pc[w] = "settle", now' = now, Settled(w)
  PROVE  WorkerInv'
<1>1. AtMost(MaxJobs, done[w] + 1) \in 0..MaxJobs
  BY WorkerAssumption DEF WorkerAssumption, AtMost, WorkerInv, WorkerTypeOK
<1>2. done' \in [Workers -> 0..MaxJobs]
  BY <1>1 DEF Settled, WorkerInv, WorkerTypeOK
<1>3. \E place \in {"dead", "exit0", "top"} : pc' = [pc EXCEPT ![w] = place]
  BY DEF Settled, Goto
<1>4. plan' \in [Workers -> Plan]
  BY DEF Settled, WorkerInv, WorkerTypeOK, IdlePlan, Plan
<1>5. UNCHANGED <<failures, started, signals, faults, finished>>
  BY DEF Settled
<1>6. job' = [job EXCEPT ![w] = NoJob] /\ deadline' = [deadline EXCEPT ![w] = 0]
  BY DEF Settled
<1> QED
  BY <1>2, <1>3, <1>4, <1>5, <1>6 DEF WorkerInv, WorkerTypeOK, GivesUp, Places, Holding, Ended

\* Signals, death and restart.
LEMMA SignalInv ==
  ASSUME WorkerInv, NEW w \in Workers, now' = now, Signal(w)
  PROVE  WorkerInv'
<1>1. faults' \in 0..MaxFaults
  BY FaultTyped DEF Signal
<1>2. signals' \in [Workers -> Nat]
  BY DEF Signal, WorkerInv, WorkerTypeOK
<1> QED
  BY <1>1, <1>2 DEF Signal, WorkerInv, WorkerTypeOK, GivesUp

LEMMA CrashInv ==
  ASSUME WorkerInv, NEW w \in Workers, now' = now, Crash(w)
  PROVE  WorkerInv'
<1>1. PICK n : n = failures[w]
  OBVIOUS
<1>2. n \in 0..MaxConsecutiveFailures /\ n < MaxConsecutiveFailures
  BY <1>1 DEF WorkerInv, WorkerTypeOK, GivesUp, Crash, Ended
<1>3. "dead" \in Places \ Holding
  BY DEF Places, Holding, Ended
<1>4. pc' = [pc EXCEPT ![w] = "dead"] /\ failures' = [failures EXCEPT ![w] = n]
  BY <1>1 DEF Crash, Goto, WorkerInv, WorkerTypeOK
<1>5. faults' \in 0..MaxFaults
  BY FaultTyped DEF Crash
<1>6. IdlePlan \in Plan
  BY DEF IdlePlan, Plan
<1>7. /\ plan' \in [Workers -> Plan] /\ deadline' \in [Workers -> Nat] /\ done' \in [Workers -> 0..MaxJobs]
      /\ started' \in [Workers -> Nat] /\ signals' \in [Workers -> Nat] /\ finished' = finished
      /\ job' = [job EXCEPT ![w] = NoJob]
  BY <1>6 DEF Crash, WorkerInv, WorkerTypeOK
<1> QED
  BY <1>2, <1>3, <1>4, <1>5, <1>7, LetGoInv

LEMMA RestartInv ==
  ASSUME WorkerInv, NEW w \in Workers, now' = now, Restart(w)
  PROVE  WorkerInv'
<1>1. 0 \in 0..MaxConsecutiveFailures /\ 0 < MaxConsecutiveFailures /\ 0 \in 0..MaxJobs
  BY WorkerAssumption DEF WorkerAssumption
<1>2. "top" \in Places \ Holding
  BY DEF Places, Holding, Ended
<1>3. pc' = [pc EXCEPT ![w] = "top"] /\ failures' = [failures EXCEPT ![w] = 0]
  BY DEF Restart, Goto
<1>4. PICK at \in Nat : started' = [started EXCEPT ![w] = at]
  BY DEF Restart, WorkerInv, WorkerTypeOK
<1>5. /\ plan' \in [Workers -> Plan] /\ deadline' \in [Workers -> Nat] /\ done' \in [Workers -> 0..MaxJobs]
      /\ started' \in [Workers -> Nat] /\ signals' \in [Workers -> Nat] /\ finished' = finished
      /\ job' = job /\ faults' \in 0..MaxFaults
  BY <1>1, <1>4 DEF Restart, WorkerInv, WorkerTypeOK
<1> QED
  BY <1>1, <1>2, <1>3, <1>5, LetGoInv

=============================================================================
