--------------------------------- MODULE Cron ---------------------------------
(***************************************************************************)
(* The cron runner (cron/): `cron work` starts one `cron run` process per  *)
(* minute, each `cron run` (a tick) takes the lock of every job that is    *)
(* due, spawns it, waits for it with its timeout and releases the lock.    *)
(* Ticks may also be started by hand or on other hosts.  Steps are what    *)
(* happens between two awaits: the lock's answer, the birth of the child,  *)
(* the return of create_subprocess_exec, the end of wait() or its timeout, *)
(* the grace period, the release.  The kernel delivers signals and exits.  *)
(***************************************************************************)
EXTENDS Naturals, FiniteSets

CONSTANTS
  Ticks,      \* `cron run` processes that may be started
  Jobs,       \* job names
  Due,        \* Due[t]: the jobs that the schedule may select for tick t
  Timed,      \* jobs with a timeout
  Stubborn,   \* jobs that ignore SIGTERM
  NoOne,      \* nobody holds the lock
  MaxFaults   \* deaths, lost connections, lock files that do not open, spawns that fail

ASSUME CronAssumption ==
  /\ Timed \subseteq Jobs /\ Stubborn \subseteq Jobs
  /\ Due \in [Ticks -> SUBSET Jobs]
  /\ NoOne \notin Ticks
  /\ MaxFaults \in Nat

VARIABLES
  work,      \* the `cron work` process
  tick,      \* tick[t]: pc, stopping (Executor._stopping), lost (its locks failed it)
  run,       \* run[t][j]: where _run_one(j) is, or its outcome
  child,     \* child[t][j]: the process t spawned for j
  told,      \* told[t][j]: the strongest signal that process was sent
  lock,      \* lock[j]: the tick whose session or descriptor holds the job's lock
  faults

vars == <<work, tick, run, child, told, lock, faults>>

Outcomes == {"ok", "failed", "timeout", "skipped"}
Phases == {"acquire", "spawn", "born", "wait", "grace", "killed", "release:ok", "release:failed", "release:timeout"}

Init ==
  /\ work = [pc |-> "wait", stop |-> FALSE, ticks |-> {}]
  /\ tick = [t \in Ticks |-> [pc |-> "off", stopping |-> FALSE, lost |-> FALSE]]
  /\ run = [t \in Ticks |-> [j \in Jobs |-> "none"]]
  /\ child = [t \in Ticks |-> [j \in Jobs |-> "none"]]
  /\ told = [t \in Ticks |-> [j \in Jobs |-> "none"]]
  /\ lock = [j \in Jobs |-> NoOne]
  /\ faults = 0

Running(t) == tick[t].pc \in {"boot", "run"}
Fault == faults < MaxFaults /\ faults' = faults + 1
Goto(t, j, p) == run' = [run EXCEPT ![t][j] = p]

-----------------------------------------------------------------------------
(* Executor and its locks *)

\* Mutant: the lock remembers the job and not its holder.
AcquireByName(t, j) ==
  /\ tick[t].pc = "run" /\ run[t][j] = "acquire" /\ ~tick[t].lost
  /\ IF lock[j] = NoOne
     THEN lock' = [lock EXCEPT ![j] = j] /\ Goto(t, j, "spawn")
     ELSE Goto(t, j, "skipped") /\ UNCHANGED lock
  /\ UNCHANGED <<work, tick, child, told, faults>>

\* Lock.acquire: an advisory lock of the tick's session, or a flock.
Acquire(t, j) ==
  /\ tick[t].pc = "run" /\ run[t][j] = "acquire" /\ ~tick[t].lost
  /\ IF lock[j] = NoOne
     THEN lock' = [lock EXCEPT ![j] = t] /\ Goto(t, j, "spawn")
     ELSE Goto(t, j, "skipped") /\ UNCHANGED lock
  /\ UNCHANGED <<work, tick, child, told, faults>>

\* create_subprocess_exec: the child is there ...
SpawnChild(t, j) ==
  /\ tick[t].pc = "run" /\ run[t][j] = "spawn"
  /\ child' = [child EXCEPT ![t][j] = "live"]
  /\ Goto(t, j, "born")
  /\ UNCHANGED <<work, tick, told, lock, faults>>

\* ... before the await returns and _children knows it.
SpawnReturns(t, j) ==
  /\ tick[t].pc = "run" /\ run[t][j] = "born"
  /\ Goto(t, j, "wait")
  /\ UNCHANGED <<work, tick, child, told, lock, faults>>

\* OSError: "could not start".
SpawnFails(t, j) ==
  /\ tick[t].pc = "run" /\ run[t][j] = "spawn"
  /\ Fault
  /\ Goto(t, j, "release:failed")
  /\ UNCHANGED <<work, tick, child, told, lock>>

\* proc.wait() returned in time.
WaitReturns(t, j) ==
  /\ tick[t].pc = "run" /\ run[t][j] = "wait"
  /\ \/ child[t][j] = "exit0" /\ Goto(t, j, "release:ok")
     \/ child[t][j] = "exit1" /\ Goto(t, j, "release:failed")
  /\ UNCHANGED <<work, tick, child, told, lock, faults>>

\* Mutant: SIGTERM without waiting for the end.
TimesOutAtOnce(t, j) ==
  /\ tick[t].pc = "run" /\ run[t][j] = "wait"
  /\ j \in Timed /\ child[t][j] = "live"
  /\ told' = [told EXCEPT ![t][j] = "TERM"]
  /\ Goto(t, j, "release:timeout")
  /\ UNCHANGED <<work, tick, child, lock, faults>>

\* The timeout of the job: _kill sends SIGTERM ...
TimesOut(t, j) ==
  /\ tick[t].pc = "run" /\ run[t][j] = "wait"
  /\ j \in Timed /\ child[t][j] = "live"
  /\ told' = [told EXCEPT ![t][j] = "TERM"]
  /\ Goto(t, j, "grace")
  /\ UNCHANGED <<work, tick, child, lock, faults>>

\* Mutant: asks once more instead of SIGKILL.
GraceAgain(t, j) ==
  /\ tick[t].pc = "run" /\ run[t][j] = "grace"
  /\ child[t][j] = "live"
  /\ told' = [told EXCEPT ![t][j] = "TERM"]
  /\ UNCHANGED <<work, tick, run, child, lock, faults>>

\* ... waits KILL_GRACE, sends SIGKILL ...
GraceOver(t, j) ==
  /\ tick[t].pc = "run" /\ run[t][j] = "grace"
  /\ child[t][j] = "live"
  /\ told' = [told EXCEPT ![t][j] = "KILL"]
  /\ Goto(t, j, "killed")
  /\ UNCHANGED <<work, tick, child, lock, faults>>

\* ... and waits for the end in both cases.
KillReturns(t, j) ==
  /\ tick[t].pc = "run" /\ run[t][j] \in {"grace", "killed"}
  /\ child[t][j] \in {"exit0", "exit1"}
  /\ Goto(t, j, "release:timeout")
  /\ UNCHANGED <<work, tick, child, told, lock, faults>>

OutcomeOf(p) == CASE p = "release:ok" -> "ok" [] p = "release:timeout" -> "timeout" [] OTHER -> "failed"

\* The finally of _run_one.
Release(t, j) ==
  /\ tick[t].pc = "run" /\ run[t][j] \in {"release:ok", "release:failed", "release:timeout"} /\ ~tick[t].lost
  /\ lock' = [lock EXCEPT ![j] = NoOne]
  /\ Goto(t, j, OutcomeOf(run[t][j]))
  /\ UNCHANGED <<work, tick, child, told, faults>>

\* Executor.stop, from the signal handler: flags and terminates the children it knows.
Known(t) == {j \in Jobs : run[t][j] \in {"wait", "grace", "killed"} /\ child[t][j] = "live"}
Stopped(ts) ==
  /\ tick' = [t \in Ticks |-> IF t \notin ts THEN tick[t]
                              ELSE IF tick[t].pc = "boot" THEN [tick[t] EXCEPT !.pc = "dead"]
                              ELSE [tick[t] EXCEPT !.stopping = TRUE]]
  /\ told' = [t \in Ticks |-> [j \in Jobs |->
               IF t \in ts /\ j \in Known(t) /\ told[t][j] = "none" THEN "TERM" ELSE told[t][j]]]

\* The operator's SIGTERM to a tick of his own; those of `cron work` get it from Drain.
SignalTick(t) ==
  /\ Running(t) /\ ~tick[t].stopping /\ t \notin work.ticks
  /\ Stopped({t})
  /\ UNCHANGED <<work, run, child, lock, faults>>

-----------------------------------------------------------------------------
(* cron run *)

\* init_service: configuration, select_due, the lock's connection, the signal handlers.
Boot(t) ==
  /\ tick[t].pc = "boot"
  /\ \E due \in SUBSET Due[t] :
       IF due = {} THEN tick' = [tick EXCEPT ![t].pc = "end0"] /\ UNCHANGED run
       ELSE /\ tick' = [tick EXCEPT ![t].pc = "run"]
            /\ run' = [run EXCEPT ![t] = [j \in Jobs |-> IF j \in due THEN "acquire" ELSE "none"]]
  /\ UNCHANGED <<work, child, told, lock, faults>>

\* A bad configuration or no database: SystemExit(1) or (2) before anything is started.
BootFails(t) ==
  /\ tick[t].pc = "boot"
  /\ Fault
  /\ tick' = [tick EXCEPT ![t].pc = "end1"]
  /\ UNCHANGED <<work, run, child, told, lock>>

\* Mutants: a stopped tick leaves at once; a timeout is no failure.
TickEndsStopped(t) ==
  /\ tick[t].pc = "run"
  /\ tick[t].stopping \/ \A j \in Jobs : run[t][j] \in Outcomes \cup {"none"}
  /\ tick' = [tick EXCEPT ![t].pc = "end1"]
  /\ UNCHANGED <<work, run, child, told, lock, faults>>
TickEndsLenient(t) ==
  /\ tick[t].pc = "run"
  /\ \A j \in Jobs : run[t][j] \in Outcomes \cup {"none"}
  /\ tick' = [tick EXCEPT ![t].stopping = FALSE,
             ![t].pc = IF \E j \in Jobs : run[t][j] = "failed" THEN "end1" ELSE "end0"]
  /\ UNCHANGED <<work, run, child, told, lock, faults>>

\* cmd_run: the exit code, once gather has every outcome.
TickEnds(t) ==
  /\ tick[t].pc = "run"
  /\ \A j \in Jobs : run[t][j] \in Outcomes \cup {"none"}
  /\ tick' = [tick EXCEPT ![t].stopping = FALSE,
             ![t].pc = IF \E j \in Jobs : run[t][j] \in {"failed", "timeout"} THEN "end1" ELSE "end0"]
  /\ UNCHANGED <<work, run, child, told, lock, faults>>

\* The lock's connection is gone: Postgres has released the session's locks ...
ConnectionLost(t) ==
  /\ tick[t].pc = "run" /\ ~tick[t].lost
  /\ Fault
  /\ tick' = [tick EXCEPT ![t].lost = TRUE]
  /\ lock' = [j \in Jobs |-> IF lock[j] = t THEN NoOne ELSE lock[j]]
  /\ UNCHANGED <<work, run, child, told>>

\* ... and the next acquire or release raises: gather raises, init_service exits with 1,
\* and the waits for the other jobs are cancelled with the loop.
TickRaises(t) ==
  /\ tick[t].pc = "run" /\ tick[t].lost
  /\ \E j \in Jobs : run[t][j] \in {"acquire", "release:ok", "release:failed", "release:timeout"}
  /\ tick' = [tick EXCEPT ![t].pc = "end1"]
  /\ UNCHANGED <<work, run, child, told, lock, faults>>

\* file_lock.try_lock raises OSError (the lock file cannot be opened): gather raises as
\* above, each other job's finally closes its descriptor, and no child is waited for.
AcquireRaises(t) ==
  /\ tick[t].pc = "run"
  /\ \E j \in Jobs : run[t][j] = "acquire"
  /\ Fault
  /\ tick' = [tick EXCEPT ![t].pc = "end1", ![t].lost = TRUE]
  /\ lock' = [j \in Jobs |-> IF lock[j] = t THEN NoOne ELSE lock[j]]
  /\ UNCHANGED <<work, run, child, told>>

\* The scheduler dies; the server or the kernel drops its locks, its children stay.
TickDies(t) ==
  /\ Running(t)
  /\ Fault
  /\ tick' = [tick EXCEPT ![t].pc = "dead"]
  /\ lock' = [j \in Jobs |-> IF lock[j] = t THEN NoOne ELSE lock[j]]
  /\ UNCHANGED <<work, run, child, told>>

-----------------------------------------------------------------------------
(* cron work *)

\* A minute begins.
Minute ==
  /\ work.pc = "wait" /\ ~work.stop
  /\ \E t \in Ticks :
       /\ tick[t].pc = "off"
       /\ tick' = [tick EXCEPT ![t].pc = "boot"]
       /\ work' = [work EXCEPT !.ticks = {u \in @ : Running(u)} \cup {t}]
  /\ UNCHANGED <<run, child, told, lock, faults>>

\* A tick that cannot be started ends the loop at once.
MinuteFails ==
  /\ work.pc = "wait" /\ ~work.stop
  /\ Fault
  /\ work' = [work EXCEPT !.pc = "done1"]
  /\ UNCHANGED <<tick, run, child, told, lock>>

\* `cron run`, or `cron run --job`, started by an operator.
RunByHand(t) ==
  /\ tick[t].pc = "off"
  /\ tick' = [tick EXCEPT ![t].pc = "boot"]
  /\ UNCHANGED <<work, run, child, told, lock, faults>>

StopWork ==
  /\ ~work.stop
  /\ work' = [work EXCEPT !.stop = TRUE]
  /\ UNCHANGED <<tick, run, child, told, lock, faults>>

\* The loop ends: every tick that still runs is terminated ...
Drain ==
  /\ work.pc = "wait" /\ work.stop
  /\ Stopped({t \in work.ticks : Running(t)})
  /\ work' = [work EXCEPT !.pc = "drain"]
  /\ UNCHANGED <<run, child, lock, faults>>

\* Mutant: waits for a code that a dead tick never returns.
DrainedByCode ==
  /\ work.pc = "drain"
  /\ \A t \in work.ticks : tick[t].pc \in {"end0", "end1"}
  /\ work' = [work EXCEPT !.pc = "done0"]
  /\ UNCHANGED <<tick, run, child, told, lock, faults>>

\* ... and waited for.
Drained ==
  /\ work.pc = "drain"
  /\ \A t \in work.ticks : ~Running(t)
  /\ work' = [work EXCEPT !.pc = "done0"]
  /\ UNCHANGED <<tick, run, child, told, lock, faults>>

-----------------------------------------------------------------------------
\* The job's process ends by itself, or by a signal that it does not ignore.
ChildEnds(t, j) ==
  /\ child[t][j] = "live"
  /\ \E rc \in {"exit0", "exit1"} : child' = [child EXCEPT ![t][j] = rc]
  /\ told' = [told EXCEPT ![t][j] = "none"]
  /\ UNCHANGED <<work, tick, run, lock, faults>>

ChildObeys(t, j) ==
  /\ child[t][j] = "live"
  /\ told[t][j] = "KILL" \/ (told[t][j] = "TERM" /\ j \notin Stubborn)
  /\ child' = [child EXCEPT ![t][j] = "exit1"]
  /\ told' = [told EXCEPT ![t][j] = "none"]
  /\ UNCHANGED <<work, tick, run, lock, faults>>

Execute(t, j) == \/ Acquire(t, j) \/ SpawnChild(t, j) \/ SpawnReturns(t, j) \/ WaitReturns(t, j)
                 \/ TimesOut(t, j) \/ GraceOver(t, j) \/ KillReturns(t, j) \/ Release(t, j)
Loop == Minute \/ Drain \/ Drained

Next ==
  \/ \E t \in Ticks, j \in Jobs : Execute(t, j) \/ SpawnFails(t, j) \/ ChildEnds(t, j) \/ ChildObeys(t, j)
  \/ \E t \in Ticks : \/ Boot(t) \/ BootFails(t) \/ TickEnds(t) \/ TickRaises(t)
                      \/ RunByHand(t) \/ SignalTick(t) \/ ConnectionLost(t) \/ AcquireRaises(t) \/ TickDies(t)
  \/ Loop \/ MinuteFails \/ StopWork

Spec == Init /\ [][Next]_vars

FairSpec ==
  /\ Spec
  /\ WF_vars(Drain) /\ WF_vars(Drained)
  /\ \A t \in Ticks : /\ WF_vars(Boot(t)) /\ WF_vars(TickEnds(t)) /\ WF_vars(TickRaises(t))
                      /\ \A j \in Jobs : WF_vars(Execute(t, j)) /\ WF_vars(ChildObeys(t, j))

-----------------------------------------------------------------------------
(* Correctness *)

\* Every variable keeps its type.
TypeOK ==
  /\ work \in [pc : {"wait", "drain", "done0", "done1"}, stop : BOOLEAN, ticks : SUBSET Ticks]
  /\ tick \in [Ticks -> [pc : {"off", "boot", "run", "end0", "end1", "dead"}, stopping : BOOLEAN, lost : BOOLEAN]]
  /\ run \in [Ticks -> [Jobs -> Phases \cup Outcomes \cup {"none"}]]
  /\ child \in [Ticks -> [Jobs -> {"none", "live", "exit0", "exit1"}]]
  /\ told \in [Ticks -> [Jobs -> {"none", "TERM", "KILL"}]]
  /\ lock \in [Jobs -> Ticks \cup {NoOne}]

Live(t, j) == child[t][j] = "live"

\* Two processes of one job never run together unless the scheduler of one of them died,
\* lost its connection or could not open a lock file: the lock is held from before the
\* spawn until the child is gone, also on the timeout and stop paths (_run_one, _spawn, _kill).
NoOverlap ==
  \A t, u \in Ticks, j \in Jobs :
    t # u /\ Live(t, j) /\ Live(u, j) => \E v \in {t, u} : tick[v].pc = "dead" \/ tick[v].lost

\* A tick that ends by itself leaves no child behind and no lock taken, stopped or not;
\* only death, a lost connection and a lock that raises do (PgLock's docstring).
EndsEmptyHanded ==
  \A t \in Ticks : tick[t].pc \in {"end0", "end1"} /\ ~tick[t].lost
                     => \A j \in Jobs : ~Live(t, j) /\ lock[j] # t

\* Exit code 0 of a tick means that each of its children exited with 0, and that of
\* `cron work` that none of its ticks, nor a child of one that ended, is still running.
CleanExit ==
  /\ \A t \in Ticks : tick[t].pc = "end0" => \A j \in Jobs : child[t][j] \in {"none", "exit0"}
  /\ work.pc = "done0" => \A t \in work.ticks : /\ ~Running(t)
                                                /\ tick[t].pc = "end0" => \A j \in Jobs : ~Live(t, j)

\* A command that ends leaves nothing behind and says how it went.
EndsClean == TypeOK /\ EndsEmptyHanded /\ CleanExit

\* With a timeout on every job a tick ends, whatever its jobs do with SIGTERM ...
TicksEnd == \A t \in Ticks : tick[t].pc = "run" ~> tick[t].pc # "run"

\* ... and so does `cron work` once it is asked to stop.
WorkStops == work.stop ~> work.pc \in {"done0", "done1"}

\* Both commands come to an end: a tick by itself, `cron work` when it is told to.
CommandsEnd == TicksEnd /\ WorkStops

\* "Forward the scheduler's own shutdown to whatever is still running": once a tick was
\* stopped, each child it waits for has been sent SIGTERM (Executor.stop).
StopIsForwarded ==
  \A t \in Ticks, j \in Jobs :
    tick[t].pc = "run" /\ tick[t].stopping /\ run[t][j] = "wait" /\ Live(t, j) => told[t][j] # "none"
=============================================================================
