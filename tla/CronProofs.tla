------------------------------ MODULE CronProofs ------------------------------
(***************************************************************************)
(* For every set of ticks, jobs, schedules and faults: two processes of    *)
(* one job never run together unless a scheduler died or lost its          *)
(* connection, and a command that ends leaves nothing behind and returns   *)
(* the right code.                                                         *)
(***************************************************************************)
EXTENDS Cron, TLAPS

\* _run_one has the lock.
Busy == {"spawn", "born", "wait", "grace", "killed", "release:ok", "release:failed", "release:timeout"}

\* The lock of a job belongs to the tick whose _run_one is between acquire and release.
LockHeld ==
  \A t \in Ticks, j \in Jobs :
    lock[j] = t <=> tick[t].pc = "run" /\ ~tick[t].lost /\ run[t][j] \in Busy

\* What _run_one knows of its child.
RunKnowsChild ==
  \A t \in Ticks, j \in Jobs :
    /\ run[t][j] \in {"none", "acquire", "skipped", "spawn"} => child[t][j] = "none"
    /\ run[t][j] \in {"release:ok", "ok"} => child[t][j] = "exit0"
    /\ run[t][j] \in {"release:failed", "release:timeout", "failed", "timeout"} => child[t][j] # "live"

\* A tick ends by itself only with an outcome for every job, and with code 0 only with good ones.
TickPhase ==
  \A t \in Ticks :
    /\ tick[t].pc \in {"off", "boot"} => ~tick[t].lost
    /\ \A j \in Jobs :
         /\ tick[t].pc \in {"off", "boot"} => run[t][j] = "none"
         /\ tick[t].pc = "end1" /\ ~tick[t].lost => run[t][j] \in Outcomes \cup {"none"}
         /\ tick[t].pc = "end0" => run[t][j] \in {"ok", "skipped", "none"}

\* `cron work` waits for processes that it started, and is done when they are.
WorkTicks ==
  \A t \in work.ticks : tick[t].pc # "off" /\ (work.pc = "done0" => ~Running(t))

Inv == TypeOK /\ LockHeld /\ RunKnowsChild /\ TickPhase /\ WorkTicks

-----------------------------------------------------------------------------
LEMMA InitInv == Init => Inv
<1> SUFFICES ASSUME Init PROVE Inv
  OBVIOUS
<1>1. TypeOK
  BY DEF Init, TypeOK, Phases, Outcomes
<1> QED
  BY <1>1, CronAssumption DEF CronAssumption, Init, Inv, LockHeld, RunKnowsChild, TickPhase, WorkTicks, Outcomes, Busy

\* One job of one tick moves to place p, its process to c and its lock to l.
OneRunSteps(t, j, p, c, l) ==
  /\ run' = [run EXCEPT ![t][j] = p]
  /\ child' = [child EXCEPT ![t][j] = c]
  /\ lock' = [lock EXCEPT ![j] = l]
  /\ UNCHANGED <<work, tick>>

\* Such a step keeps the invariant when p, c and l fit together.
LEMMA OneRunKeeps ==
  ASSUME Inv, NEW t \in Ticks, NEW j \in Jobs,
         NEW p \in Phases \cup Outcomes, NEW c \in {"none", "live", "exit0", "exit1"}, NEW l \in Ticks \cup {NoOne},
         tick[t].pc = "run", OneRunSteps(t, j, p, c, l),
         told' \in [Ticks -> [Jobs -> {"none", "TERM", "KILL"}]],
         IF ~tick[t].lost /\ p \in Busy THEN l = t
           ELSE l = (IF lock[j] = t THEN NoOne ELSE lock[j]),
         l = t => lock[j] \in {t, NoOne},
         p \in {"acquire", "skipped", "spawn"} => c = "none",
         p \in {"release:ok", "ok"} => c = "exit0",
         p \in {"release:failed", "release:timeout", "failed", "timeout"} => c # "live"
  PROVE  Inv'
<1> USE DEF Inv
<1>1. /\ \A u \in Ticks, k \in Jobs : run'[u][k] = IF u = t /\ k = j THEN p ELSE run[u][k]
      /\ \A u \in Ticks, k \in Jobs : child'[u][k] = IF u = t /\ k = j THEN c ELSE child[u][k]
      /\ \A k \in Jobs : lock'[k] = IF k = j THEN l ELSE lock[k]
      /\ tick' = tick /\ work' = work
  BY DEF OneRunSteps, TypeOK
<1>2. TypeOK'
  <2>1. run' \in [Ticks -> [Jobs -> Phases \cup Outcomes \cup {"none"}]]
    BY DEF OneRunSteps, TypeOK
  <2>2. child' \in [Ticks -> [Jobs -> {"none", "live", "exit0", "exit1"}]]
    BY DEF OneRunSteps, TypeOK
  <2>3. lock' \in [Jobs -> Ticks \cup {NoOne}]
    BY DEF OneRunSteps, TypeOK
  <2> QED
    BY <1>1, <2>1, <2>2, <2>3 DEF TypeOK
<1>3. LockHeld'
  <2> SUFFICES ASSUME NEW u \in Ticks, NEW k \in Jobs
               PROVE  lock'[k] = u <=> tick[u].pc = "run" /\ ~tick[u].lost /\ run'[u][k] \in Busy
    BY <1>1 DEF LockHeld
  <2>1. CASE k # j
    BY <1>1, <2>1 DEF LockHeld
  <2>2. CASE k = j /\ u # t
    BY <1>1, <2>2, CronAssumption DEF LockHeld, CronAssumption
  <2>3. CASE k = j /\ u = t
    BY <1>1, <2>3, CronAssumption DEF LockHeld, CronAssumption
  <2> QED
    BY <2>1, <2>2, <2>3
<1>4. RunKnowsChild'
  BY <1>1 DEF RunKnowsChild, Phases, Outcomes
<1>5. TickPhase'
  BY <1>1 DEF TickPhase
<1>6. WorkTicks'
  BY <1>1 DEF WorkTicks, Running
<1> QED
  BY <1>2, <1>3, <1>4, <1>5, <1>6

LEMMA ExecuteKeeps ==
  ASSUME Inv, NEW t \in Ticks, NEW j \in Jobs, Execute(t, j) \/ SpawnFails(t, j)
  PROVE  Inv'
<1> USE DEF Inv
<1>t. /\ run[t][j] \in Phases \cup Outcomes \cup {"none"} /\ child[t][j] \in {"none", "live", "exit0", "exit1"}
      /\ lock[j] \in Ticks \cup {NoOne}
      /\ child = [child EXCEPT ![t][j] = child[t][j]] /\ lock = [lock EXCEPT ![j] = lock[j]]
      /\ t # NoOne
      /\ ~tick[t].lost /\ tick[t].pc = "run" /\ run[t][j] \in Busy => lock[j] = t
      /\ tick[t].lost \/ run[t][j] \notin Busy => lock[j] # t
  BY CronAssumption DEF TypeOK, LockHeld, CronAssumption
<1>told. told \in [Ticks -> [Jobs -> {"none", "TERM", "KILL"}]]
  BY DEF TypeOK
<1>1. CASE Acquire(t, j) /\ lock[j] = NoOne
  <2>1. OneRunSteps(t, j, "spawn", "none", t) /\ tick[t].pc = "run" /\ ~tick[t].lost /\ told' = told
    <3>1. child[t][j] = "none"
      BY <1>1 DEF Acquire, RunKnowsChild
    <3> QED
      BY <1>1, <1>t, <3>1 DEF Acquire, OneRunSteps, Goto
  <2> QED
    BY <1>1, <1>t, <1>told, <2>1, OneRunKeeps DEF Phases, Busy
<1>2. CASE Acquire(t, j) /\ lock[j] # NoOne
  <2>1. OneRunSteps(t, j, "skipped", "none", lock[j]) /\ tick[t].pc = "run" /\ told' = told /\ lock[j] # t
    <3>1. child[t][j] = "none" /\ lock[j] # t
      BY <1>2, <1>t DEF Acquire, RunKnowsChild, Busy
    <3> QED
      BY <1>2, <1>t, <3>1 DEF Acquire, OneRunSteps, Goto
  <2> QED
    BY <1>2, <1>t, <1>told, <2>1, OneRunKeeps DEF Outcomes, Busy
<1>3. CASE SpawnChild(t, j)
  <2>1. OneRunSteps(t, j, "born", "live", lock[j]) /\ tick[t].pc = "run" /\ told' = told /\ run[t][j] \in Busy
    BY <1>3, <1>t DEF SpawnChild, OneRunSteps, Goto, Busy
  <2> QED
    BY <1>t, <1>told, <2>1, OneRunKeeps DEF Phases, Busy
<1>4. CASE SpawnReturns(t, j)
  <2>1. OneRunSteps(t, j, "wait", child[t][j], lock[j]) /\ tick[t].pc = "run" /\ told' = told /\ run[t][j] \in Busy
    BY <1>4, <1>t DEF SpawnReturns, OneRunSteps, Goto, Busy
  <2>2. "wait" \in Phases /\ "wait" \in Busy
    BY DEF Phases, Busy
  <2> QED
    BY <1>t, <1>told, <2>1, <2>2, OneRunKeeps
<1>5. CASE SpawnFails(t, j)
  <2>1. /\ OneRunSteps(t, j, "release:failed", child[t][j], lock[j]) /\ tick[t].pc = "run" /\ told' = told
        /\ run[t][j] \in Busy /\ child[t][j] = "none"
    BY <1>5, <1>t DEF SpawnFails, OneRunSteps, Goto, Busy, RunKnowsChild
  <2>2. "release:failed" \in Phases /\ "release:failed" \in Busy
    BY DEF Phases, Busy
  <2> QED
    BY <1>t, <1>told, <2>1, <2>2, OneRunKeeps
<1>6. CASE WaitReturns(t, j)
  <2>1. PICK p \in {"release:ok", "release:failed"} :
          /\ OneRunSteps(t, j, p, child[t][j], lock[j]) /\ tick[t].pc = "run" /\ told' = told
          /\ run[t][j] \in Busy /\ child[t][j] = (IF p = "release:ok" THEN "exit0" ELSE "exit1")
    BY <1>6, <1>t DEF WaitReturns, OneRunSteps, Goto, Busy
  <2>2. p \in Phases /\ p \in Busy
    BY DEF Phases, Busy
  <2> QED
    BY <1>t, <1>told, <2>1, <2>2, OneRunKeeps
<1>7. CASE TimesOut(t, j) \/ GraceOver(t, j)
  <2>1. PICK p \in {"grace", "killed"} :
          OneRunSteps(t, j, p, child[t][j], lock[j]) /\ tick[t].pc = "run" /\ run[t][j] \in Busy
    BY <1>7, <1>t DEF TimesOut, GraceOver, OneRunSteps, Goto, Busy
  <2>2. told' \in [Ticks -> [Jobs -> {"none", "TERM", "KILL"}]]
    BY <1>7, <1>told DEF TimesOut, GraceOver
  <2>3. p \in Phases /\ p \in Busy
    BY DEF Phases, Busy
  <2> QED
    BY <1>t, <2>1, <2>2, <2>3, OneRunKeeps
<1>8. CASE KillReturns(t, j)
  <2>1. /\ OneRunSteps(t, j, "release:timeout", child[t][j], lock[j]) /\ tick[t].pc = "run" /\ told' = told
        /\ run[t][j] \in Busy /\ child[t][j] # "live"
    BY <1>8, <1>t DEF KillReturns, OneRunSteps, Goto, Busy
  <2>2. "release:timeout" \in Phases /\ "release:timeout" \in Busy
    BY DEF Phases, Busy
  <2> QED
    BY <1>t, <1>told, <2>1, <2>2, OneRunKeeps
<1>9. CASE Release(t, j)
  <2> DEFINE p == OutcomeOf(run[t][j])
  <2>1. /\ OneRunSteps(t, j, p, child[t][j], NoOne) /\ tick[t].pc = "run" /\ ~tick[t].lost /\ told' = told
        /\ run[t][j] \in {"release:ok", "release:failed", "release:timeout"}
    BY <1>9, <1>t DEF Release, OneRunSteps, Goto
  <2>2. /\ p \in {"ok", "failed", "timeout"} /\ (p = "ok" => child[t][j] = "exit0")
        /\ child[t][j] # "live" /\ lock[j] = t
    BY <1>t, <2>1 DEF OutcomeOf, RunKnowsChild, Busy
  <2> HIDE DEF p
  <2>3. p \in Outcomes /\ p \notin Busy
    BY <2>2 DEF Outcomes, Busy
  <2> QED
    BY <1>t, <1>told, <2>1, <2>2, <2>3, OneRunKeeps
<1> QED
  BY <1>1, <1>2, <1>3, <1>4, <1>5, <1>6, <1>7, <1>8, <1>9 DEF Execute

LEMMA ChildKeeps ==
  ASSUME Inv, NEW t \in Ticks, NEW j \in Jobs, ChildEnds(t, j) \/ ChildObeys(t, j)
  PROVE  Inv'
<1> USE DEF Inv
<1>1. PICK rc \in {"exit0", "exit1"} : child' = [child EXCEPT ![t][j] = rc]
  BY DEF ChildEnds, ChildObeys
<1>2. child[t][j] = "live" /\ UNCHANGED <<work, tick, run, lock>>
  BY DEF ChildEnds, ChildObeys
<1>3. TypeOK'
  <2>1. child' \in [Ticks -> [Jobs -> {"none", "live", "exit0", "exit1"}]]
    BY <1>1 DEF TypeOK
  <2>2. told' \in [Ticks -> [Jobs -> {"none", "TERM", "KILL"}]]
    <3>1. told' = [told EXCEPT ![t][j] = "none"]
      BY DEF ChildEnds, ChildObeys
    <3> QED
      BY <3>1 DEF TypeOK
  <2> QED
    BY <1>2, <2>1, <2>2 DEF TypeOK
<1>4. RunKnowsChild'
  BY <1>1, <1>2 DEF RunKnowsChild, TypeOK
<1> QED
  BY <1>2, <1>3, <1>4 DEF LockHeld, TickPhase, WorkTicks, Running

-----------------------------------------------------------------------------
(* Ticks as a whole *)

\* The values a tick's state takes.
Tick == [pc : {"off", "boot", "run", "end0", "end1", "dead"}, stopping : BOOLEAN, lost : BOOLEAN]

\* A tick is stopped: one that is still starting dies, the others go on.
LEMMA StoppedKeeps ==
  ASSUME Inv, NEW ts \in SUBSET Ticks, \A t \in ts : Running(t), Stopped(ts),
         work' \in [pc : {"wait", "drain", "done0", "done1"}, stop : BOOLEAN, ticks : SUBSET Ticks],
         work'.ticks = work.ticks, work'.pc = "done0" => work.pc = "done0",
         UNCHANGED <<run, child, lock>>
  PROVE  Inv'
<1> USE DEF Inv
<1>1. \A t \in Ticks : /\ tick'[t].lost = tick[t].lost
                       /\ tick'[t].pc = tick[t].pc \/ (tick[t].pc = "boot" /\ tick'[t].pc = "dead")
  BY DEF Stopped, TypeOK
<1>2. TypeOK'
  <2>1. tick' \in [Ticks -> [pc : {"off", "boot", "run", "end0", "end1", "dead"}, stopping : BOOLEAN, lost : BOOLEAN]]
    <3>1. \A t \in Ticks : /\ [tick[t] EXCEPT !.pc = "dead"] \in Tick
                           /\ [tick[t] EXCEPT !.stopping = TRUE] \in Tick /\ tick[t] \in Tick
      <4>1. \A x \in Tick : [x EXCEPT !.pc = "dead"] \in Tick /\ [x EXCEPT !.stopping = TRUE] \in Tick
        BY DEF Tick
      <4>2. \A t \in Ticks : tick[t] \in Tick
        BY DEF TypeOK, Tick
      <4> QED
        BY <4>1, <4>2
    <3>2. tick' \in [Ticks -> Tick]
      BY <3>1 DEF Stopped
    <3> QED
      BY <3>2 DEF Tick
  <2>2. told' \in [Ticks -> [Jobs -> {"none", "TERM", "KILL"}]]
    BY DEF Stopped, TypeOK
  <2> QED
    BY <2>1, <2>2 DEF TypeOK
<1>3. LockHeld'
  BY <1>1 DEF LockHeld
<1>4. RunKnowsChild'
  BY DEF RunKnowsChild
<1>5. TickPhase'
  BY <1>1 DEF TickPhase
<1>6. WorkTicks'
  BY <1>1 DEF WorkTicks, Running, TypeOK
<1> QED
  BY <1>2, <1>3, <1>4, <1>5, <1>6

\* A tick moves to pc p.  The locks of a tick that does not run are free.
OneTickSteps(t, p, lost) ==
  /\ tick[t].pc \notin {"end0", "end1", "dead"} /\ p \in {"boot", "run", "end0", "end1", "dead"}
  /\ lost \in BOOLEAN
  /\ tick' \in [Ticks -> Tick]
  /\ tick'[t].pc = p /\ tick'[t].lost = lost
  /\ \A u \in Ticks \ {t} : tick'[u] = tick[u]
  /\ p = "boot" => tick[t].pc = "off"
  /\ p = "run" => tick[t].pc # "off"
  /\ p = "boot" \/ tick[t].pc # "off"
  /\ lock' = IF p = "run" /\ ~lost THEN lock ELSE [j \in Jobs |-> IF lock[j] = t THEN NoOne ELSE lock[j]]
  /\ child' = child /\ told' = told

LEMMA OneTickKeeps ==
  ASSUME Inv, NEW t \in Ticks, NEW p, NEW lost, OneTickSteps(t, p, lost),
         tick[t].lost => lost,
         run' = run \/ (tick[t].pc = "boot" /\ p = "run"
                        /\ \E due \in SUBSET Jobs :
                             run' = [run EXCEPT ![t] = [j \in Jobs |-> IF j \in due THEN "acquire" ELSE "none"]]),
         p = "boot" => ~lost,
         p = "end1" /\ ~lost => \A j \in Jobs : run[t][j] \in Outcomes \cup {"none"},
         p = "end0" => \A j \in Jobs : run[t][j] \in {"ok", "skipped", "none"},
         work' = work \/ (work.pc = "wait" /\ work' = [work EXCEPT !.ticks = {u \in @ : Running(u)} \cup {t}])
  PROVE  Inv'
<1> USE DEF Inv
<1>1. \A u \in Ticks \ {t} : tick'[u] = tick[u]
  BY DEF OneTickSteps, TypeOK
<1>2. \A u \in Ticks \ {t} : run'[u] = run[u]
  BY DEF TypeOK
<1>3. \A j \in Jobs : run'[t][j] = run[t][j] \/ (run'[t][j] \in {"acquire", "none"} /\ tick[t].pc = "boot" /\ p = "run")
  BY DEF TypeOK
<1>4. TypeOK'
  <2>1. tick' \in [Ticks -> [pc : {"off", "boot", "run", "end0", "end1", "dead"}, stopping : BOOLEAN, lost : BOOLEAN]]
    BY DEF OneTickSteps, Tick
  <2>2. run' \in [Ticks -> [Jobs -> Phases \cup Outcomes \cup {"none"}]]
    <3>1. \A due \in SUBSET Jobs : [j \in Jobs |-> IF j \in due THEN "acquire" ELSE "none"]
                                     \in [Jobs -> Phases \cup Outcomes \cup {"none"}]
      BY DEF Phases
    <3>2. run \in [Ticks -> [Jobs -> Phases \cup Outcomes \cup {"none"}]]
      BY DEF TypeOK
    <3> QED
      BY <3>1, <3>2
  <2>3. lock' \in [Jobs -> Ticks \cup {NoOne}]
    BY DEF OneTickSteps, TypeOK
  <2>4. work' \in [pc : {"wait", "drain", "done0", "done1"}, stop : BOOLEAN, ticks : SUBSET Ticks]
    <3>1. {u \in work.ticks : Running(u)} \cup {t} \in SUBSET Ticks
      BY DEF TypeOK
    <3> QED
      BY <3>1 DEF TypeOK
  <2> QED
    BY <2>1, <2>2, <2>3, <2>4 DEF TypeOK, OneTickSteps
<1>5. LockHeld'
  <2> SUFFICES ASSUME NEW u \in Ticks, NEW j \in Jobs
               PROVE  lock'[j] = u <=> tick'[u].pc = "run" /\ ~tick'[u].lost /\ run'[u][j] \in Busy
    BY DEF LockHeld
  <2>1. CASE u # t
    BY <1>1, <1>2, <2>1, CronAssumption DEF LockHeld, OneTickSteps, CronAssumption, TypeOK
  <2>2. CASE u = t /\ p = "run" /\ ~lost
    <3>1. lock'[j] = lock[j] /\ tick'[t].pc = "run" /\ tick'[t].lost = FALSE /\ ~tick[t].lost
      BY <2>2 DEF OneTickSteps
    <3>2. tick[t].pc = "boot" => run[t][j] = "none" /\ run'[t][j] \in {"acquire", "none"}
      BY <1>3 DEF TickPhase
    <3>3. tick[t].pc \in {"boot", "run"}
      BY <2>2 DEF OneTickSteps, TypeOK
    <3> QED
      BY <1>3, <2>2, <3>1, <3>2, <3>3 DEF LockHeld, Busy
  <2>3. CASE u = t /\ ~(p = "run" /\ ~lost)
    BY <2>3, CronAssumption DEF OneTickSteps, CronAssumption
  <2> QED
    BY <2>1, <2>2, <2>3
<1>6. RunKnowsChild'
  <2>1. \A j \in Jobs : tick[t].pc = "boot" => child[t][j] = "none"
    BY DEF TickPhase, RunKnowsChild
  <2> QED
    BY <1>2, <1>3, <2>1 DEF RunKnowsChild, OneTickSteps
<1>7. TickPhase'
  <2>0. \A u \in Ticks : tick'[u].pc \in {"off", "boot"} => ~tick'[u].lost
    BY <1>1 DEF TickPhase, OneTickSteps
  <2> SUFFICES ASSUME NEW u \in Ticks, NEW j \in Jobs
               PROVE  /\ tick'[u].pc \in {"off", "boot"} => run'[u][j] = "none"
                      /\ tick'[u].pc = "end1" /\ ~tick'[u].lost => run'[u][j] \in Outcomes \cup {"none"}
                      /\ tick'[u].pc = "end0" => run'[u][j] \in {"ok", "skipped", "none"}
    BY <2>0 DEF TickPhase
  <2>1. CASE u # t
    BY <1>1, <1>2, <2>1 DEF TickPhase
  <2>2. CASE u = t
    <3>1. tick'[t].pc = p /\ tick'[t].lost = lost /\ p # "off" /\ (p = "boot" => tick[t].pc = "off")
      BY DEF OneTickSteps
    <3>2. p # "run" => run'[t][j] = run[t][j]
      BY <1>3
    <3> QED
      BY <2>2, <3>1, <3>2 DEF TickPhase
  <2> QED
    BY <2>1, <2>2
<1>8. WorkTicks'
  <2>1. ASSUME NEW u \in work'.ticks
        PROVE  tick'[u].pc # "off" /\ (work'.pc = "done0" => ~Running(u)')
    <3>1. u = t \/ u \in work.ticks
      BY <2>1 DEF TypeOK
    <3>2. CASE u # t
      BY <1>1, <2>1, <3>1, <3>2 DEF WorkTicks, Running, TypeOK
    <3>3. CASE u = t
      <4>1. work'.pc = "done0" => work' = work /\ t \in work.ticks
        BY <2>1, <3>3 DEF TypeOK
      <4>2. work'.pc = "done0" => tick[t].pc = "dead" \/ tick[t].pc = "end0" \/ tick[t].pc = "end1"
        BY <4>1 DEF WorkTicks, Running, TypeOK
      <4> QED
        BY <3>3, <4>2 DEF OneTickSteps
    <3> QED
      BY <3>2, <3>3
  <2> QED
    BY <2>1 DEF WorkTicks
<1> QED
  BY <1>4, <1>5, <1>6, <1>7, <1>8

LEMMA StopKeeps == ASSUME Inv, Drain \/ \E t \in Ticks : SignalTick(t) PROVE Inv'
<1>1. CASE Drain
  <2>1. /\ {t \in work.ticks : Running(t)} \in SUBSET Ticks
        /\ work' \in [pc : {"wait", "drain", "done0", "done1"}, stop : BOOLEAN, ticks : SUBSET Ticks]
        /\ work'.ticks = work.ticks /\ work'.pc = "drain"
    BY <1>1 DEF Drain, Inv, TypeOK
  <2> QED
    BY <1>1, <2>1, StoppedKeeps DEF Drain
<1>2. ASSUME NEW t \in Ticks, SignalTick(t) PROVE Inv'
  <2>1. /\ {t} \in SUBSET Ticks /\ work' = work /\ Stopped({t}) /\ Running(t) /\ UNCHANGED <<run, child, lock>>
        /\ work \in [pc : {"wait", "drain", "done0", "done1"}, stop : BOOLEAN, ticks : SUBSET Ticks]
    BY <1>2 DEF SignalTick, Inv, TypeOK
  <2> QED
    BY <2>1, StoppedKeeps
<1> QED
  BY <1>1, <1>2

\* A tick that holds no lock is not in the table of locks.
LEMMA NoLocks ==
  ASSUME Inv, NEW t \in Ticks,
         tick[t].pc # "run" \/ tick[t].lost \/ \A j \in Jobs : run[t][j] \notin Busy
  PROVE  lock = [j \in Jobs |-> IF lock[j] = t THEN NoOne ELSE lock[j]]
  BY DEF Inv, TypeOK, LockHeld

LEMMA TickKeeps ==
  ASSUME Inv, NEW t \in Ticks,
         \/ Boot(t) \/ BootFails(t) \/ TickEnds(t) \/ TickRaises(t)
         \/ RunByHand(t) \/ ConnectionLost(t) \/ AcquireRaises(t) \/ TickDies(t)
  PROVE  Inv'
<1> DEFINE Freed == [j \in Jobs |-> IF lock[j] = t THEN NoOne ELSE lock[j]]
<1>1. tick \in [Ticks -> Tick] /\ tick[t] \in Tick
  BY DEF Inv, TypeOK, Tick
<1>a. tick' \in [Ticks -> Tick] /\ \A u \in Ticks \ {t} : tick'[u] = tick[u]
  <2>1. PICK r \in Tick : tick' = [tick EXCEPT ![t] = r]
    <3>1. \A p \in {"boot", "run", "end0", "end1", "dead"} :
            /\ [tick[t] EXCEPT !.pc = p] \in Tick
            /\ [tick[t] EXCEPT !.stopping = FALSE, !.pc = p] \in Tick
      BY <1>1 DEF Tick
    <3>2. [tick[t] EXCEPT !.lost = TRUE] \in Tick /\ [tick[t] EXCEPT !.pc = "end1", !.lost = TRUE] \in Tick
      BY <1>1 DEF Tick
    <3>3. CASE TickEnds(t)
      BY <1>1, <3>1, <3>3 DEF TickEnds
    <3> QED
      BY <1>1, <3>1, <3>2, <3>3 DEF Boot, BootFails, TickRaises, RunByHand, ConnectionLost, AcquireRaises, TickDies
  <2> QED
    BY <1>1, <2>1
<1>2. tick[t].pc \in {"off", "boot"} => ~tick[t].lost /\ \A j \in Jobs : run[t][j] = "none"
  BY DEF Inv, TickPhase
<1>3. \A j \in Jobs : run[t][j] \in Outcomes \cup {"none"} => run[t][j] \notin Busy
  BY DEF Outcomes, Busy
<1>b. tick[t].lost \in BOOLEAN
  BY <1>1 DEF Tick
<1>4. CASE Boot(t)
  <2>1. PICK due \in SUBSET Due[t] :
          IF due = {} THEN tick' = [tick EXCEPT ![t].pc = "end0"] /\ UNCHANGED run
          ELSE /\ tick' = [tick EXCEPT ![t].pc = "run"]
               /\ run' = [run EXCEPT ![t] = [j \in Jobs |-> IF j \in due THEN "acquire" ELSE "none"]]
    BY <1>4 DEF Boot
  <2>2. due \in SUBSET Jobs /\ tick[t].pc = "boot" /\ UNCHANGED <<work, child, told, lock>> /\ lock = Freed
    BY <1>4, CronAssumption, NoLocks DEF Boot, CronAssumption
  <2>3. CASE due = {}
    <3>1. OneTickSteps(t, "end0", tick[t].lost)
      BY <1>1, <1>a, <1>b, <2>1, <2>2, <2>3 DEF OneTickSteps, Tick
    <3> QED
      BY <1>2, <2>1, <2>2, <2>3, <3>1, OneTickKeeps
  <2>4. CASE due # {}
    <3>1. OneTickSteps(t, "run", tick[t].lost)
      BY <1>1, <1>a, <1>b, <2>1, <2>2, <2>4 DEF OneTickSteps, Tick
    <3> QED
      BY <1>2, <2>1, <2>2, <2>4, <3>1, OneTickKeeps
  <2> QED
    BY <2>3, <2>4
<1>5. CASE BootFails(t)
  <2>1. OneTickSteps(t, "end1", tick[t].lost)
    BY <1>1, <1>a, <1>b, <1>5, NoLocks DEF BootFails, OneTickSteps
  <2> QED
    BY <1>2, <1>5, <2>1, OneTickKeeps DEF BootFails
<1>6. CASE TickEnds(t)
  <2>1. /\ tick[t].pc = "run" /\ UNCHANGED <<work, run, child, told, lock>>
        /\ \A j \in Jobs : run[t][j] \in Outcomes \cup {"none"}
        /\ lock = Freed
    BY <1>3, <1>6, NoLocks DEF TickEnds
  <2>2. CASE \E j \in Jobs : run[t][j] \in {"failed", "timeout"}
    <3>1. OneTickSteps(t, "end1", tick[t].lost)
      BY <1>1, <1>a, <1>b, <1>6, <2>1, <2>2 DEF TickEnds, OneTickSteps
    <3> QED
      BY <2>1, <3>1, OneTickKeeps
  <2>3. CASE ~\E j \in Jobs : run[t][j] \in {"failed", "timeout"}
    <3>1. OneTickSteps(t, "end0", tick[t].lost)
      BY <1>1, <1>a, <1>b, <1>6, <2>1, <2>3 DEF TickEnds, OneTickSteps
    <3>2. \A j \in Jobs : run[t][j] \in {"ok", "skipped", "none"}
      BY <2>1, <2>3 DEF Outcomes
    <3> QED
      BY <2>1, <3>1, <3>2, OneTickKeeps
  <2> QED
    BY <2>2, <2>3
<1>7. CASE TickRaises(t)
  <2>1. OneTickSteps(t, "end1", TRUE)
    BY <1>1, <1>a, <1>7, NoLocks DEF TickRaises, OneTickSteps, Tick
  <2> QED
    BY <1>7, <2>1, OneTickKeeps DEF TickRaises
<1>8. CASE RunByHand(t)
  <2>1. OneTickSteps(t, "boot", FALSE)
    BY <1>1, <1>2, <1>a, <1>8, NoLocks DEF RunByHand, OneTickSteps, Tick
  <2>2. tick[t].pc = "off"
    BY <1>8 DEF RunByHand
  <2> QED
    BY <1>2, <1>8, <2>1, <2>2, OneTickKeeps DEF RunByHand
<1>9. CASE ConnectionLost(t)
  <2>1. OneTickSteps(t, "run", TRUE)
    BY <1>1, <1>a, <1>9 DEF ConnectionLost, OneTickSteps, Tick
  <2> QED
    BY <1>9, <2>1, OneTickKeeps DEF ConnectionLost
<1>10. CASE TickDies(t)
  <2>1. OneTickSteps(t, "dead", tick[t].lost)
    BY <1>1, <1>a, <1>b, <1>10 DEF TickDies, OneTickSteps, Running
  <2> QED
    BY <1>10, <2>1, OneTickKeeps DEF TickDies
<1>11. CASE AcquireRaises(t)
  <2>1. OneTickSteps(t, "end1", TRUE)
    BY <1>1, <1>a, <1>11 DEF AcquireRaises, OneTickSteps, Tick
  <2> QED
    BY <1>11, <2>1, OneTickKeeps DEF AcquireRaises
<1> QED
  BY <1>4, <1>5, <1>6, <1>7, <1>8, <1>9, <1>10, <1>11

LEMMA LoopKeeps ==
  ASSUME Inv, Minute \/ MinuteFails \/ StopWork \/ Drained
  PROVE  Inv'
<1>1. CASE Minute
  <2>1. PICK t \in Ticks : /\ tick[t].pc = "off"
                           /\ tick' = [tick EXCEPT ![t].pc = "boot"]
                           /\ work' = [work EXCEPT !.ticks = {u \in @ : Running(u)} \cup {t}]
    BY <1>1 DEF Minute
  <2>2. tick \in [Ticks -> Tick] /\ ~tick[t].lost /\ work.pc = "wait" /\ UNCHANGED <<run, child, told, lock>>
    BY <1>1, <2>1 DEF Minute, Inv, TypeOK, Tick, TickPhase
  <2>3. OneTickSteps(t, "boot", FALSE)
    BY <2>1, <2>2, NoLocks DEF OneTickSteps, Tick
  <2> QED
    BY <2>1, <2>2, <2>3, OneTickKeeps
<1>2. CASE MinuteFails \/ StopWork \/ Drained
  <2>1. UNCHANGED <<tick, run, child, told, lock>>
    BY <1>2 DEF MinuteFails, StopWork, Drained
  <2>2. /\ work' \in [pc : {"wait", "drain", "done0", "done1"}, stop : BOOLEAN, ticks : SUBSET Ticks]
        /\ work'.ticks = work.ticks
        /\ work'.pc = "done0" => work.pc = "done0" \/ \A t \in work.ticks : ~Running(t)
    BY <1>2 DEF MinuteFails, StopWork, Drained, Inv, TypeOK
  <2>3. TypeOK'
    BY <2>1, <2>2 DEF Inv, TypeOK
  <2>4. WorkTicks'
    BY <2>1, <2>2 DEF Inv, WorkTicks, Running
  <2> QED
    BY <2>1, <2>3, <2>4 DEF Inv, LockHeld, RunKnowsChild, TickPhase
<1> QED
  BY <1>1, <1>2

LEMMA Invariance == Spec => []Inv
<1>1. ASSUME Inv, [Next]_vars PROVE Inv'
  <2>1. CASE UNCHANGED vars
    BY <1>1, <2>1 DEF vars, Inv, TypeOK, LockHeld, RunKnowsChild, TickPhase, WorkTicks, Running
  <2>2. CASE Next
    BY <1>1, <2>2, ExecuteKeeps, ChildKeeps, StopKeeps, TickKeeps, LoopKeeps DEF Next, Loop
  <2> QED
    BY <1>1, <2>1, <2>2
<1> QED
  BY <1>1, InitInv, PTL DEF Spec

-----------------------------------------------------------------------------
\* Two live processes of one job: each scheduler that is neither dead nor cut off is still in
\* _run_one and therefore holds the lock, which has one holder.
THEOREM JobsDoNotOverlap == Spec => []NoOverlap
<1>1. Inv => NoOverlap
  <2> SUFFICES ASSUME Inv, NEW t \in Ticks, NEW u \in Ticks, NEW j \in Jobs, t # u, Live(t, j), Live(u, j),
                      \A v \in {t, u} : tick[v].pc # "dead" /\ ~tick[v].lost
               PROVE  FALSE
    BY DEF NoOverlap
  <2>1. ASSUME NEW v \in {t, u} PROVE lock[j] = v
    <3>1. run[v][j] \in {"born", "wait", "grace", "killed"}
      <4>1. v \in Ticks /\ child[v][j] = "live"
        BY DEF Live
      <4>2. run[v][j] \in Phases \cup Outcomes \cup {"none"}
        BY <4>1 DEF Inv, TypeOK
      <4>3. run[v][j] \notin {"none", "acquire", "skipped", "spawn", "release:ok", "ok", "release:failed",
                              "release:timeout", "failed", "timeout"}
        BY <4>1 DEF Inv, RunKnowsChild
      <4> QED
        BY <4>2, <4>3 DEF Phases, Outcomes
    <3>2. tick[v].pc = "run"
      <4>1. tick[v].pc \in {"off", "boot", "run", "end0", "end1"} /\ ~tick[v].lost
        BY DEF Inv, TypeOK
      <4>2. run[v][j] \notin Outcomes \cup {"none"}
        BY <3>1 DEF Outcomes
      <4> QED
        BY <3>1, <4>1, <4>2 DEF Inv, TickPhase
    <3> QED
      BY <3>1, <3>2 DEF Inv, LockHeld, Busy
  <2> QED
    BY <2>1
<1> QED
  BY <1>1, Invariance, PTL

\* A tick that ends by itself has no child and no lock, exit code 0 tells the truth about the
\* children, and that of `cron work` about its ticks.
THEOREM CommandsEndClean == Spec => []EndsClean
<1>1. Inv => EndsClean
  <2> SUFFICES ASSUME Inv PROVE EndsEmptyHanded /\ CleanExit
    BY DEF Inv, EndsClean
  <2>1. ASSUME NEW t \in Ticks, NEW j \in Jobs, run[t][j] \in Outcomes \cup {"none"}
        PROVE  ~Live(t, j) /\ lock[j] # t
    BY <2>1 DEF Inv, RunKnowsChild, LockHeld, Live, Outcomes, Busy
  <2>2. EndsEmptyHanded
    <3>1. ASSUME NEW t \in Ticks, NEW j \in Jobs, tick[t].pc \in {"end0", "end1"}, ~tick[t].lost
          PROVE  run[t][j] \in Outcomes \cup {"none"}
      BY <3>1 DEF Inv, TickPhase, Outcomes
    <3> QED
      BY <2>1, <3>1 DEF EndsEmptyHanded
  <2>3. ASSUME NEW t \in Ticks, NEW j \in Jobs, tick[t].pc = "end0"
        PROVE  child[t][j] \in {"none", "exit0"}
    BY <2>3 DEF Inv, TickPhase, RunKnowsChild
  <2>4. CleanExit
    BY <2>3 DEF CleanExit, Inv, TypeOK, WorkTicks, Live
  <2> QED
    BY <2>2, <2>4
<1> QED
  BY <1>1, Invariance, PTL
=============================================================================
