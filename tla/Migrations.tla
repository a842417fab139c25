------------------------------ MODULE Migrations ------------------------------
(***************************************************************************)
(* The migration runner (migrations/): several processes run `apply`,      *)
(* `apply --dry-run`, `baseline`, `repair` and `status` over the same      *)
(* targets, each from a checkout of its own or a common one, while files   *)
(* are added, edited and removed there.  A migration's name is its         *)
(* timestamp prefix, a number; a checksum is the content itself.  A step   *)
(* is what happens between two awaits that others can observe: the lock,   *)
(* the directory listing, the tracking table's SELECT, each file's         *)
(* transaction (or the two halves of a file without one), the UPDATE.      *)
(***************************************************************************)
EXTENDS Naturals, Sequences, Functions

CONSTANTS
  Deployers,      \* processes
  Targets,        \* the configured targets, a sequence
  Configs,        \* the configurations: c[t] = <<identity, table>> of target t; an identity is
                  \* what _database_identity makes of its host, port and database
  Physical,       \* Physical[i]: the database that identity i leads to
  Checkouts,      \* working copies, of one host or several
  CheckoutOf,     \* CheckoutOf[d]: the one that process d runs in
  Names,          \* migration prefixes, numbers
  Contents,       \* what a file may hold
  Malformed,      \* contents that load_migration or discover refuses
  Refused,        \* contents that apply's scan of the queue refuses
  NoTransaction,  \* contents marked `-- migrations:no-transaction`
  Template,       \* what cmd_new writes
  InitFiles,      \* directories to begin with, per checkout and target
  Absent,         \* no file, no row
  NoOne,          \* nobody holds the lock
  Steps,          \* the commands that are run
  Limits,         \* the values of --to; NoLimit when it is not given
  MaxStarts, MaxEdits, MaxFaults

NoLimit == 0
TargetSet == Range(Targets)
Identities == {c[t][1] : c \in Configs, t \in TargetSet}
Tables == {<<Physical[c[t][1]], c[t][2]>> : c \in Configs, t \in TargetSet}
Databases == {k[1] : k \in Tables}
\* No database has two names (localhost and 127.0.0.1); some results are about this case.
NoAliases == \A i, j \in Identities : Physical[i] = Physical[j] => i = j

ASSUME MigrationAssumption ==
  /\ Targets \in Seq(TargetSet) /\ Targets # <<>>
  /\ Names \subseteq Nat \ {0}
  /\ \A c \in Configs, t \in TargetSet : c[t] = <<c[t][1], c[t][2]>>
  /\ Identities \subseteq DOMAIN Physical
  /\ CheckoutOf \in [Deployers -> Checkouts]
  /\ InitFiles \subseteq [Checkouts -> [TargetSet -> [Names -> Contents \cup {Absent}]]]
  /\ Malformed \cup Refused \cup NoTransaction \cup {Template} \subseteq Contents
  /\ Absent \notin Contents
  /\ NoOne \notin Deployers
  /\ Limits \subseteq Names \cup {NoLimit}
  /\ Steps \subseteq {"apply", "dry", "baseline", "repair", "status"}

VARIABLES
  tracking, \* config["migrations"]["targets"]: where each target tracks
  files,    \* files[x][t][n]: the target's directory in checkout x
  rows,     \* rows[k][n]: the checksum in tracking table k
  lock,     \* lock[b]: who holds the advisory lock (flock) of database b
  proc,     \* proc[d]: one invocation of the command line
  starts, edits, faults,
  \* history
  ran,      \* ran[t][n]: how often a file committed, in a transaction and outside
  ranAs,    \* ranAs[t]: <<name, content>> executed
  stamped,  \* stamped[t]: <<name, content>> written by baseline or repair
  advice    \* advice[t]: names whose row apply told the operator to DELETE

vars == <<tracking, files, rows, lock, proc, starts, edits, faults, ran, ranAs, stamped, advice>>
history == <<ran, ranAs, stamped, advice>>
budgets == <<starts, edits, faults>>

Database(t) == Physical[tracking[t][1]]
Table(t) == <<Database(t), tracking[t][2]>>
Idle == [pc |-> "idle", step |-> "status", to |-> NoLimit, sel |-> {}, left |-> <<>>,
         found |-> [n \in Names |-> Absent], plan |-> {}, code |-> 1, seen |-> {}]

Init ==
  /\ tracking \in Configs
  /\ files \in InitFiles
  /\ rows = [k \in Tables |-> [n \in Names |-> Absent]]
  /\ lock = [b \in Databases |-> NoOne]
  /\ proc = [d \in Deployers |-> Idle]
  /\ starts = 0 /\ edits = 0 /\ faults = 0
  /\ ran = [t \in TargetSet |-> [n \in Names |-> [tx |-> 0, out |-> 0]]]
  /\ ranAs = [t \in TargetSet |-> {}]
  /\ stamped = [t \in TargetSet |-> {}]
  /\ advice = [t \in TargetSet |-> {}]

-----------------------------------------------------------------------------
(* compute_states, pending, blocking over a listing f and the rows r *)

Known(f) == {n \in Names : f[n] # Absent}
StateOf(f, r, n) ==
  CASE f[n] = Absent /\ r[n] # Absent -> "MISSING"
    [] f[n] # Absent /\ r[n] = Absent -> "PENDING"
    [] f[n] # Absent /\ r[n] # Absent /\ r[n] # f[n] -> "DRIFT"
    [] OTHER -> "applied"
InState(f, r, ss) == {n \in Names : StateOf(f, r, n) \in ss}
Pending(f, r) == InState(f, r, {"PENDING"})
Blocking(f, r) == InState(f, r, {"DRIFT", "MISSING"})
\* The files up to --to, with what was read of them.
Queue(f, ns, to) == {[name |-> n, content |-> f[n]] : n \in {m \in ns : to = NoLimit \/ m <= to}}
\* Mutant: newest first.
NewestFirst(plan) == CHOOSE e \in plan : \A other \in plan : e.name >= other.name
\* `for state in queue`: in name order.
First(plan) == CHOOSE e \in plan : \A other \in plan : e.name <= other.name

\* Mutant: targets compared by their name.
SharedTrackingByName == \E i, j \in DOMAIN Targets : i < j /\ Targets[i] = Targets[j]
\* _reject_shared_tracking_tables: two targets with one identity and one table.
SharedTracking == \E i, j \in DOMAIN Targets : i < j /\ tracking[Targets[i]] = tracking[Targets[j]]

-----------------------------------------------------------------------------
Target(d) == Head(proc[d].left)
Directory(d) == files[CheckoutOf[d]][Target(d)]
\* Mutant: the lock is kept until the process is gone, which is never seen.
UnlockedNever(d) == lock
Unlocked(d) == [b \in Databases |-> IF lock[b] = d THEN NoOne ELSE lock[b]]
FirstStep(step) == IF step \in {"apply", "dry", "baseline"} THEN "lock"
                   ELSE IF step = "repair" THEN "file" ELSE "discover"

\* Mutants: apply goes on past a failing target; status adds its codes up.
ReturnGoesOn(d, c) ==
  LET p == proc[d]
      stop == Len(p.left) = 1
  IN /\ lock' = Unlocked(d)
     /\ proc' = [proc EXCEPT ![d] = [p EXCEPT !.pc = IF stop THEN "done" ELSE FirstStep(p.step),
                                              !.left = IF stop THEN <<>> ELSE Tail(p.left),
                                              !.plan = {}, !.found = Idle.found, !.code = c]]
ReturnAddsUp(d, c) ==
  LET p == proc[d]
      stop == Len(p.left) = 1 \/ (p.step \in {"apply", "dry"} /\ c # 0)
  IN /\ lock' = Unlocked(d)
     /\ proc' = [proc EXCEPT ![d] = [p EXCEPT !.pc = IF stop THEN "done" ELSE FirstStep(p.step),
                                              !.left = IF stop THEN <<>> ELSE Tail(p.left),
                                              !.plan = {}, !.found = Idle.found, !.code = @ + c]]
\* A command returns code c for one target: the lock is released, and
\* init_service goes on to the next target or exits.
Return(d, c) ==
  LET p == proc[d]
      code == IF p.step = "status" /\ p.code # 0 THEN p.code ELSE c
      stop == Len(p.left) = 1 \/ (p.step \in {"apply", "dry"} /\ c # 0)
  IN /\ lock' = Unlocked(d)
     /\ proc' = [proc EXCEPT ![d] = [p EXCEPT !.pc = IF stop THEN "done" ELSE FirstStep(p.step),
                                              !.left = IF stop THEN <<>> ELSE Tail(p.left),
                                              !.plan = {}, !.found = Idle.found, !.code = code]]

Goto(d, pc) == proc' = [proc EXCEPT ![d].pc = pc] /\ UNCHANGED lock

\* init_service: resolve_targets, _select_targets: one target, or, for apply and status, all;
\* apply and baseline take --to.
Start(d) ==
  /\ proc[d].pc \in {"idle", "done"}
  /\ starts < MaxStarts
  /\ starts' = starts + 1
  /\ \E step \in Steps : \E to \in IF step \in {"apply", "dry", "baseline"} THEN Limits ELSE {NoLimit} :
       \E left \in {<<t>> : t \in TargetSet} \cup IF step \in {"apply", "dry", "status"} THEN {Targets} ELSE {} :
         proc' = [proc EXCEPT ![d] =
                   IF SharedTracking THEN [Idle EXCEPT !.pc = "done"]
                   ELSE [Idle EXCEPT !.pc = FirstStep(step), !.step = step, !.to = to,
                                     !.sel = Range(left), !.left = left, !.code = 0]]
  /\ UNCHANGED <<tracking, files, rows, lock, edits, faults, history>>

\* Mutant: no lock.
LockIgnored(d) ==
  /\ proc[d].pc = "lock"
  /\ proc' = [proc EXCEPT ![d].pc = "discover"]
  /\ UNCHANGED <<tracking, files, rows, lock, budgets, history>>

\* Tracker.lock: waits for the session-level lock of the database.
Lock(d) ==
  /\ proc[d].pc = "lock"
  /\ lock[Database(Target(d))] = NoOne
  /\ lock' = [lock EXCEPT ![Database(Target(d))] = d]
  /\ proc' = [proc EXCEPT ![d].pc = "discover"]
  /\ UNCHANGED <<tracking, files, rows, budgets, history>>

\* discover: the listing is taken, files are read; sql and checksum are used from memory later.
Discover(d) ==
  /\ proc[d].pc = "discover"
  /\ LET f == Directory(d)
     IN IF \E n \in Known(f) : f[n] \in Malformed THEN Return(d, 1)
        ELSE /\ proc' = [proc EXCEPT ![d].pc = "rows", ![d].found = f,
                                     ![d].seen = @ \cup ({Target(d)} \X (Known(f) \cup {0}))]
             /\ UNCHANGED lock
  /\ UNCHANGED <<tracking, files, rows, budgets, history>>

Advise(d, ns) == advice' = [advice EXCEPT ![Target(d)] = @ \cup ns]

\* cmd_apply after _load_states: blocked, unknown --to, nothing to do, refused by the scan, dry run.
ApplyLoads(d) ==
  LET p == proc[d]
      r == rows[Table(Target(d))]
      queue == Queue(p.found, Pending(p.found, r), p.to)
      blocked == Blocking(p.found, r)
      unknown == p.to # NoLimit /\ p.to \notin Known(p.found)
      rejected == \E e \in queue : e.content \in Refused
      go == blocked = {} /\ ~unknown /\ queue # {} /\ ~rejected /\ p.step = "apply"
  IN /\ p.step \in {"apply", "dry"}
     /\ Advise(d, {n \in blocked : p.found[n] = Absent})
     /\ IF go THEN /\ proc' = [proc EXCEPT ![d] = [p EXCEPT !.pc = "run", !.plan = queue]]
                   /\ UNCHANGED lock
        ELSE Return(d, IF blocked # {} \/ unknown \/ rejected THEN 1 ELSE 0)

\* cmd_baseline after _load_states; no blocking() guard.  The operator's answers are
\* any subset of the candidates, or `q`.
BaselineLoads(d) ==
  LET p == proc[d]
      candidates == Queue(p.found, Pending(p.found, rows[Table(Target(d))]), p.to)
      unknown == p.to # NoLimit /\ p.to \notin Known(p.found)
  IN /\ p.step = "baseline"
     /\ UNCHANGED advice
     /\ IF unknown THEN Return(d, 1)
        ELSE IF candidates = {} THEN Return(d, 0)
        ELSE \/ Return(d, 1)
             \/ /\ \E chosen \in SUBSET candidates :
                     proc' = [proc EXCEPT ![d] = [p EXCEPT !.pc = "stamp", !.plan = chosen]]
                /\ UNCHANGED lock

\* cmd_status --check: reads without the lock.
StatusLoads(d) ==
  LET p == proc[d]
      r == rows[Table(Target(d))]
  IN /\ p.step = "status"
     /\ UNCHANGED advice
     /\ Return(d, IF Pending(p.found, r) \cup Blocking(p.found, r) # {} THEN 1 ELSE 0)

\* applied_rows: the states are computed from the listing in memory and the rows of now.
ReadRows(d) ==
  /\ proc[d].pc = "rows"
  /\ ApplyLoads(d) \/ BaselineLoads(d) \/ StatusLoads(d)
  /\ UNCHANGED <<tracking, files, rows, budgets, ran, ranAs, stamped>>

\* tracker.record: INSERT under the UNIQUE constraint on name.
Free(k, e) == rows[k][e.name] = Absent
\* Mutant: the checksum of the file as it is on disk when the row is written.
RecordedFresh(d, e) == [rows EXCEPT ![Table(Target(d))][e.name] = Directory(d)[e.name]]
Recorded(d, e) == [rows EXCEPT ![Table(Target(d))][e.name] = e.content]
Executed(t, e, how) ==
  /\ ran' = IF how = "tx" THEN [ran EXCEPT ![t][e.name].tx = @ + 1] ELSE [ran EXCEPT ![t][e.name].out = @ + 1]
  /\ ranAs' = [ranAs EXCEPT ![t] = @ \cup {<<e.name, e.content>>}]

NextFile(d) ==
  LET p == proc[d]
      rest == p.plan \ {First(p.plan)}
  IN IF rest = {} THEN Return(d, 0)
     ELSE proc' = [proc EXCEPT ![d] = [p EXCEPT !.pc = "run", !.plan = rest]] /\ UNCHANGED lock

\* One transaction: the file, the foreign key check and the tracking row.
ApplyFile(d) ==
  LET p == proc[d]
      t == Target(d)
      e == First(p.plan)
  IN /\ p.pc = "run"
     /\ e.content \notin NoTransaction
     /\ IF Free(Table(t), e)
        THEN Executed(t, e, "tx") /\ rows' = Recorded(d, e) /\ NextFile(d)
        ELSE Return(d, 1) /\ UNCHANGED <<ran, ranAs, rows>>
     /\ UNCHANGED <<tracking, files, budgets, stamped, advice>>

\* A file without a transaction takes effect before it is recorded.
ExecuteOutside(d) ==
  LET e == First(proc[d].plan)
  IN /\ proc[d].pc = "run"
     /\ e.content \in NoTransaction
     /\ Executed(Target(d), e, "out")
     /\ Goto(d, "record")
     /\ UNCHANGED <<tracking, files, rows, budgets, stamped, advice>>

RecordOutside(d) ==
  LET e == First(proc[d].plan)
      k == Table(Target(d))
  IN /\ proc[d].pc = "record"
     /\ IF Free(k, e) THEN rows' = Recorded(d, e) /\ NextFile(d)
        ELSE Return(d, 1) /\ UNCHANGED rows
     /\ UNCHANGED <<tracking, files, budgets, history>>

\* The SQL, or the foreign key check, fails: rolled back, or (outside) landed in part.
FileFails(d) ==
  LET e == First(proc[d].plan)
  IN /\ proc[d].pc \in {"run", "record"}
     /\ faults < MaxFaults
     /\ faults' = faults + 1
     /\ Return(d, 1)
     /\ IF proc[d].pc = "run" /\ e.content \in NoTransaction THEN Executed(Target(d), e, "out")
        ELSE UNCHANGED <<ran, ranAs>>
     /\ UNCHANGED <<tracking, files, rows, starts, edits, stamped, advice>>

\* One transaction for every chosen row.
Stamp(d) ==
  LET p == proc[d]
      k == Table(Target(d))
      chosen == p.plan
  IN /\ p.pc = "stamp"
     /\ IF \A e \in chosen : Free(k, e)
        THEN /\ rows' = [rows EXCEPT ![k] = [n \in Names |->
                           IF \E e \in chosen : e.name = n THEN p.found[n] ELSE @[n]]]
             /\ stamped' = [stamped EXCEPT ![Target(d)] = @ \cup {<<e.name, e.content>> : e \in chosen}]
             /\ Return(d, 0)
        ELSE Return(d, 1) /\ UNCHANGED <<rows, stamped>>
     /\ UNCHANGED <<tracking, files, budgets, ran, ranAs, advice>>

\* cmd_repair takes no lock: it reads the file ...
RepairReads(d) ==
  LET f == Directory(d)
  IN /\ proc[d].pc = "file"
     /\ \/ \E n \in Known(f) : /\ f[n] \notin Malformed
                               /\ proc' = [proc EXCEPT ![d].pc = "update",
                                                       ![d].plan = {[name |-> n, content |-> f[n]]}]
                               /\ UNCHANGED lock
        \/ (\E n \in Names : f[n] \in Malformed \cup {Absent}) /\ Return(d, 1)
     /\ UNCHANGED <<tracking, files, rows, budgets, history>>

\* ... and updates the row, if there is one.
RepairUpdates(d) ==
  LET e == First(proc[d].plan)
      k == Table(Target(d))
  IN /\ proc[d].pc = "update"
     /\ IF Free(k, e) THEN Return(d, 1) /\ UNCHANGED <<rows, stamped>>
        ELSE /\ rows' = Recorded(d, e)
             /\ stamped' = [stamped EXCEPT ![Target(d)] = @ \cup {<<e.name, e.content>>}]
             /\ Return(d, 0)
     /\ UNCHANGED <<tracking, files, budgets, ran, ranAs, advice>>

\* An interrupt, a lost connection or the death of the process: the transaction is rolled
\* back, the session and with it the lock are gone, the exit code is not 0.
Dies(d) ==
  /\ proc[d].pc \notin {"idle", "done"}
  /\ faults < MaxFaults
  /\ faults' = faults + 1
  /\ lock' = Unlocked(d)
  /\ proc' = [proc EXCEPT ![d] = [Idle EXCEPT !.pc = "done", !.step = proc[d].step]]
  /\ UNCHANGED <<tracking, files, rows, starts, edits, history>>

\* cmd_new never overwrites a file.
CmdNew(x, t, n) ==
  /\ edits < MaxEdits
  /\ files[x][t][n] = Absent
  /\ files' = [files EXCEPT ![x][t][n] = Template]
  /\ edits' = edits + 1
  /\ UNCHANGED <<tracking, rows, lock, proc, starts, faults, history>>

\* A developer, or a pull, changes a directory.
Edit(x, t, n, c) ==
  /\ edits < MaxEdits
  /\ files[x][t][n] # c
  /\ files' = [files EXCEPT ![x][t][n] = c]
  /\ edits' = edits + 1
  /\ UNCHANGED <<tracking, rows, lock, proc, starts, faults, history>>

Work(d) == \/ Lock(d) \/ Discover(d) \/ ReadRows(d) \/ ApplyFile(d) \/ ExecuteOutside(d) \/ RecordOutside(d)
           \/ Stamp(d) \/ RepairReads(d) \/ RepairUpdates(d)

Next ==
  \/ \E d \in Deployers : Start(d) \/ Work(d) \/ FileFails(d) \/ Dies(d)
  \/ \E x \in Checkouts, t \in TargetSet, n \in Names :
       CmdNew(x, t, n) \/ \E c \in Contents \cup {Absent} : Edit(x, t, n, c)

Spec == Init /\ [][Next]_vars
FairSpec == Spec /\ \A d \in Deployers : WF_vars(Work(d))

-----------------------------------------------------------------------------
(* Correctness *)

\* Every variable keeps its type.
TypeOK ==
  /\ tracking \in Configs
  /\ files \in [Checkouts -> [TargetSet -> [Names -> Contents \cup {Absent}]]]
  /\ rows \in [Tables -> [Names -> Contents \cup {Absent}]]
  /\ lock \in [Databases -> Deployers \cup {NoOne}]
  /\ ran \in [TargetSet -> [Names -> [tx : Nat, out : Nat]]]
  /\ \A d \in Deployers : /\ proc[d].code \in {0, 1}
                          /\ proc[d].seen \subseteq TargetSet \X (Names \cup {0})

\* A migration's transaction commits once per target whoever runs apply, and all its
\* executions together exceed one only by the number of failures and deaths: a file
\* without a transaction is run again only after one of them (apply, commands.py 263-277).
RunsOnce ==
  \A t \in TargetSet, n \in Names :
    /\ ran[t][n].tx <= 1
    /\ ran[t][n].tx + ran[t][n].out <= 1 + faults

\* "A file either fully lands and is recorded, or neither": a row carries a content that
\* was executed, stamped or repaired, and what a transaction executed has its row.
RecordedIsTrue ==
  \A t \in TargetSet, n \in Names :
    LET c == rows[Table(t)][n]
    IN /\ c # Absent => <<n, c>> \in ranAs[t] \cup stamped[t]
       /\ ran[t][n].tx = 1 => c # Absent

\* Exit code 0 of an apply without --to, or of status --check, means that every target
\* asked for was visited and that every file found there is recorded (init_service's "silent
\* success is the one outcome this tool must never produce").
SuccessMeansApplied ==
  \A d \in Deployers :
    LET p == proc[d]
    IN p.pc = "done" /\ p.code = 0 /\ (p.step = "status" \/ (p.step = "apply" /\ p.to = NoLimit))
         => \A t \in p.sel :
              /\ <<t, 0>> \in p.seen
              /\ \A n \in Names : <<t, n>> \in p.seen => rows[Table(t)][n] # Absent

\* What a command reports by its exit code is true.
AnswersTrue == TypeOK /\ SuccessMeansApplied

\* _reject_shared_tracking_tables: what apply tells the operator to DELETE is a row of the
\* target it works on, written when that target's file ran or was stamped or repaired, and
\* never the row of a migration that another target applied.
AdviceIsOwn ==
  \A t \in TargetSet : \A n \in advice[t] : \E c \in Contents : <<n, c>> \in ranAs[t] \cup stamped[t]

\* The lock is taken before the directory is listed: from the listing of apply or baseline
\* to its last row nobody else adds a row to the target's table, so what apply reports
\* MISSING was recorded before its own checkout was listed without the file.
ListingHolds ==
  [][\A d \in Deployers :
       proc[d].pc \in {"rows", "run", "record", "stamp"} /\ proc[d].step # "status" /\ proc'[d] = proc[d]
         => \A n \in Names : rows[Table(Target(d))][n] = Absent => rows'[Table(Target(d))][n] = Absent]_vars

\* A file is executed only when every earlier file of the same listing is recorded,
\* although rows may have been written by others since the listing was read.
InOrder ==
  [][\A d \in Deployers :
       proc[d].pc = "run" /\ ran' # ran /\ proc'[d] # proc[d]
         => \A m \in Known(proc[d].found) :
              m < First(proc[d].plan).name => rows[Table(Target(d))][m] # Absent]_vars

\* A command that waits for the lock gets it and ends, however many others run and die:
\* nobody keeps a lock past its target, and no process waits for itself.
CommandsEnd == \A d \in Deployers : proc[d].pc = "lock" ~> proc[d].pc = "done"
=============================================================================
