--------------------------- MODULE MigrationsProofs ---------------------------
(***************************************************************************)
(* What the migration runner promises, for every number of deployers,      *)
(* targets, checkouts and files: a file takes effect once, an exit code of *)
(* 0 can be trusted, files run in order, and the listing a command works   *)
(* from stays true; and, when no database goes by two names, a row is a    *)
(* true record and the advice to DELETE one is about the target's own.     *)
(***************************************************************************)
EXTENDS Migrations, TLAPS, WellFoundedInduction

Locking == {"apply", "dry", "baseline"}
AllSteps == Locking \cup {"repair", "status"}
Reading == {"rows", "run", "record", "stamp"}     \* a listing is in memory
Under == Reading \cup {"discover"}
Entry == [name : Names, content : Contents]
Listing == [Names -> Contents \cup {Absent}]
Proc == [pc : {"idle", "done", "lock", "file", "update"} \cup Under, step : AllSteps, to : Nat,
         sel : SUBSET TargetSet, left : Seq(TargetSet),
         found : Listing, plan : SUBSET Entry, code : {0, 1}, seen : SUBSET (TargetSet \X (Names \cup {0}))]

Typed ==
  /\ tracking \in Configs
  /\ files \in [Checkouts -> [TargetSet -> Listing]]
  /\ rows \in [Tables -> Listing]
  /\ lock \in [Databases -> Deployers \cup {NoOne}]
  /\ proc \in [Deployers -> Proc]
  /\ faults \in Nat
  /\ ran \in [TargetSet -> [Names -> [tx : Nat, out : Nat]]]
  /\ ranAs \in [TargetSet -> SUBSET (Names \X Contents)]
  /\ stamped \in [TargetSet -> SUBSET (Names \X Contents)]
  /\ advice \in [TargetSet -> SUBSET Names]

Missing(t, n) == rows[Table(t)][n] = Absent

\* Which command is at which step; a process that works has a target, and targets that do
\* not share a table.
Shaped(d) ==
  LET p == proc[d]
  IN /\ p.pc \notin {"idle", "done"} =>
          /\ p.left # <<>> /\ ~SharedTracking
          /\ \A i, j \in DOMAIN p.left : p.left[i] = p.left[j] => i = j
     /\ p.pc \in {"idle", "done"} => p.left = <<>>
     /\ p.pc \notin {"idle", "done"} /\ p.step = "apply" => p.code = 0
     /\ p.pc = "lock" => p.step \in Locking
     /\ p.pc \in {"discover", "rows"} => p.step \in Locking \cup {"status"}
     /\ p.pc \in {"run", "record"} => p.step = "apply"
     /\ p.pc = "stamp" => p.step = "baseline"
     /\ p.pc \in {"file", "update"} => p.step = "repair"
     /\ p.pc \in {"run", "record", "update"} => p.plan # {}

\* It holds the lock of its target's database.
Holds(d) == proc[d].pc \in Under /\ proc[d].step \in Locking => lock[Database(Target(d))] = d

\* What apply is about to run is pending still, and what it is not about to run is recorded,
\* or beyond --to.
Planned(d) ==
  LET p == proc[d]
  IN /\ p.pc \in {"run", "record", "stamp"} => \A e \in p.plan : e.content = p.found[e.name]
     /\ p.pc \in {"run", "record"} =>
          /\ \A e \in p.plan : Missing(Target(d), e.name) /\ (p.to = NoLimit \/ e.name <= p.to)
          /\ \A n \in Known(p.found) : Missing(Target(d), n) /\ (p.to = NoLimit \/ n <= p.to) =>
               \E e \in p.plan : e.name = n
     /\ p.pc = "record" => <<First(p.plan).name, First(p.plan).content>> \in ranAs[Target(d)]

\* Of the targets still to do, only the one in hand was looked at.
Looked(d) ==
  LET p == proc[d]
  IN /\ \A t \in Range(p.left) : \A n \in Names \cup {0} : <<t, n>> \in p.seen =>
          t = Head(p.left) /\ p.pc \in Reading /\ n \in Known(p.found) \cup {0}
     /\ p.pc \in Reading => <<Target(d), 0>> \in p.seen

\* Of the others a success was reported, which still is one.
Settled(d) ==
  LET p == proc[d]
  IN p.code = 0 /\ (p.step = "status" \/ (p.step = "apply" /\ p.to = NoLimit)) =>
       \A t \in p.sel : t \notin Range(p.left) =>
         /\ <<t, 0>> \in p.seen
         /\ \A n \in Names : <<t, n>> \in p.seen => ~Missing(t, n)

\* Every execution but one was paid for with a fault, and that one is recorded or about to be.
Recording(t, n) == \E d \in Deployers : proc[d].pc = "record" /\ Target(d) = t /\ First(proc[d].plan).name = n
Paid ==
  \A t \in TargetSet, n \in Names :
    /\ ran[t][n].tx <= 1
    /\ Missing(t, n) => ran[t][n].tx = 0
    /\ Missing(t, n) /\ ~Recording(t, n) => ran[t][n].tx + ran[t][n].out <= faults
    /\ ran[t][n].tx + ran[t][n].out <= faults + 1

\* Tables of their own, and what they tell: these rest on the names of the databases.
RowsTrue ==
  NoAliases => \A t \in TargetSet, n \in Names : ~Missing(t, n) =>
                 ~SharedTracking /\ <<n, rows[Table(t)][n]>> \in ranAs[t] \cup stamped[t]
Advised == NoAliases => AdviceIsOwn

DeployerInv(d) == Shaped(d) /\ Holds(d) /\ Planned(d) /\ Looked(d) /\ Settled(d)
Inv == Typed /\ (\A d \in Deployers : DeployerInv(d)) /\ Paid /\ RowsTrue /\ Advised

-----------------------------------------------------------------------------
(* Operators *)

LEMMA FirstIsLeast ==
  ASSUME NEW plan \in SUBSET Entry, plan # {}
  PROVE  First(plan) \in plan /\ \A other \in plan : First(plan).name <= other.name
<1> DEFINE T == {e.name : e \in plan}
<1>0. Names \subseteq Nat
  BY MigrationAssumption DEF MigrationAssumption
<1>1. T \subseteq Nat /\ T # {}
  BY <1>0 DEF Entry
<1>2. \E x \in T : \A y \in T : ~(<<y, x>> \in OpToRel(<, Nat))
  <2> HIDE DEF T
  <2> QED
    BY <1>1, NatLessThanWellFounded, WFMin
<1>3. PICK x \in T : \A y \in T : ~(<<y, x>> \in OpToRel(<, Nat))
  BY <1>2
<1>4. \A y \in T : ~(y < x)
  <2> HIDE DEF T
  <2> QED
    BY <1>1, <1>3 DEF OpToRel
<1>5. PICK e \in plan : e.name = x
  BY <1>3
<1>6. \A other \in plan : other.name \in Nat /\ ~(other.name < x)
  BY <1>1, <1>4
<1>7. \A other \in plan : e.name <= other.name
  BY <1>5, <1>6
<1> QED
  BY <1>7 DEF First

LEMMA TargetsTyped == TargetSet = Range(Targets) /\ \A i \in DOMAIN Targets : Targets[i] \in TargetSet
BY DEF TargetSet, Range

\* What _reject_shared_tracking_tables gives.
LEMMA TablesApart ==
  ASSUME Typed, NoAliases, ~SharedTracking, NEW t \in TargetSet, NEW u \in TargetSet, Table(t) = Table(u)
  PROVE  t = u
<1>0. tracking[t] = tracking[u]
  <2>1. tracking[t][1] \in Identities /\ tracking[u][1] \in Identities
    BY DEF Typed, Identities
  <2>2. Physical[tracking[t][1]] = Physical[tracking[u][1]] /\ tracking[t][2] = tracking[u][2]
    BY DEF Table, Database
  <2>3. tracking[t][1] = tracking[u][1]
    BY <2>1, <2>2 DEF NoAliases
  <2>4. tracking[t] = <<tracking[t][1], tracking[t][2]>> /\ tracking[u] = <<tracking[u][1], tracking[u][2]>>
    BY MigrationAssumption DEF MigrationAssumption, Typed
  <2> QED
    BY <2>2, <2>3, <2>4
<1>1. PICK i \in DOMAIN Targets : Targets[i] = t
  BY DEF TargetSet, Range
<1>2. PICK j \in DOMAIN Targets : Targets[j] = u
  BY DEF TargetSet, Range
<1>3. DOMAIN Targets \subseteq Nat
  BY MigrationAssumption DEF MigrationAssumption
<1>4. i = j \/ i < j \/ j < i
  BY <1>3
<1> QED
  BY <1>0, <1>1, <1>2, <1>4 DEF SharedTracking

LEMMA TargetsDiffer ==
  ASSUME ~SharedTracking
  PROVE  \A i, j \in DOMAIN Targets : Targets[i] = Targets[j] => i = j
<1>1. DOMAIN Targets \subseteq Nat
  BY MigrationAssumption DEF MigrationAssumption
<1> QED
  BY <1>1 DEF SharedTracking

LEMMA TableTyped ==
  ASSUME Typed, NEW t \in TargetSet
  PROVE  Table(t) \in Tables /\ Database(t) \in Databases /\ Database(t) = Table(t)[1]
<1>1. Table(t) \in Tables
  BY DEF Typed, Table, Database, Tables
<1>2. Table(t)[1] = Database(t)
  BY DEF Table
<1> QED
  BY <1>1, <1>2 DEF Databases

LEMMA TailParts ==
  ASSUME NEW s \in Seq(TargetSet), s # <<>>
  PROVE  /\ Head(s) \in TargetSet /\ Head(s) \in Range(s) /\ Tail(s) \in Seq(TargetSet)
         /\ Range(s) = {Head(s)} \cup Range(Tail(s)) /\ Range(s) \subseteq TargetSet
         /\ Len(s) = 1 => Range(s) = {Head(s)}
         /\ Len(s) # 1 => Tail(s) # <<>>
<1>1. Len(s) \in Nat \ {0} /\ DOMAIN s = 1..Len(s) /\ Head(s) = s[1] /\ \A i \in 1..Len(s) : s[i] \in TargetSet
  OBVIOUS
<1>2. /\ Tail(s) \in Seq(TargetSet) /\ Len(Tail(s)) = Len(s) - 1
      /\ \A i \in 1..Len(s) - 1 : Tail(s)[i] = s[i + 1]
  OBVIOUS
<1>3. DOMAIN Tail(s) = 1..Len(s) - 1
  BY <1>2
<1>4. Head(s) \in Range(s) /\ Range(s) \subseteq TargetSet
  BY <1>1 DEF Range
<1>5. Range(Tail(s)) \subseteq Range(s)
  <2> SUFFICES ASSUME NEW i \in 1..Len(s) - 1 PROVE Tail(s)[i] \in Range(s)
    BY <1>3 DEF Range
  <2>1. i + 1 \in DOMAIN s /\ Tail(s)[i] = s[i + 1]
    BY <1>1, <1>2
  <2> QED
    BY <2>1 DEF Range
<1>6. Range(s) \subseteq {Head(s)} \cup Range(Tail(s))
  <2> SUFFICES ASSUME NEW i \in 1..Len(s) PROVE s[i] \in {Head(s)} \cup Range(Tail(s))
    BY <1>1 DEF Range
  <2>1. CASE i = 1
    BY <1>1, <2>1
  <2>2. CASE i # 1
    <3>1. i - 1 \in 1..Len(s) - 1 /\ (i - 1) + 1 = i
      BY <1>1, <2>2
    <3>2. Tail(s)[i - 1] = s[i]
      BY <1>2, <3>1
    <3> QED
      BY <1>3, <3>1, <3>2 DEF Range
  <2> QED
    BY <2>1, <2>2
<1>7. Len(s) # 1 => Tail(s) # <<>>
  <2>1. Len(s) # 1 => Len(Tail(s)) # 0
    BY <1>1, <1>2
  <2>2. Len(<<>>) = 0
    OBVIOUS
  <2> QED
    BY <2>1, <2>2
<1>8. Len(s) = 1 => Range(s) = {Head(s)}
  BY <1>1 DEF Range
<1> QED
  BY <1>1, <1>2, <1>4, <1>5, <1>6, <1>7, <1>8

LEMMA TailDiffers ==
  ASSUME NEW s \in Seq(TargetSet), s # <<>>, \A i, j \in DOMAIN s : s[i] = s[j] => i = j
  PROVE  /\ Head(s) \notin Range(Tail(s))
         /\ \A i, j \in DOMAIN Tail(s) : Tail(s)[i] = Tail(s)[j] => i = j
<1>1. Len(s) \in Nat \ {0} /\ DOMAIN s = 1..Len(s) /\ Head(s) = s[1]
  OBVIOUS
<1>2. /\ DOMAIN Tail(s) = 1..Len(s) - 1
      /\ \A i \in 1..Len(s) - 1 : Tail(s)[i] = s[i + 1]
  OBVIOUS
<1>3. \A i \in 1..Len(s) - 1 : i + 1 \in DOMAIN s /\ i + 1 # 1 /\ 1 \in DOMAIN s
  BY <1>1
<1>4. ASSUME NEW i \in DOMAIN Tail(s) PROVE Tail(s)[i] # Head(s)
  BY <1>1, <1>2, <1>3
<1>5. ASSUME NEW i \in DOMAIN Tail(s), NEW j \in DOMAIN Tail(s), Tail(s)[i] = Tail(s)[j] PROVE i = j
  <2>1. i \in Nat /\ j \in Nat /\ i + 1 = j + 1
    BY <1>1, <1>2, <1>3, <1>5
  <2> QED
    BY <2>1
<1> QED
  BY <1>4, <1>5 DEF Range

-----------------------------------------------------------------------------
(* A step seen by the others *)

RowsGrow == \A t \in TargetSet, n \in Names : Missing(t, n)' => Missing(t, n)

\* What deployer o can rely on while somebody else takes a step.
Undisturbed(o) ==
  /\ proc'[o] = proc[o] /\ tracking' = tracking
  /\ \A b \in Databases : lock[b] = o => lock'[b] = o
  /\ RowsGrow
  /\ \A t \in TargetSet, n \in Names : lock[Database(t)] = o /\ Missing(t, n) => Missing(t, n)'
  /\ \A t \in TargetSet : ranAs[t] \subseteq ranAs'[t]

LEMMA TargetTyped ==
  ASSUME Typed, NEW d \in Deployers, Shaped(d), proc[d].pc \notin {"idle", "done"}
  PROVE  /\ proc[d] \in Proc /\ proc[d].left \in Seq(TargetSet) /\ proc[d].left # <<>>
         /\ Target(d) \in TargetSet /\ Target(d) = Head(proc[d].left)
         /\ Table(Target(d)) \in Tables /\ Database(Target(d)) \in Databases
<1>1. proc[d] \in Proc /\ proc[d].left \in Seq(TargetSet) /\ proc[d].left # <<>>
  BY DEF Typed, Proc, Shaped
<1>2. Target(d) \in TargetSet
  BY <1>1, TailParts DEF Target
<1> QED
  BY <1>1, <1>2, TableTyped DEF Target

LEMMA DirectoryTyped ==
  ASSUME Typed, NEW d \in Deployers, Shaped(d), proc[d].pc \notin {"idle", "done"}
  PROVE  Directory(d) \in Listing
<1>1. CheckoutOf[d] \in Checkouts
  BY MigrationAssumption DEF MigrationAssumption
<1> QED
  BY <1>1, TargetTyped DEF Typed, Directory, Shaped

LEMMA OthersKeep ==
  ASSUME Typed, NEW o \in Deployers, DeployerInv(o), Undisturbed(o)
  PROVE  DeployerInv(o)'
<1>1. proc'[o] = proc[o] /\ Target(o)' = Target(o) /\ proc[o] \in Proc /\ tracking' = tracking
  BY DEF Undisturbed, Target, Typed
<1>2. SharedTracking' <=> SharedTracking
  BY <1>1 DEF SharedTracking
<1>3. Shaped(o)'
  BY <1>1, <1>2 DEF DeployerInv, Shaped
<1>4. proc[o].pc \notin {"idle", "done"} => Target(o) \in TargetSet /\ Database(Target(o)) \in Databases
  BY TargetTyped DEF DeployerInv
<1>5. Holds(o)'
  BY <1>1, <1>4 DEF DeployerInv, Holds, Undisturbed, Database, Under, Reading
<1>6. Planned(o)'
  <2>1. CASE proc[o].pc \in {"run", "record"}
    <3>1. Target(o) \in TargetSet /\ lock[Database(Target(o))] = o /\ ranAs[Target(o)] \subseteq ranAs'[Target(o)]
      BY <1>4, <2>1 DEF DeployerInv, Holds, Shaped, Under, Reading, Locking, Undisturbed
    <3>2. \A n \in Names : Missing(Target(o), n)' <=> Missing(Target(o), n)
      BY <1>1, <3>1 DEF Undisturbed, RowsGrow, Missing, Table, Database
    <3>3. \A e \in proc[o].plan : e.name \in Names
      BY <1>1 DEF Proc, Entry
    <3> QED
      BY <1>1, <2>1, <3>1, <3>2, <3>3 DEF DeployerInv, Planned, Known
  <2>2. CASE proc[o].pc \notin {"run", "record"}
    BY <1>1, <2>2 DEF DeployerInv, Planned
  <2> QED
    BY <2>1, <2>2
<1>8. Looked(o)'
  BY <1>1 DEF DeployerInv, Looked, Known
<1>9. Settled(o)'
  <2>1. proc[o].sel \subseteq TargetSet
    BY <1>1 DEF Proc
  <2> QED
    BY <1>1, <2>1 DEF DeployerInv, Settled, Undisturbed, RowsGrow
<1> QED
  BY <1>3, <1>5, <1>6, <1>8, <1>9 DEF DeployerInv

-----------------------------------------------------------------------------
(* The end of a command for one target *)

OnlyMoves(d) == \A o \in Deployers : o # d => proc'[o] = proc[o]

\* Where Return leaves the process.
Ends(d, c) ==
  /\ proc'[d].step = proc[d].step /\ proc'[d].to = proc[d].to /\ proc'[d].seen = proc[d].seen
  /\ proc'[d].sel = proc[d].sel
  /\ proc'[d].plan = {} /\ proc'[d].found = Idle.found
  /\ proc'[d].code = IF proc[d].step = "status" /\ proc[d].code # 0 THEN proc[d].code ELSE c
  /\ \/ /\ proc'[d].pc = "done" /\ proc'[d].left = <<>>
        /\ Len(proc[d].left) = 1 \/ (proc[d].step \in {"apply", "dry"} /\ c # 0)
     \/ /\ proc'[d].pc = FirstStep(proc[d].step) /\ proc'[d].left = Tail(proc[d].left)
        /\ Len(proc[d].left) # 1 /\ (proc[d].step \in {"apply", "dry"} => c = 0)

LEMMA ReturnEffect ==
  ASSUME Typed, NEW d \in Deployers, NEW c, Return(d, c)
  PROVE  Ends(d, c) /\ OnlyMoves(d) /\ lock' = Unlocked(d)
<1> DEFINE p == proc[d]
           code == IF p.step = "status" /\ p.code # 0 THEN p.code ELSE c
           stop == Len(p.left) = 1 \/ (p.step \in {"apply", "dry"} /\ c # 0)
           q == [p EXCEPT !.pc = IF stop THEN "done" ELSE FirstStep(p.step),
                          !.left = IF stop THEN <<>> ELSE Tail(p.left),
                          !.plan = {}, !.found = Idle.found, !.code = code]
<1>1. lock' = Unlocked(d) /\ proc' = [proc EXCEPT ![d] = q]
  BY DEF Return
<1>2. proc'[d] = q /\ OnlyMoves(d)
  <2> HIDE DEF q
  <2> QED
    BY <1>1 DEF Typed, OnlyMoves
<1>3. p \in Proc
  BY DEF Typed
<1>4. /\ q.step = p.step /\ q.to = p.to /\ q.seen = p.seen /\ q.plan = {} /\ q.found = Idle.found /\ q.code = code
      /\ q.sel = p.sel
      /\ q.pc = (IF stop THEN "done" ELSE FirstStep(p.step)) /\ q.left = (IF stop THEN <<>> ELSE Tail(p.left))
  BY <1>3 DEF Proc
<1> HIDE DEF q
<1> QED
  BY <1>1, <1>2, <1>4 DEF Ends

LEMMA IdleTyped == Idle \in Proc /\ Idle.found \in Listing
BY DEF Idle, Proc, Listing, AllSteps, NoLimit, Locking

LEMMA ReturnTyped ==
  ASSUME Typed, NEW d \in Deployers, Shaped(d), proc[d].pc \notin {"idle", "done"}, NEW c \in {0, 1}, Return(d, c)
  PROVE  proc' \in [Deployers -> Proc] /\ lock' \in [Databases -> Deployers \cup {NoOne}]
<1> DEFINE p == proc[d]
           code == IF p.step = "status" /\ p.code # 0 THEN p.code ELSE c
           stop == Len(p.left) = 1 \/ (p.step \in {"apply", "dry"} /\ c # 0)
           q == [p EXCEPT !.pc = IF stop THEN "done" ELSE FirstStep(p.step),
                          !.left = IF stop THEN <<>> ELSE Tail(p.left),
                          !.plan = {}, !.found = Idle.found, !.code = code]
<1>1. lock' = Unlocked(d) /\ proc' = [proc EXCEPT ![d] = q]
  BY DEF Return
<1>2. p \in Proc /\ p.left \in Seq(TargetSet) /\ p.left # <<>>
  BY TargetTyped
<1>3. q \in Proc
  <2>1. FirstStep(p.step) \in {"lock", "file", "discover"}
    BY DEF FirstStep
  <2>2. (IF stop THEN "done" ELSE FirstStep(p.step)) \in {"idle", "done", "lock", "file", "update"} \cup Under
    BY <2>1 DEF Under
  <2>3. (IF stop THEN <<>> ELSE Tail(p.left)) \in Seq(TargetSet)
    BY <1>2, TailParts
  <2>4. code \in {0, 1}
    BY <1>2 DEF Proc
  <2>5. PICK pc, left : pc = (IF stop THEN "done" ELSE FirstStep(p.step)) /\ left = (IF stop THEN <<>> ELSE Tail(p.left))
    OBVIOUS
  <2>6. PICK a : a = [p EXCEPT !.pc = pc, !.left = left]
    OBVIOUS
  <2> HIDE DEF code, stop
  <2>7. a \in Proc
    BY <1>2, <2>2, <2>3, <2>5, <2>6 DEF Proc
  <2>8. q = [a EXCEPT !.plan = {}, !.found = Idle.found, !.code = code]
    BY <2>5, <2>6
  <2> HIDE DEF q
  <2> QED
    BY <2>4, <2>7, <2>8, IdleTyped DEF Proc
<1>4. proc' \in [Deployers -> Proc]
  <2> HIDE DEF q
  <2> QED
    BY <1>1, <1>3 DEF Typed
<1> QED
  BY <1>1, <1>4 DEF Typed, Unlocked

Reports(p) == p.step = "status" \/ (p.step = "apply" /\ p.to = NoLimit)

\* A success is returned only of a target all of whose files have a row.
Earned(d, c) ==
  c = 0 /\ Reports(proc[d]) => /\ proc[d].pc \in Reading
                               /\ \A n \in Known(proc[d].found) : rows'[Table(Target(d))][n] # Absent

LEMMA ReturnKeeps ==
  ASSUME Typed, NEW d \in Deployers, DeployerInv(d), proc[d].pc \notin {"idle", "done"}, NEW c \in {0, 1},
         Return(d, c), tracking' = tracking, RowsGrow, Earned(d, c)
  PROVE  DeployerInv(d)'
<1> DEFINE left == proc[d].left
<1>1. Ends(d, c)
  BY ReturnEffect
<1>2. /\ proc[d] \in Proc /\ left \in Seq(TargetSet) /\ left # <<>>
      /\ Target(d) \in TargetSet /\ Target(d) = Head(left)
  BY TargetTyped DEF DeployerInv
<1>3. \A i, j \in DOMAIN left : left[i] = left[j] => i = j
  BY DEF DeployerInv, Shaped
<1>4. /\ Range(left) = {Head(left)} \cup Range(Tail(left)) /\ Head(left) \notin Range(Tail(left))
      /\ \A i, j \in DOMAIN Tail(left) : Tail(left)[i] = Tail(left)[j] => i = j
      /\ Len(left) = 1 => Range(left) = {Head(left)}
      /\ Len(left) # 1 => Tail(left) # <<>>
  BY <1>2, <1>3, TailParts, TailDiffers
<1>5. SharedTracking' <=> SharedTracking
  BY DEF SharedTracking
<1>6. proc'[d].pc \in {"done", FirstStep(proc[d].step)} /\ FirstStep(proc[d].step) \in {"lock", "file", "discover"}
  BY <1>1 DEF Ends, FirstStep
<1>7. Range(<<>>) = {}
  BY DEF Range
<1> HIDE DEF left
<1>8. Shaped(d)'
  <2>1. CASE proc'[d].pc = "done"
    <3>1. proc'[d].left = <<>>
      BY <1>1, <1>6, <2>1 DEF Ends, FirstStep
    <3> QED
      BY <2>1, <3>1 DEF Shaped
  <2>2. CASE proc'[d].pc # "done"
    <3>1. /\ proc'[d].pc = FirstStep(proc[d].step) /\ proc'[d].left = Tail(left) /\ Tail(left) # <<>>
          /\ proc'[d].step = proc[d].step /\ (proc[d].step = "apply" => proc'[d].code = 0)
      BY <1>1, <1>4, <2>2 DEF Ends, left
    <3>2. ~SharedTracking
      BY DEF DeployerInv, Shaped
    <3>3. proc[d].step \in AllSteps
      BY <1>2 DEF Proc
    <3> QED
      BY <1>4, <1>5, <3>1, <3>2, <3>3 DEF Shaped, FirstStep, AllSteps, Locking
  <2> QED
    BY <2>1, <2>2
<1>9. Holds(d)'
  <2>1. proc'[d].pc \in Under => proc'[d].step \notin Locking
    BY <1>1, <1>6 DEF Ends, FirstStep, Under, Reading, Locking
  <2> QED
    BY <2>1 DEF Holds
<1>10. Planned(d)'
  BY <1>6 DEF Planned, Reading
<1>11. \A t \in Range(Tail(left)) : \A n \in Names \cup {0} : <<t, n>> \notin proc[d].seen
  <2> SUFFICES ASSUME NEW t \in Range(Tail(left)), NEW n \in Names \cup {0}, <<t, n>> \in proc[d].seen
               PROVE  FALSE
    OBVIOUS
  <2>1. t \in Range(proc[d].left) /\ t # Head(proc[d].left)
    BY <1>4 DEF left
  <2> QED
    BY <2>1 DEF DeployerInv, Looked
<1>12. Looked(d)'
  <2>1. proc'[d].left = Tail(left) \/ proc'[d].left = <<>>
    BY <1>1 DEF Ends, left
  <2>2. proc'[d].seen = proc[d].seen /\ proc'[d].pc \notin Reading
    BY <1>1, <1>6 DEF Ends, Reading
  <2> QED
    BY <1>7, <1>11, <2>1, <2>2 DEF Looked
<1>13. Settled(d)'
  <2> SUFFICES ASSUME proc'[d].code = 0, Reports(proc[d]), NEW t \in proc[d].sel, t \notin Range(proc'[d].left)
               PROVE  /\ <<t, 0>> \in proc[d].seen
                      /\ \A n \in Names : <<t, n>> \in proc[d].seen => ~Missing(t, n)'
    BY <1>1 DEF Settled, Ends, Reports
  <2>0. t \in TargetSet
    BY <1>2 DEF Proc
  <2>1. c = 0 /\ proc[d].code = 0
    BY <1>1 DEF Ends, Reports, DeployerInv, Shaped
  <2>2. \A u \in TargetSet : u \notin Range(left) => u # Head(left)
    BY <1>4
  <2>3. CASE t \notin Range(left)
    BY <2>0, <2>1, <2>3 DEF DeployerInv, Settled, Reports, RowsGrow, left
  <2>4. CASE t \in Range(left)
    <3>1. t = Head(left)
      BY <1>1, <1>4, <1>6, <2>1, <2>4 DEF Ends, left, FirstStep
    <3>2. proc[d].pc \in Reading /\ <<t, 0>> \in proc[d].seen
      BY <1>2, <2>1, <3>1 DEF Earned, DeployerInv, Looked, left
    <3>3. ASSUME NEW n \in Names, <<t, n>> \in proc[d].seen PROVE rows'[Table(t)][n] # Absent
      <4>1. n # 0
        BY MigrationAssumption DEF MigrationAssumption
      <4>2. n \in Known(proc[d].found)
        BY <2>4, <3>3, <4>1 DEF DeployerInv, Looked, left
      <4> QED
        BY <1>2, <2>1, <3>1, <4>2 DEF Earned, left
    <3> QED
      BY <3>2, <3>3 DEF Missing, Table, Database
  <2> QED
    BY <2>3, <2>4
<1> QED
  BY <1>8, <1>9, <1>10, <1>12, <1>13 DEF DeployerInv

-----------------------------------------------------------------------------
(* Putting a step together *)

\* Deployer d takes a step: it locks what is free and unlocks what is its own, and gives a
\* row to a file only in a database it has locked.
StepOf(d) ==
  /\ OnlyMoves(d) /\ tracking' = tracking
  /\ \A b \in Databases : lock[b] \notin {d, NoOne} => lock'[b] = lock[b]
  /\ RowsGrow
  /\ \A t \in TargetSet, n \in Names : Missing(t, n) /\ ~Missing(t, n)' => lock[Database(t)] = d
  /\ \A t \in TargetSet : ranAs[t] \subseteq ranAs'[t]

LEMMA StepKeepsOthers ==
  ASSUME Inv, NEW d \in Deployers, StepOf(d)
  PROVE  \A o \in Deployers : o # d => DeployerInv(o)'
<1> SUFFICES ASSUME NEW o \in Deployers, o # d PROVE DeployerInv(o)'
  OBVIOUS
<1>1. o # NoOne
  BY MigrationAssumption DEF MigrationAssumption
<1>2. Undisturbed(o)
  BY <1>1 DEF Undisturbed, StepOf, OnlyMoves
<1> QED
  BY <1>2, OthersKeep DEF Inv

LEMMA Assemble ==
  ASSUME Inv, NEW d \in Deployers, StepOf(d), DeployerInv(d)', Typed', Paid', RowsTrue', Advised'
  PROVE  Inv'
BY StepKeepsOthers DEF Inv

LEMMA UnlockedOthers ==
  ASSUME NEW d
  PROVE  \A b \in Databases : lock[b] \notin {d, NoOne} => Unlocked(d)[b] = lock[b]
BY DEF Unlocked

LEMMA SameTables ==
  ASSUME UNCHANGED <<tracking, rows>>
  PROVE  RowsGrow /\ \A t \in TargetSet, n \in Names : Missing(t, n)' <=> Missing(t, n)
BY DEF RowsGrow, Missing, Table, Database

LEMMA RecordingKept ==
  ASSUME NEW d \in Deployers, OnlyMoves(d), NEW t, NEW n, Recording(t, n)
  PROVE  Recording(t, n)' \/ (proc[d].pc = "record" /\ Target(d) = t /\ First(proc[d].plan).name = n)
<1>1. PICK o \in Deployers : proc[o].pc = "record" /\ Target(o) = t /\ First(proc[o].plan).name = n
  BY DEF Recording
<1>2. CASE o = d
  BY <1>1, <1>2
<1>3. CASE o # d
  <2>1. proc'[o] = proc[o] /\ Target(o)' = Target(o)
    BY <1>3 DEF OnlyMoves, Target
  <2> QED
    BY <1>1, <2>1 DEF Recording
<1> QED
  BY <1>2, <1>3

LEMMA PaidKept ==
  ASSUME Typed, Paid, ran' = ran, RowsGrow, faults' \in {faults, faults + 1},
         \A t \in TargetSet, n \in Names : Recording(t, n) =>
           Recording(t, n)' \/ ~Missing(t, n)' \/ faults' = faults + 1
  PROVE  Paid'
<1> SUFFICES ASSUME NEW t \in TargetSet, NEW n \in Names
             PROVE  /\ ran[t][n].tx <= 1
                    /\ Missing(t, n)' => ran[t][n].tx = 0
                    /\ Missing(t, n)' /\ ~Recording(t, n)' => ran[t][n].tx + ran[t][n].out <= faults'
                    /\ ran[t][n].tx + ran[t][n].out <= faults' + 1
  BY DEF Paid
<1>1. ran[t][n].tx \in Nat /\ ran[t][n].out \in Nat /\ faults \in Nat
  BY DEF Typed
<1>2. /\ ran[t][n].tx <= 1
      /\ Missing(t, n) => ran[t][n].tx = 0
      /\ Missing(t, n) /\ ~Recording(t, n) => ran[t][n].tx + ran[t][n].out <= faults
      /\ ran[t][n].tx + ran[t][n].out <= faults + 1
  BY DEF Paid
<1>3. Missing(t, n)' => Missing(t, n)
  BY DEF RowsGrow
<1>4. Missing(t, n)' /\ ~Recording(t, n)' => ~Recording(t, n) \/ faults' = faults + 1
  OBVIOUS
<1> QED
  BY <1>1, <1>2, <1>3, <1>4

LEMMA RowsTrueKept ==
  ASSUME RowsTrue, UNCHANGED <<tracking, rows>>,
         \A t \in TargetSet : ranAs[t] \subseteq ranAs'[t] /\ stamped[t] \subseteq stamped'[t]
  PROVE  RowsTrue'
<1>1. SharedTracking' <=> SharedTracking
  BY DEF SharedTracking
<1>2. \A t \in TargetSet : Table(t)' = Table(t)
  BY DEF Table, Database
<1> QED
  BY <1>1, <1>2, SameTables DEF RowsTrue

Untouched == UNCHANGED <<tracking, files, rows, ran, ranAs, stamped>>

\* A step of d that touches neither files nor tables.
LEMMA QuietStep ==
  ASSUME Inv, NEW d \in Deployers, OnlyMoves(d), Untouched, advice' \in [TargetSet -> SUBSET Names], Advised',
         \A b \in Databases : lock[b] \notin {d, NoOne} => lock'[b] = lock[b],
         lock' \in [Databases -> Deployers \cup {NoOne}], proc' \in [Deployers -> Proc],
         faults' \in {faults, faults + 1}, proc[d].pc = "record" => faults' = faults + 1,
         DeployerInv(d)'
  PROVE  Inv'
<1>1. Typed /\ Paid /\ RowsTrue
  BY DEF Inv
<1>2. RowsGrow /\ \A t \in TargetSet, n \in Names : Missing(t, n)' <=> Missing(t, n)
  BY SameTables DEF Untouched
<1>3. StepOf(d)
  BY <1>2 DEF StepOf, Untouched
<1>4. Typed'
  BY <1>1 DEF Typed, Untouched
<1>5. Paid'
  <2>1. \A t \in TargetSet, n \in Names : Recording(t, n) => Recording(t, n)' \/ faults' = faults + 1
    BY RecordingKept
  <2> QED
    BY <1>1, <1>2, <2>1, PaidKept DEF Untouched
<1>6. RowsTrue'
  BY <1>1, RowsTrueKept DEF Untouched
<1> QED
  BY <1>3, <1>4, <1>5, <1>6, Assemble

LEMMA QuietReturn ==
  ASSUME Inv, NEW d \in Deployers, proc[d].pc \notin {"idle", "done"}, NEW c \in {0, 1}, Return(d, c), Untouched,
         advice' \in [TargetSet -> SUBSET Names], Advised', Earned(d, c),
         faults' \in {faults, faults + 1}, proc[d].pc = "record" => faults' = faults + 1
  PROVE  Inv'
<1>1. Typed /\ DeployerInv(d) /\ Shaped(d)
  BY DEF Inv, DeployerInv
<1>2. RowsGrow /\ tracking' = tracking
  BY SameTables DEF Untouched
<1>3. DeployerInv(d)'
  BY <1>1, <1>2, ReturnKeeps
<1>4. OnlyMoves(d) /\ lock' = Unlocked(d) /\ proc' \in [Deployers -> Proc] /\ lock' \in [Databases -> Deployers \cup {NoOne}]
  BY <1>1, ReturnEffect, ReturnTyped
<1>5. \A b \in Databases : lock[b] \notin {d, NoOne} => lock'[b] = lock[b]
  BY <1>4, UnlockedOthers
<1> QED
  BY <1>3, <1>4, <1>5, QuietStep

LEMMA SameAdvice ==
  ASSUME Inv, advice' = advice,
         \A t \in TargetSet : ranAs[t] \subseteq ranAs'[t] /\ stamped[t] \subseteq stamped'[t]
  PROVE  advice' \in [TargetSet -> SUBSET Names] /\ Advised'
BY DEF Inv, Typed, Advised, AdviceIsOwn

-----------------------------------------------------------------------------
(* One lemma per action *)

LEMMA StartInv ==
  ASSUME Inv, NEW d \in Deployers, Start(d)
  PROVE  Inv'
<1>1. PICK step \in Steps, to \in Limits \cup {NoLimit} :
        \E left \in {<<t>> : t \in TargetSet} \cup IF step \in {"apply", "dry", "status"} THEN {Targets} ELSE {} :
          proc' = [proc EXCEPT ![d] =
                    IF SharedTracking THEN [Idle EXCEPT !.pc = "done"]
                    ELSE [Idle EXCEPT !.pc = FirstStep(step), !.step = step, !.to = to,
                                      !.sel = Range(left), !.left = left, !.code = 0]]
  <2>1. \A step \in Steps :
          (IF step \in {"apply", "dry", "baseline"} THEN Limits ELSE {NoLimit}) \subseteq Limits \cup {NoLimit}
    OBVIOUS
  <2> QED
    BY <2>1 DEF Start
<1>2. PICK left \in {<<t>> : t \in TargetSet} \cup {Targets} :
        proc' = [proc EXCEPT ![d] =
                  IF SharedTracking THEN [Idle EXCEPT !.pc = "done"]
                  ELSE [Idle EXCEPT !.pc = FirstStep(step), !.step = step, !.to = to,
                                    !.sel = Range(left), !.left = left, !.code = 0]]
  <2>1. (IF step \in {"apply", "dry", "status"} THEN {Targets} ELSE {}) \subseteq {Targets}
    OBVIOUS
  <2> QED
    BY <1>1, <2>1
<1>3. /\ step \in AllSteps /\ to \in Nat /\ FirstStep(step) \in {"lock", "file", "discover"}
      /\ (step \in Locking => FirstStep(step) = "lock") /\ (step = "repair" => FirstStep(step) = "file")
      /\ (step = "status" => FirstStep(step) = "discover")
  <2>1. Steps \subseteq AllSteps /\ Limits \subseteq Nat
    <3>1. Names \subseteq Nat /\ Limits \subseteq Names \cup {NoLimit}
      BY MigrationAssumption DEF MigrationAssumption
    <3>2. Steps \subseteq {"apply", "dry", "baseline", "repair", "status"}
      BY MigrationAssumption DEF MigrationAssumption
    <3> QED
      BY <3>1, <3>2 DEF AllSteps, Locking, NoLimit
  <2>2. step \in AllSteps /\ to \in Nat
    BY <2>1 DEF NoLimit
  <2> QED
    BY <2>2 DEF AllSteps, Locking, FirstStep
<1>4. left \in Seq(TargetSet) /\ left # <<>>
  <2>1. Targets \in Seq(TargetSet) /\ Targets # <<>>
    BY MigrationAssumption DEF MigrationAssumption
  <2>2. \A t \in TargetSet : <<t>> \in Seq(TargetSet) /\ <<t>> # <<>>
    OBVIOUS
  <2> QED
    BY <2>1, <2>2
<1>5. Range(left) \subseteq TargetSet
  BY <1>4, TailParts
<1>6. ~SharedTracking => \A i, j \in DOMAIN left : left[i] = left[j] => i = j
  <2>1. CASE left = Targets
    BY <2>1, TargetsDiffer
  <2>2. CASE left # Targets
    BY <2>2
  <2> QED
    BY <2>1, <2>2
<1>7. Typed /\ proc \in [Deployers -> Proc] /\ lock' = lock /\ Untouched /\ advice' = advice /\ faults' = faults
  BY DEF Inv, Typed, Start, Untouched, history
<1>8. PICK q : /\ proc' = [proc EXCEPT ![d] = q]
               /\ q = IF SharedTracking THEN [Idle EXCEPT !.pc = "done"]
                      ELSE [Idle EXCEPT !.pc = FirstStep(step), !.step = step, !.to = to,
                                        !.sel = Range(left), !.left = left, !.code = 0]
  BY <1>2
<1>9. /\ q.found = [n \in Names |-> Absent] /\ q.plan = {} /\ q.seen = {}
      /\ IF SharedTracking THEN q.pc = "done" /\ q.left = <<>> /\ q.code = 1
         ELSE /\ q.pc = FirstStep(step) /\ q.step = step /\ q.to = to /\ q.left = left /\ q.code = 0
              /\ q.sel = Range(left)
  BY <1>8 DEF Idle
<1>10. q \in Proc
  BY <1>3, <1>4, <1>5, <1>8, IdleTyped DEF Proc, Under
<1>11. proc'[d] = q /\ OnlyMoves(d) /\ proc' \in [Deployers -> Proc]
  BY <1>7, <1>8, <1>10 DEF OnlyMoves
<1>12. SharedTracking' <=> SharedTracking
  BY <1>7 DEF SharedTracking, Untouched
<1>13. q.pc \notin Reading /\ (q.pc \in Under => q.step \notin Locking)
  BY <1>3, <1>9 DEF Reading, Under, Locking
<1>14. Shaped(d)'
  <2>1. CASE SharedTracking
    BY <1>9, <1>11, <2>1 DEF Shaped
  <2>2. CASE ~SharedTracking
    BY <1>3, <1>4, <1>6, <1>9, <1>11, <1>12, <2>2 DEF Shaped, AllSteps, Locking
  <2> QED
    BY <2>1, <2>2
<1>15. Holds(d)'
  BY <1>11, <1>13 DEF Holds
<1>16. Planned(d)'
  BY <1>11, <1>13 DEF Planned, Reading
<1>17. Looked(d)'
  BY <1>9, <1>11, <1>13 DEF Looked
<1>18. Settled(d)'
  BY <1>9, <1>11 DEF Settled
<1>19. DeployerInv(d)'
  BY <1>14, <1>15, <1>16, <1>17, <1>18 DEF DeployerInv
<1>20. proc[d].pc # "record" /\ faults' \in {faults, faults + 1} /\ lock' \in [Databases -> Deployers \cup {NoOne}]
  BY <1>7 DEF Start, Typed
<1> QED
  BY <1>7, <1>11, <1>19, <1>20, SameAdvice, QuietStep DEF Untouched

LEMMA LockInv ==
  ASSUME Inv, NEW d \in Deployers, Lock(d)
  PROVE  Inv'
<1>1. Typed /\ DeployerInv(d) /\ proc[d].pc = "lock"
  BY DEF Inv, Lock
<1>2. /\ proc[d] \in Proc /\ proc \in [Deployers -> Proc] /\ Target(d) \in TargetSet /\ Database(Target(d)) \in Databases
  BY <1>1, TargetTyped DEF DeployerInv, Typed
<1>3. /\ lock[Database(Target(d))] = NoOne /\ lock' = [lock EXCEPT ![Database(Target(d))] = d]
      /\ proc' = [proc EXCEPT ![d].pc = "discover"]
      /\ Untouched /\ advice' = advice /\ faults' = faults
  BY DEF Lock, Untouched, history, budgets
<1>4. PICK q : proc' = [proc EXCEPT ![d] = q] /\ q = [proc[d] EXCEPT !.pc = "discover"]
  BY <1>2, <1>3
<1>5. /\ q.pc = "discover" /\ q.step = proc[d].step /\ q.to = proc[d].to /\ q.left = proc[d].left
      /\ q.found = proc[d].found /\ q.plan = proc[d].plan /\ q.code = proc[d].code /\ q.seen = proc[d].seen
      /\ q.sel = proc[d].sel /\ q \in Proc
  BY <1>2, <1>4 DEF Proc, Under
<1>6. proc'[d] = q /\ OnlyMoves(d) /\ proc' \in [Deployers -> Proc] /\ Target(d)' = Target(d)
  BY <1>2, <1>4, <1>5 DEF OnlyMoves, Target
<1>7. lock'[Database(Target(d))] = d /\ lock' \in [Databases -> Deployers \cup {NoOne}]
      /\ \A b \in Databases : lock[b] \notin {d, NoOne} => lock'[b] = lock[b]
  BY <1>1, <1>2, <1>3 DEF Typed
<1>8. (SharedTracking' <=> SharedTracking) /\ tracking' = tracking
  BY <1>3 DEF SharedTracking, Untouched
<1>9. Shaped(d)'
  BY <1>1, <1>5, <1>6, <1>8 DEF Shaped, DeployerInv
<1>10. Holds(d)'
  BY <1>6, <1>7, <1>8 DEF Holds, Database
<1>11. Planned(d)'
  BY <1>5, <1>6 DEF Planned, Reading
<1>12. Looked(d)'
  BY <1>1, <1>5, <1>6 DEF Looked, DeployerInv, Reading
<1>13. Settled(d)'
  <2>1. proc[d].sel \subseteq TargetSet
    BY <1>2 DEF Proc
  <2> QED
    BY <1>1, <1>3, <1>5, <1>6, <2>1, SameTables DEF Settled, DeployerInv, Untouched
<1>14. DeployerInv(d)'
  BY <1>9, <1>10, <1>11, <1>12, <1>13 DEF DeployerInv
<1> QED
  BY <1>1, <1>3, <1>6, <1>7, <1>14, SameAdvice, QuietStep DEF Untouched

LEMMA DiesInv ==
  ASSUME Inv, NEW d \in Deployers, Dies(d)
  PROVE  Inv'
<1>1. Typed /\ proc \in [Deployers -> Proc] /\ Untouched /\ advice' = advice /\ faults' = faults + 1 /\ lock' = Unlocked(d)
  BY DEF Inv, Typed, Dies, Untouched, history
<1>2. PICK q : proc' = [proc EXCEPT ![d] = q] /\ q = [Idle EXCEPT !.pc = "done", !.step = proc[d].step]
  BY DEF Dies
<1>3. q.pc = "done" /\ q.left = <<>> /\ q.code = 1 /\ q.seen = {} /\ q.step = proc[d].step
  BY <1>2 DEF Idle
<1>4. q \in Proc
  BY <1>1, <1>2, IdleTyped DEF Proc
<1>5. proc'[d] = q /\ OnlyMoves(d) /\ proc' \in [Deployers -> Proc]
  BY <1>1, <1>2, <1>4 DEF OnlyMoves
<1>6. DeployerInv(d)'
  BY <1>3, <1>5 DEF DeployerInv, Shaped, Holds, Planned, Looked, Settled, Under, Reading
<1>7. lock' \in [Databases -> Deployers \cup {NoOne}]
  BY <1>1 DEF Typed, Unlocked
<1> QED
  BY <1>1, <1>5, <1>6, <1>7, UnlockedOthers, SameAdvice, QuietStep DEF Untouched

LEMMA DiscoverInv ==
  ASSUME Inv, NEW d \in Deployers, Discover(d)
  PROVE  Inv'
<1> DEFINE f == Directory(d)
<1>1. Typed /\ DeployerInv(d) /\ proc[d].pc = "discover" /\ Untouched /\ advice' = advice /\ faults' = faults
  BY DEF Inv, Discover, Untouched, history, budgets
<1>2. /\ proc[d] \in Proc /\ proc \in [Deployers -> Proc] /\ Target(d) \in TargetSet
      /\ proc[d].left \in Seq(TargetSet) /\ proc[d].left # <<>> /\ Target(d) = Head(proc[d].left)
  BY <1>1, TargetTyped DEF DeployerInv, Typed
<1>3. advice' \in [TargetSet -> SUBSET Names] /\ Advised'
  BY <1>1, SameAdvice DEF Untouched
<1>4. CASE Return(d, 1)
  <2>1. Earned(d, 1)
    BY DEF Earned
  <2> QED
    BY <1>1, <1>3, <1>4, <2>1, QuietReturn
<1>5. CASE proc' = [proc EXCEPT ![d].pc = "rows", ![d].found = f,
                                ![d].seen = @ \cup ({Target(d)} \X (Known(f) \cup {0}))]
           /\ UNCHANGED lock
  <2>1. f \in Listing /\ Known(f) \subseteq Names
    BY <1>1, <1>2, DirectoryTyped DEF DeployerInv, Known
  <2>2. PICK q : /\ proc' = [proc EXCEPT ![d] = q]
                 /\ q = [proc[d] EXCEPT !.pc = "rows", !.found = f,
                                        !.seen = @ \cup ({Target(d)} \X (Known(f) \cup {0}))]
    BY <1>2, <1>5
  <2>3. /\ q.pc = "rows" /\ q.step = proc[d].step /\ q.to = proc[d].to /\ q.left = proc[d].left
        /\ q.found = f /\ q.plan = proc[d].plan /\ q.code = proc[d].code
        /\ q.sel = proc[d].sel
        /\ q.seen = proc[d].seen \cup ({Target(d)} \X (Known(f) \cup {0}))
    BY <1>2, <2>2 DEF Proc
  <2>4. q \in Proc
    <3>1. proc[d].seen \cup ({Target(d)} \X (Known(f) \cup {0})) \in SUBSET (TargetSet \X (Names \cup {0}))
      BY <1>2, <2>1 DEF Proc
    <3> HIDE DEF f
    <3> QED
      BY <1>2, <2>1, <2>2, <3>1 DEF Proc, Under, Reading
  <2>5. proc'[d] = q /\ OnlyMoves(d) /\ proc' \in [Deployers -> Proc] /\ Target(d)' = Target(d)
    BY <1>2, <2>2, <2>3, <2>4 DEF OnlyMoves, Target
  <2>6. (SharedTracking' <=> SharedTracking) /\ tracking' = tracking
    BY <1>1 DEF SharedTracking, Untouched
  <2>7. Shaped(d)'
    BY <1>1, <2>3, <2>5, <2>6 DEF Shaped, DeployerInv
  <2>8. Holds(d)'
    BY <1>1, <1>5, <2>3, <2>5, <2>6 DEF Holds, DeployerInv, Database, Under
  <2>9. Planned(d)'
    BY <2>3, <2>5 DEF Planned
  <2>11. Looked(d)'
    <3>1. \A t \in Range(proc[d].left) : \A n \in Names \cup {0} : <<t, n>> \notin proc[d].seen
      BY <1>1 DEF DeployerInv, Looked, Reading
    <3>2. <<Target(d), 0>> \in q.seen
      BY <2>3
    <3>3. \A t \in Range(proc[d].left) : \A n \in Names \cup {0} : <<t, n>> \in q.seen =>
            t = Head(proc[d].left) /\ n \in Known(f) \cup {0}
      BY <1>2, <2>3, <3>1
    <3> HIDE DEF f
    <3> QED
      BY <2>3, <2>5, <3>2, <3>3 DEF Looked, Reading, Known
  <2>12. Settled(d)'
    <3>1. Target(d) \in Range(proc[d].left)
      BY <1>2, TailParts
    <3>2. \A t \in proc[d].sel : t \notin Range(proc[d].left) => \A n : <<t, n>> \in q.seen <=> <<t, n>> \in proc[d].seen
      BY <2>3, <3>1
    <3>3. proc[d].sel \subseteq TargetSet
      BY <1>2 DEF Proc
    <3> HIDE DEF f
    <3> QED
      BY <1>1, <2>3, <2>5, <3>2, <3>3, SameTables DEF Settled, DeployerInv, Untouched
  <2>13. DeployerInv(d)'
    BY <2>7, <2>8, <2>9, <2>11, <2>12 DEF DeployerInv
  <2>14. lock' \in [Databases -> Deployers \cup {NoOne}] /\ faults' \in {faults, faults + 1}
    BY <1>1, <1>5 DEF Typed
  <2> QED
    BY <1>1, <1>3, <1>5, <2>5, <2>13, <2>14, QuietStep
<1> QED
  BY <1>4, <1>5 DEF Discover

\* What compute_states says of one name.
LEMMA States ==
  ASSUME NEW f, NEW r, NEW n \in Names
  PROVE  /\ n \in Pending(f, r) <=> f[n] # Absent /\ r[n] = Absent
         /\ n \in Blocking(f, r) <=> r[n] # Absent /\ (f[n] = Absent \/ r[n] # f[n])
         /\ n \in Known(f) <=> f[n] # Absent
BY DEF Pending, Blocking, InState, StateOf, Known

LEMMA QueueIs ==
  ASSUME NEW f \in Listing, NEW r, NEW to \in Nat
  PROVE  /\ Queue(f, Pending(f, r), to) \in SUBSET Entry
         /\ \A e \in Queue(f, Pending(f, r), to) :
              e.content = f[e.name] /\ r[e.name] = Absent /\ (to = NoLimit \/ e.name <= to)
         /\ \A n \in Known(f) : r[n] = Absent /\ (to = NoLimit \/ n <= to) =>
              \E e \in Queue(f, Pending(f, r), to) : e.name = n
<1>1. \A n \in Pending(f, r) : n \in Names /\ f[n] \in Contents /\ r[n] = Absent
  <2>1. \A n \in Pending(f, r) : n \in Names
    BY DEF Pending, InState
  <2> QED
    BY <2>1, States DEF Listing
<1>2. \A n \in Known(f) : n \in Names /\ (r[n] = Absent => n \in Pending(f, r))
  <2>1. \A n \in Known(f) : n \in Names
    BY DEF Known
  <2> QED
    BY <2>1, States
<1>3. ASSUME NEW n \in Known(f), r[n] = Absent, to = NoLimit \/ n <= to
      PROVE  \E e \in Queue(f, Pending(f, r), to) : e.name = n
  <2>1. [name |-> n, content |-> f[n]] \in Queue(f, Pending(f, r), to)
    BY <1>2, <1>3 DEF Queue
  <2> QED
    BY <2>1
<1>4. ASSUME NEW e \in Queue(f, Pending(f, r), to)
      PROVE  e \in Entry /\ e.content = f[e.name] /\ r[e.name] = Absent /\ (to = NoLimit \/ e.name <= to)
  <2>1. PICK n \in Pending(f, r) : (to = NoLimit \/ n <= to) /\ e = [name |-> n, content |-> f[n]]
    BY DEF Queue
  <2> QED
    BY <1>1, <2>1 DEF Entry
<1> QED
  BY <1>3, <1>4

\* d goes on with another plan for the listing it holds.
Replanned(d, pc, plan) ==
  /\ proc[d].pc \in Reading /\ pc \in {"run", "record", "stamp"} /\ plan \in SUBSET Entry
  /\ proc' = [proc EXCEPT ![d] = [proc[d] EXCEPT !.pc = pc, !.plan = plan]]
  /\ pc \in {"run", "record"} => proc[d].step = "apply" /\ plan # {}
  /\ pc = "stamp" => proc[d].step = "baseline"
  /\ lock' = lock /\ UNCHANGED <<tracking, files>> /\ RowsGrow
  /\ \A e \in plan : e.content = proc[d].found[e.name]
  /\ pc \in {"run", "record"} =>
       /\ \A e \in plan : rows'[Table(Target(d))][e.name] = Absent /\ (proc[d].to = NoLimit \/ e.name <= proc[d].to)
       /\ \A n \in Known(proc[d].found) :
            rows'[Table(Target(d))][n] = Absent /\ (proc[d].to = NoLimit \/ n <= proc[d].to) => \E e \in plan : e.name = n
  /\ pc = "record" => <<First(plan).name, First(plan).content>> \in ranAs'[Target(d)]

LEMMA Replans ==
  ASSUME Typed, NEW d \in Deployers, DeployerInv(d), NEW pc, NEW plan, Replanned(d, pc, plan)
  PROVE  /\ DeployerInv(d)' /\ OnlyMoves(d) /\ proc' \in [Deployers -> Proc]
         /\ proc'[d].pc = pc /\ proc'[d].plan = plan /\ Target(d)' = Target(d)
<1>1. proc \in [Deployers -> Proc] /\ proc[d] \in Proc /\ Target(d) \in TargetSet
  BY TargetTyped DEF DeployerInv, Typed, Reading, Replanned
<1>2. PICK q : proc' = [proc EXCEPT ![d] = q] /\ q = [proc[d] EXCEPT !.pc = pc, !.plan = plan]
  BY DEF Replanned
<1>3. /\ q.pc = pc /\ q.plan = plan /\ q.step = proc[d].step /\ q.to = proc[d].to /\ q.left = proc[d].left
      /\ q.found = proc[d].found /\ q.code = proc[d].code /\ q.seen = proc[d].seen
      /\ q.sel = proc[d].sel
  BY <1>1, <1>2 DEF Proc
<1>4. q \in Proc
  BY <1>1, <1>2 DEF Proc, Under, Reading, Replanned
<1>5. proc'[d] = q /\ OnlyMoves(d) /\ proc' \in [Deployers -> Proc] /\ Target(d)' = Target(d)
  BY <1>1, <1>2, <1>3, <1>4 DEF OnlyMoves, Target
<1>6. SharedTracking' <=> SharedTracking
  BY DEF SharedTracking, Replanned
<1>7. Shaped(d)'
  BY <1>3, <1>5, <1>6 DEF Shaped, DeployerInv, Reading, Replanned
<1>8. Holds(d)'
  BY <1>3, <1>5 DEF Holds, DeployerInv, Database, Under, Reading, Replanned
<1>9. \A n : Missing(Target(d), n)' <=> rows'[Table(Target(d))][n] = Absent
  BY <1>5 DEF Missing, Table, Database, Replanned
<1>10. Planned(d)'
  BY <1>3, <1>5, <1>9 DEF Planned, Known, Replanned
<1>12. Looked(d)'
  BY <1>3, <1>5 DEF Looked, DeployerInv, Known, Reading, Replanned
<1>13. Settled(d)'
  <2>1. proc[d].sel \subseteq TargetSet
    BY <1>1 DEF Proc
  <2> QED
    BY <1>3, <1>5, <2>1 DEF Settled, DeployerInv, RowsGrow, Replanned
<1> QED
  BY <1>3, <1>5, <1>7, <1>8, <1>10, <1>12, <1>13 DEF DeployerInv

LEMMA ApplyLoadsInv ==
  ASSUME Inv, NEW d \in Deployers, proc[d].pc = "rows", ApplyLoads(d), Untouched, faults' = faults
  PROVE  Inv'
<1> DEFINE f == proc[d].found
           r == rows[Table(Target(d))]
           queue == Queue(f, Pending(f, r), proc[d].to)
           blocked == Blocking(f, r)
           unknown == proc[d].to # NoLimit /\ proc[d].to \notin Known(f)
           rejected == \E e \in queue : e.content \in Refused
           go == blocked = {} /\ ~unknown /\ queue # {} /\ ~rejected /\ proc[d].step = "apply"
           c == IF blocked # {} \/ unknown \/ rejected THEN 1 ELSE 0
           told == {n \in blocked : f[n] = Absent}
<1>1. Typed /\ DeployerInv(d) /\ Advised /\ RowsGrow /\ faults' \in {faults, faults + 1} /\ proc[d].pc # "record"
  BY SameTables DEF Inv, Untouched
<1>2. Target(d) \in TargetSet /\ proc[d] \in Proc
  BY <1>1, TargetTyped DEF DeployerInv
<1>3. f \in Listing /\ proc[d].to \in Nat
  BY <1>2 DEF Proc
<1>4. /\ proc[d].step \in {"apply", "dry"} /\ advice' = [advice EXCEPT ![Target(d)] = @ \cup told]
      /\ (go /\ proc' = [proc EXCEPT ![d] = [proc[d] EXCEPT !.pc = "run", !.plan = queue]] /\ lock' = lock)
         \/ (~go /\ Return(d, c))
  BY DEF ApplyLoads, Advise
<1>5. told \subseteq Names /\ \A n \in told : NoAliases => \E x \in Contents : <<n, x>> \in ranAs[Target(d)] \cup stamped[Target(d)]
  <2> SUFFICES ASSUME NEW n \in told
               PROVE  n \in Names /\ (NoAliases => <<n, r[n]>> \in ranAs[Target(d)] \cup stamped[Target(d)] /\ r[n] \in Contents)
    OBVIOUS
  <2>1. n \in Names /\ n \in Blocking(f, r)
    BY DEF Blocking, InState
  <2>2. r[n] # Absent /\ r \in Listing
    BY <1>1, <1>2, <2>1, States, TableTyped DEF Typed
  <2>3. ~Missing(Target(d), n) /\ r[n] \in Contents
    BY <2>1, <2>2 DEF Missing, Listing
  <2>4. ~SharedTracking /\ RowsTrue
    BY <1>1 DEF DeployerInv, Shaped, Inv
  <2> QED
    BY <1>2, <2>1, <2>3, <2>4 DEF RowsTrue
<1> HIDE DEF told
<1>6. advice' \in [TargetSet -> SUBSET Names] /\ Advised'
  BY <1>1, <1>2, <1>4, <1>5 DEF Typed, Advised, AdviceIsOwn, Untouched
<1>7. CASE ~go /\ Return(d, c)
  <2>1. Earned(d, c)
    <3> SUFFICES ASSUME c = 0, Reports(proc[d])
                 PROVE  \A n \in Known(f) : rows'[Table(Target(d))][n] # Absent
      BY DEF Earned, Reading
    <3>1. proc[d].step = "apply" /\ proc[d].to = NoLimit
      BY <1>4 DEF Reports
    <3>2. queue = {}
      <4> HIDE DEF queue, blocked, rejected, unknown
      <4> QED
        BY <1>7, <3>1
    <3>3. \A n \in Known(f) : r[n] # Absent
      BY <1>3, <3>1, <3>2, QueueIs
    <3> QED
      BY <3>3 DEF Untouched
  <2>2. c \in {0, 1}
    OBVIOUS
  <2> HIDE DEF c
  <2> QED
    BY <1>1, <1>6, <1>7, <2>1, <2>2, QuietReturn
<1>8. CASE go /\ proc' = [proc EXCEPT ![d] = [proc[d] EXCEPT !.pc = "run", !.plan = queue]] /\ lock' = lock
  <2>1. /\ queue \in SUBSET Entry
        /\ \A e \in queue : e.content = f[e.name] /\ r[e.name] = Absent /\ (proc[d].to = NoLimit \/ e.name <= proc[d].to)
        /\ \A n \in Known(f) : r[n] = Absent /\ (proc[d].to = NoLimit \/ n <= proc[d].to) => \E e \in queue : e.name = n
    BY <1>3, QueueIs
  <2>2. PICK plan \in SUBSET Entry :
          /\ plan # {} /\ proc' = [proc EXCEPT ![d] = [proc[d] EXCEPT !.pc = "run", !.plan = plan]]
          /\ \A e \in plan : /\ e.content = f[e.name] /\ r[e.name] = Absent
                             /\ proc[d].to = NoLimit \/ e.name <= proc[d].to
          /\ \A n \in Known(f) : r[n] = Absent /\ (proc[d].to = NoLimit \/ n <= proc[d].to) => \E e \in plan : e.name = n
    <3> HIDE DEF queue
    <3> QED
      BY <1>8, <2>1
  <2>3. proc[d].step = "apply" /\ lock' = lock
    BY <1>8
  <2>4. rows' = rows /\ UNCHANGED <<tracking, files>>
    BY DEF Untouched
  <2>5. proc[d].pc \in Reading
    BY DEF Reading
  <2>6. /\ \A e \in plan : rows'[Table(Target(d))][e.name] = Absent /\ (proc[d].to = NoLimit \/ e.name <= proc[d].to)
        /\ \A n \in Known(proc[d].found) :
             rows'[Table(Target(d))][n] = Absent /\ (proc[d].to = NoLimit \/ n <= proc[d].to) => \E e \in plan : e.name = n
        /\ \A e \in plan : e.content = proc[d].found[e.name]
    BY <2>2, <2>4
  <2>7. DeployerInv(d)' /\ OnlyMoves(d) /\ proc' \in [Deployers -> Proc]
    <3>1. Replanned(d, "run", plan)
      BY <1>1, <2>2, <2>3, <2>4, <2>5, <2>6 DEF Replanned
    <3> QED
      BY <1>1, <3>1, Replans
  <2>8. lock' \in [Databases -> Deployers \cup {NoOne}]
    BY <1>1, <2>3 DEF Typed
  <2> QED
    BY <1>1, <1>6, <2>3, <2>7, <2>8, QuietStep
<1> QED
  BY <1>4, <1>7, <1>8

LEMMA BaselineLoadsInv ==
  ASSUME Inv, NEW d \in Deployers, proc[d].pc = "rows", BaselineLoads(d), Untouched, faults' = faults
  PROVE  Inv'
<1> DEFINE r == rows[Table(Target(d))]
           candidates == Queue(proc[d].found, Pending(proc[d].found, r), proc[d].to)
<1>1. /\ Typed /\ DeployerInv(d) /\ RowsGrow /\ faults' \in {faults, faults + 1} /\ proc[d].pc # "record"
      /\ proc[d].step = "baseline" /\ advice' = advice
  BY SameTables DEF Inv, Untouched, BaselineLoads
<1>2. advice' \in [TargetSet -> SUBSET Names] /\ Advised'
  BY <1>1, SameAdvice DEF Untouched
<1>3. proc[d].found \in Listing /\ proc[d].to \in Nat
  BY <1>1 DEF Typed, Proc
<1>4. \/ Return(d, 0) \/ Return(d, 1)
      \/ /\ \E chosen \in SUBSET candidates :
              proc' = [proc EXCEPT ![d] = [proc[d] EXCEPT !.pc = "stamp", !.plan = chosen]]
         /\ lock' = lock
  BY DEF BaselineLoads
<1>5. ASSUME NEW c \in {0, 1}, Return(d, c) PROVE Inv'
  <2>1. Earned(d, c)
    BY <1>1 DEF Earned, Reports
  <2> QED
    BY <1>1, <1>2, <1>5, <2>1, QuietReturn
<1>6. ASSUME NEW chosen \in SUBSET candidates, lock' = lock,
             proc' = [proc EXCEPT ![d] = [proc[d] EXCEPT !.pc = "stamp", !.plan = chosen]]
      PROVE  Inv'
  <2>1. chosen \in SUBSET Entry /\ \A e \in chosen : e.content = proc[d].found[e.name]
    BY <1>3, <1>6, QueueIs
  <2> HIDE DEF candidates
  <2>2. UNCHANGED <<tracking, files>> /\ proc[d].pc \in Reading
    BY DEF Untouched, Reading
  <2>3. DeployerInv(d)' /\ OnlyMoves(d) /\ proc' \in [Deployers -> Proc]
    <3>1. Replanned(d, "stamp", chosen)
      BY <1>1, <1>6, <2>1, <2>2 DEF Replanned
    <3> QED
      BY <1>1, <3>1, Replans
  <2>4. lock' \in [Databases -> Deployers \cup {NoOne}]
    BY <1>1, <1>6 DEF Typed
  <2> QED
    BY <1>1, <1>2, <1>6, <2>3, <2>4, QuietStep
<1> QED
  BY <1>4, <1>5, <1>6

LEMMA StatusLoadsInv ==
  ASSUME Inv, NEW d \in Deployers, proc[d].pc = "rows", StatusLoads(d), Untouched, faults' = faults
  PROVE  Inv'
<1> DEFINE f == proc[d].found
           r == rows[Table(Target(d))]
<1>1. /\ faults' \in {faults, faults + 1} /\ proc[d].pc # "record" /\ advice' = advice
      /\ Return(d, IF Pending(f, r) \cup Blocking(f, r) # {} THEN 1 ELSE 0)
  BY DEF StatusLoads
<1>2. advice' \in [TargetSet -> SUBSET Names] /\ Advised'
  BY <1>1, SameAdvice DEF Untouched
<1>3. PICK c \in {0, 1} : Return(d, c) /\ (c = 0 => Pending(f, r) = {})
  BY <1>1
<1>4. Earned(d, c)
  <2> SUFFICES ASSUME Pending(f, r) = {}, NEW n \in Known(f) PROVE rows'[Table(Target(d))][n] # Absent
    BY <1>3 DEF Earned, Reading
  <2>1. n \in Names
    BY DEF Known
  <2>2. r[n] # Absent
    BY <2>1, States
  <2> QED
    BY <2>2 DEF Untouched
<1> QED
  BY <1>1, <1>2, <1>3, <1>4, QuietReturn

LEMMA ReadRowsInv ==
  ASSUME Inv, NEW d \in Deployers, ReadRows(d)
  PROVE  Inv'
<1>1. proc[d].pc = "rows" /\ Untouched /\ faults' = faults
  BY DEF ReadRows, Untouched, budgets
<1> QED
  BY <1>1, ApplyLoadsInv, BaselineLoadsInv, StatusLoadsInv DEF ReadRows

-----------------------------------------------------------------------------
(* Steps that write rows or run files *)

\* d gives its target's table other rows: each is true to a file, and a new one is
\* written under the lock.
Writes(d, row) ==
  /\ rows' = [rows EXCEPT ![Table(Target(d))] = row] /\ row \in Listing
  /\ UNCHANGED <<tracking, files>>
  /\ \A t \in TargetSet : ranAs[t] \subseteq ranAs'[t] /\ stamped[t] \subseteq stamped'[t]
  /\ \A n \in Names : row[n] # rows[Table(Target(d))][n] =>
       /\ row[n] # Absent /\ <<n, row[n]>> \in ranAs'[Target(d)] \cup stamped'[Target(d)]
       /\ Missing(Target(d), n) => lock[Database(Target(d))] = d

LEMMA WritesRows ==
  ASSUME Typed, RowsTrue, NEW d \in Deployers, Shaped(d), proc[d].pc \notin {"idle", "done"}, NEW row, Writes(d, row)
  PROVE  /\ rows' \in [Tables -> Listing] /\ RowsGrow /\ RowsTrue'
         /\ rows'[Table(Target(d))] = row
         /\ \A t \in TargetSet, n \in Names : t = Target(d) => (Missing(t, n)' <=> row[n] = Absent)
         /\ \A t \in TargetSet, n \in Names : Missing(t, n) /\ ~Missing(t, n)' => lock[Database(t)] = d
<1>1. Target(d) \in TargetSet /\ Table(Target(d)) \in Tables /\ ~SharedTracking /\ rows \in [Tables -> Listing]
  BY TargetTyped DEF Shaped, Typed
<1>2. PICK u \in TargetSet : u = Target(d)
  BY <1>1
<1>3. rows' = [rows EXCEPT ![Table(u)] = row] /\ row \in Listing /\ UNCHANGED <<tracking, files>>
  BY <1>2 DEF Writes
<1>4. rows'[Table(u)] = row /\ rows' \in [Tables -> Listing]
  BY <1>1, <1>2, <1>3
<1>5. \A t \in TargetSet : Table(t)' = Table(t) /\ Table(t) \in Tables
  BY <1>3, TableTyped DEF Table, Database
<1>6. /\ \A t \in TargetSet : Table(t) # Table(u) => rows'[Table(t)] = rows[Table(t)]
      /\ \A t \in TargetSet : Table(t) = Table(u) => Database(t) = Database(u)
  BY <1>1, <1>3, <1>5, TableTyped
<1>7. SharedTracking' <=> SharedTracking
  BY <1>3 DEF SharedTracking
<1>8. \A t \in TargetSet, n \in Names : Table(t) # Table(u) => (Missing(t, n)' <=> Missing(t, n))
  BY <1>5, <1>6 DEF Missing
<1>9. \A t \in TargetSet, n \in Names : Table(t) = Table(u) => (Missing(t, n)' <=> row[n] = Absent)
  BY <1>4, <1>5 DEF Missing
<1>10. \A t \in TargetSet, n \in Names : Table(t) = Table(u) => (Missing(t, n) <=> rows[Table(u)][n] = Absent)
  BY DEF Missing
<1>11. /\ \A t \in TargetSet : ranAs[t] \subseteq ranAs'[t] /\ stamped[t] \subseteq stamped'[t]
       /\ \A n \in Names : row[n] # rows[Table(u)][n] =>
            /\ row[n] # Absent /\ <<n, row[n]>> \in ranAs'[u] \cup stamped'[u]
            /\ Missing(u, n) => lock[Database(u)] = d
  BY <1>2 DEF Writes
<1>12. RowsGrow
  BY <1>8, <1>9, <1>10, <1>11 DEF RowsGrow
<1>13. \A t \in TargetSet, n \in Names : Missing(t, n) /\ ~Missing(t, n)' => lock[Database(t)] = d
  BY <1>6, <1>8, <1>9, <1>10, <1>11
<1>14. RowsTrue'
  <2> SUFFICES ASSUME NoAliases, NEW t \in TargetSet, NEW n \in Names, ~Missing(t, n)'
               PROVE  <<n, rows'[Table(t)][n]>> \in ranAs'[t] \cup stamped'[t]
    BY <1>1, <1>5, <1>7 DEF RowsTrue
  <2>0. Table(t) = Table(u) => t = u
    BY <1>1, TablesApart
  <2>1. CASE t = u /\ row[n] # rows[Table(u)][n]
    BY <1>4, <1>11, <2>1
  <2>2. CASE ~(t = u /\ row[n] # rows[Table(u)][n])
    <3>1. rows'[Table(t)][n] = rows[Table(t)][n]
      BY <1>4, <1>6, <2>0, <2>2
    <3>2. ~Missing(t, n)
      BY <1>4, <1>5, <1>8, <1>9, <1>10, <2>0, <2>2
    <3>3. <<n, rows[Table(t)][n]>> \in ranAs[t] \cup stamped[t]
      BY <1>1, <3>2 DEF RowsTrue
    <3> QED
      BY <1>11, <3>1, <3>3
  <2> QED
    BY <2>1, <2>2
<1> QED
  BY <1>2, <1>4, <1>9, <1>12, <1>13, <1>14

\* The file in hand: pending, and the lock is ours.
LEMMA InHand ==
  ASSUME Inv, NEW d \in Deployers, proc[d].pc \in {"run", "record"}, NEW e, e = First(proc[d].plan)
  PROVE  /\ Target(d) \in TargetSet /\ Table(Target(d)) \in Tables /\ proc[d] \in Proc
         /\ proc[d].step = "apply" /\ lock[Database(Target(d))] = d /\ Shaped(d) /\ ~SharedTracking
         /\ proc[d].plan \in SUBSET Entry /\ e \in proc[d].plan /\ e \in Entry /\ e.name \in Names /\ e.content \in Contents
         /\ e.name \in Known(proc[d].found)
         /\ Missing(Target(d), e.name) /\ Free(Table(Target(d)), e)
<1>1. Typed /\ DeployerInv(d)
  BY DEF Inv
<1>2. Target(d) \in TargetSet /\ Table(Target(d)) \in Tables /\ proc[d] \in Proc
  BY <1>1, TargetTyped DEF DeployerInv
<1>3. proc[d].step = "apply" /\ Shaped(d) /\ ~SharedTracking /\ proc[d].plan # {}
  BY <1>1 DEF DeployerInv, Shaped
<1>4. lock[Database(Target(d))] = d
  BY <1>1, <1>3 DEF DeployerInv, Holds, Under, Reading, Locking
<1>5. proc[d].plan \in SUBSET Entry /\ e \in proc[d].plan
  BY <1>2, <1>3, FirstIsLeast DEF Proc
<1>6. e \in Entry /\ e.name \in Names /\ e.content \in Contents
  BY <1>5 DEF Entry
<1>7. e.content = proc[d].found[e.name] /\ Missing(Target(d), e.name)
  BY <1>1, <1>5 DEF DeployerInv, Planned
<1>8. Absent \notin Contents
  BY MigrationAssumption DEF MigrationAssumption
<1>9. e.name \in Known(proc[d].found)
  BY <1>6, <1>7, <1>8 DEF Known
<1> QED
  BY <1>2, <1>3, <1>4, <1>5, <1>6, <1>7, <1>9 DEF Missing, Free

\* The lock keeps two processes from running files of one target.
LEMMA NobodyRecords ==
  ASSUME Inv, NEW d \in Deployers, proc[d].pc \in {"run", "record"}, NEW n, Recording(Target(d), n)
  PROVE  proc[d].pc = "record" /\ First(proc[d].plan).name = n
<1>1. PICK o \in Deployers : proc[o].pc = "record" /\ Target(o) = Target(d) /\ First(proc[o].plan).name = n
  BY DEF Recording
<1>2. lock[Database(Target(d))] = d /\ lock[Database(Target(o))] = o
  BY <1>1, InHand
<1> QED
  BY <1>1, <1>2

LEMMA ExecutedEffect ==
  ASSUME Typed, NEW t \in TargetSet, NEW e \in Entry, NEW how \in {"tx", "out"}, Executed(t, e, how)
  PROVE  /\ ran' \in [TargetSet -> [Names -> [tx : Nat, out : Nat]]]
         /\ ranAs' \in [TargetSet -> SUBSET (Names \X Contents)]
         /\ \A u \in TargetSet : ranAs[u] \subseteq ranAs'[u]
         /\ <<e.name, e.content>> \in ranAs'[t]
         /\ \A u \in TargetSet, m \in Names : u # t \/ m # e.name => ran'[u][m] = ran[u][m]
         /\ how = "tx" => ran'[t][e.name].tx = ran[t][e.name].tx + 1 /\ ran'[t][e.name].out = ran[t][e.name].out
         /\ how = "out" => ran'[t][e.name].out = ran[t][e.name].out + 1 /\ ran'[t][e.name].tx = ran[t][e.name].tx
<1>1. e.name \in Names /\ e.content \in Contents
  BY DEF Entry
<1>2. ran[t][e.name] \in [tx : Nat, out : Nat] /\ ran[t] \in [Names -> [tx : Nat, out : Nat]]
  BY <1>1 DEF Typed
<1>3. PICK x : x = IF how = "tx" THEN [ran[t][e.name] EXCEPT !.tx = @ + 1] ELSE [ran[t][e.name] EXCEPT !.out = @ + 1]
  OBVIOUS
<1>3a. ran' = [ran EXCEPT ![t] = [ran[t] EXCEPT ![e.name] = x]]
  <2>1. CASE how = "tx"
    BY <1>3, <2>1 DEF Executed
  <2>2. CASE how = "out"
    BY <1>3, <2>2 DEF Executed
  <2> QED
    BY <2>1, <2>2
<1>4. /\ x \in [tx : Nat, out : Nat]
      /\ how = "tx" => x.tx = ran[t][e.name].tx + 1 /\ x.out = ran[t][e.name].out
      /\ how = "out" => x.out = ran[t][e.name].out + 1 /\ x.tx = ran[t][e.name].tx
  BY <1>2, <1>3
<1>5. ran' \in [TargetSet -> [Names -> [tx : Nat, out : Nat]]] /\ ran'[t][e.name] = x
  BY <1>1, <1>2, <1>3a, <1>4 DEF Typed
<1>6. \A u \in TargetSet, m \in Names : u # t \/ m # e.name => ran'[u][m] = ran[u][m]
  BY <1>1, <1>2, <1>3a DEF Typed
<1>7. ranAs' = [ranAs EXCEPT ![t] = @ \cup {<<e.name, e.content>>}]
  BY DEF Executed
<1>8. /\ ranAs' \in [TargetSet -> SUBSET (Names \X Contents)] /\ <<e.name, e.content>> \in ranAs'[t]
      /\ \A u \in TargetSet : ranAs[u] \subseteq ranAs'[u]
  BY <1>1, <1>7 DEF Typed
<1> QED
  BY <1>4, <1>5, <1>6, <1>8

LEMMA PaidRun ==
  ASSUME Typed, Paid, NEW t \in TargetSet, NEW n \in Names, Missing(t, n), ~Recording(t, n),
         ran' \in [TargetSet -> [Names -> [tx : Nat, out : Nat]]], RowsGrow, faults' \in {faults, faults + 1},
         \A u \in TargetSet, m \in Names : u # t \/ m # n => ran'[u][m] = ran[u][m],
         \/ /\ ran'[t][n].tx = ran[t][n].tx + 1 /\ ran'[t][n].out = ran[t][n].out
            /\ ~Missing(t, n)'
         \/ /\ ran'[t][n].out = ran[t][n].out + 1 /\ ran'[t][n].tx = ran[t][n].tx
            /\ Recording(t, n)' \/ faults' = faults + 1,
         \A u \in TargetSet, m \in Names : Recording(u, m) => Recording(u, m)'
  PROVE  Paid'
<1> SUFFICES ASSUME NEW u \in TargetSet, NEW m \in Names
             PROVE  /\ ran'[u][m].tx <= 1
                    /\ Missing(u, m)' => ran'[u][m].tx = 0
                    /\ Missing(u, m)' /\ ~Recording(u, m)' => ran'[u][m].tx + ran'[u][m].out <= faults'
                    /\ ran'[u][m].tx + ran'[u][m].out <= faults' + 1
  BY DEF Paid
<1>1. ran[u][m].tx \in Nat /\ ran[u][m].out \in Nat /\ faults \in Nat
  BY DEF Typed
<1>2. /\ ran[u][m].tx <= 1
      /\ Missing(u, m) => ran[u][m].tx = 0
      /\ Missing(u, m) /\ ~Recording(u, m) => ran[u][m].tx + ran[u][m].out <= faults
      /\ ran[u][m].tx + ran[u][m].out <= faults + 1
  BY DEF Paid
<1>3. Missing(u, m)' => Missing(u, m)
  BY DEF RowsGrow
<1>4. CASE u = t /\ m = n
  BY <1>1, <1>2, <1>3, <1>4
<1>5. CASE u # t \/ m # n
  <2>1. ran'[u][m] = ran[u][m]
    BY <1>5
  <2>2. Missing(u, m)' /\ ~Recording(u, m)' => ~Recording(u, m)
    OBVIOUS
  <2> QED
    BY <1>1, <1>2, <1>3, <2>1, <2>2
<1> QED
  BY <1>4, <1>5

\* A row is written for the file in hand.
LEMMA RecordedWrites ==
  ASSUME Inv, NEW d \in Deployers, proc[d].pc \in {"run", "record"}, NEW e, e = First(proc[d].plan),
         rows' = Recorded(d, e), UNCHANGED <<tracking, files, stamped>>,
         \A t \in TargetSet : ranAs[t] \subseteq ranAs'[t], <<e.name, e.content>> \in ranAs'[Target(d)]
  PROVE  Writes(d, [rows[Table(Target(d))] EXCEPT ![e.name] = e.content])
<1>1. /\ Target(d) \in TargetSet /\ Table(Target(d)) \in Tables /\ lock[Database(Target(d))] = d
      /\ e.name \in Names /\ e.content \in Contents
  BY InHand
<1>2. rows \in [Tables -> Listing] /\ rows[Table(Target(d))] \in Listing
  BY <1>1 DEF Inv, Typed
<1>3. Absent \notin Contents
  BY MigrationAssumption DEF MigrationAssumption
<1>4. rows' = [rows EXCEPT ![Table(Target(d))] = [rows[Table(Target(d))] EXCEPT ![e.name] = e.content]]
  BY DEF Recorded
<1> QED
  BY <1>1, <1>2, <1>3, <1>4 DEF Writes, Listing

\* ... and apply goes on to the next one.
LEMMA NextFileKeeps ==
  ASSUME Inv, NEW d \in Deployers, proc[d].pc \in {"run", "record"}, NEW e, e = First(proc[d].plan),
         Writes(d, [rows[Table(Target(d))] EXCEPT ![e.name] = e.content]), NextFile(d)
  PROVE  /\ DeployerInv(d)' /\ OnlyMoves(d) /\ proc' \in [Deployers -> Proc]
         /\ lock' \in [Databases -> Deployers \cup {NoOne}]
         /\ \A b \in Databases : lock[b] \notin {d, NoOne} => lock'[b] = lock[b]
<1>1. /\ Target(d) \in TargetSet /\ Table(Target(d)) \in Tables /\ proc[d] \in Proc
      /\ proc[d].step = "apply" /\ Shaped(d)
      /\ proc[d].plan \in SUBSET Entry /\ e \in proc[d].plan /\ e \in Entry /\ e.name \in Names /\ e.content \in Contents
  BY InHand
<1>2. Typed /\ DeployerInv(d) /\ RowsTrue /\ proc[d].pc \notin {"idle", "done"} /\ proc[d].pc \in Reading
  BY DEF Inv, Reading
<1>3. PICK row : Writes(d, row) /\ row = [rows[Table(Target(d))] EXCEPT ![e.name] = e.content]
  OBVIOUS
<1>4. RowsGrow /\ rows'[Table(Target(d))] = row /\ UNCHANGED <<tracking, files>>
  <2>1. RowsGrow /\ rows'[Table(Target(d))] = row
    BY <1>1, <1>2, <1>3, WritesRows
  <2> QED
    BY <1>3, <2>1 DEF Writes
<1>5. rows[Table(Target(d))] \in Listing /\ Absent \notin Contents
  BY <1>1, <1>2, MigrationAssumption DEF Typed, MigrationAssumption
<1>6. row[e.name] # Absent /\ \A n \in Names : n # e.name => (row[n] = Absent <=> Missing(Target(d), n))
  BY <1>1, <1>3, <1>5 DEF Missing, Listing
<1>7. PICK rest : rest = proc[d].plan \ {e}
  OBVIOUS
<1>8. /\ \A x \in proc[d].plan : /\ x \in Entry /\ x.name \in Names /\ x.content = proc[d].found[x.name]
                                 /\ Missing(Target(d), x.name) /\ (proc[d].to = NoLimit \/ x.name <= proc[d].to)
      /\ \A n \in Known(proc[d].found) : Missing(Target(d), n) /\ (proc[d].to = NoLimit \/ n <= proc[d].to) =>
           \E x \in proc[d].plan : x.name = n
  BY <1>1, <1>2 DEF DeployerInv, Planned, Entry
<1>9. \A x \in rest : x.name # e.name
  <2> SUFFICES ASSUME NEW x \in proc[d].plan, x.name = e.name PROVE x = e
    BY <1>7
  <2>1. x.content = e.content
    BY <1>1, <1>8
  <2> QED
    BY <1>1, <1>8, <2>1 DEF Entry
<1>10. /\ \A x \in rest : row[x.name] = Absent /\ (proc[d].to = NoLimit \/ x.name <= proc[d].to)
       /\ \A n \in Known(proc[d].found) : row[n] = Absent /\ (proc[d].to = NoLimit \/ n <= proc[d].to) =>
            \E x \in rest : x.name = n
  <2>1. \A n \in Known(proc[d].found) : n \in Names
    BY DEF Known
  <2> QED
    BY <1>6, <1>7, <1>8, <1>9, <2>1
<1>11. CASE rest = {} /\ Return(d, 0)
  <2>1. Earned(d, 0)
    BY <1>1, <1>2, <1>4, <1>10, <1>11 DEF Earned, Reports
  <2>2. DeployerInv(d)'
    BY <1>2, <1>4, <1>11, <2>1, ReturnKeeps
  <2>3. OnlyMoves(d) /\ lock' = Unlocked(d) /\ proc' \in [Deployers -> Proc] /\ lock' \in [Databases -> Deployers \cup {NoOne}]
    BY <1>1, <1>2, <1>11, ReturnEffect, ReturnTyped
  <2> QED
    BY <2>2, <2>3, UnlockedOthers
<1>12. CASE rest # {} /\ proc' = [proc EXCEPT ![d] = [proc[d] EXCEPT !.pc = "run", !.plan = rest]] /\ lock' = lock
  <2>1. Replanned(d, "run", rest)
    BY <1>1, <1>2, <1>4, <1>7, <1>8, <1>10, <1>12 DEF Replanned
  <2>2. DeployerInv(d)' /\ OnlyMoves(d) /\ proc' \in [Deployers -> Proc]
    BY <1>2, <2>1, Replans
  <2> QED
    BY <1>2, <1>12, <2>2 DEF Typed
<1> QED
  BY <1>7, <1>11, <1>12 DEF NextFile

LEMMA ApplyFileInv ==
  ASSUME Inv, NEW d \in Deployers, ApplyFile(d)
  PROVE  Inv'
<1>1. PICK e : e = First(proc[d].plan)
  OBVIOUS
<1>2. proc[d].pc = "run" /\ UNCHANGED <<tracking, files, faults, stamped, advice>>
  BY DEF ApplyFile, budgets
<1>3. /\ Target(d) \in TargetSet /\ Shaped(d) /\ e \in Entry /\ e.name \in Names /\ e.content \in Contents
      /\ Missing(Target(d), e.name) /\ Free(Table(Target(d)), e)
  BY <1>1, <1>2, InHand
<1>4. Executed(Target(d), e, "tx") /\ rows' = Recorded(d, e) /\ NextFile(d)
  BY <1>1, <1>3 DEF ApplyFile
<1>5. PICK t \in TargetSet : t = Target(d)
  BY <1>3
<1>6. Typed /\ RowsTrue /\ Paid /\ proc[d].pc \notin {"idle", "done"}
  BY <1>2 DEF Inv
<1>7. /\ ran' \in [TargetSet -> [Names -> [tx : Nat, out : Nat]]]
      /\ ranAs' \in [TargetSet -> SUBSET (Names \X Contents)]
      /\ \A u \in TargetSet : ranAs[u] \subseteq ranAs'[u]
      /\ <<e.name, e.content>> \in ranAs'[t]
      /\ \A u \in TargetSet, m \in Names : u # t \/ m # e.name => ran'[u][m] = ran[u][m]
      /\ ran'[t][e.name].tx = ran[t][e.name].tx + 1 /\ ran'[t][e.name].out = ran[t][e.name].out
  BY <1>3, <1>4, <1>5, <1>6, ExecutedEffect
<1>8. PICK row : row = [rows[Table(Target(d))] EXCEPT ![e.name] = e.content]
  OBVIOUS
<1>9. Writes(d, row)
  BY <1>1, <1>2, <1>4, <1>5, <1>7, <1>8, RecordedWrites
<1>10. /\ rows' \in [Tables -> Listing] /\ RowsGrow /\ RowsTrue'
       /\ \A u \in TargetSet, n \in Names : u = Target(d) => (Missing(u, n)' <=> row[n] = Absent)
       /\ \A u \in TargetSet, n \in Names : Missing(u, n) /\ ~Missing(u, n)' => lock[Database(u)] = d
  BY <1>3, <1>6, <1>9, WritesRows
<1>11. ~Missing(t, e.name)'
  <2>1. Absent \notin Contents /\ rows[Table(Target(d))] \in Listing
    BY <1>3, <1>6, TableTyped, MigrationAssumption DEF Typed, MigrationAssumption
  <2>2. row[e.name] # Absent
    BY <1>3, <1>8, <2>1 DEF Listing
  <2> QED
    BY <1>3, <1>5, <1>10, <2>2
<1>12. /\ DeployerInv(d)' /\ OnlyMoves(d) /\ proc' \in [Deployers -> Proc]
       /\ lock' \in [Databases -> Deployers \cup {NoOne}]
       /\ \A b \in Databases : lock[b] \notin {d, NoOne} => lock'[b] = lock[b]
  BY <1>1, <1>2, <1>4, <1>8, <1>9, NextFileKeeps
<1>13. Paid'
  <2>1. ~Recording(t, e.name)
    BY <1>2, <1>5, NobodyRecords
  <2>2. \A u \in TargetSet, m \in Names : Recording(u, m) => Recording(u, m)'
    BY <1>2, <1>12, RecordingKept
  <2>3. Missing(t, e.name) /\ faults' \in {faults, faults + 1}
    BY <1>2, <1>3, <1>5
  <2> QED
    BY <1>3, <1>6, <1>7, <1>10, <1>11, <2>1, <2>2, <2>3, PaidRun
<1>14. StepOf(d)
  BY <1>2, <1>7, <1>10, <1>12 DEF StepOf
<1>15. Typed' /\ Advised'
  BY <1>2, <1>6, <1>7, <1>10, <1>12, SameAdvice DEF Typed
<1> QED
  BY <1>10, <1>12, <1>13, <1>14, <1>15, Assemble

LEMMA ExecuteOutsideInv ==
  ASSUME Inv, NEW d \in Deployers, ExecuteOutside(d)
  PROVE  Inv'
<1>1. PICK e : e = First(proc[d].plan)
  OBVIOUS
<1>2. /\ proc[d].pc = "run" /\ UNCHANGED <<tracking, files, rows, faults, stamped, advice>>
      /\ Executed(Target(d), e, "out") /\ lock' = lock /\ proc' = [proc EXCEPT ![d].pc = "record"]
  BY <1>1 DEF ExecuteOutside, Goto, budgets
<1>3. /\ Target(d) \in TargetSet /\ proc[d] \in Proc /\ proc[d].step = "apply" /\ e \in Entry /\ e.name \in Names
      /\ proc[d].plan \in SUBSET Entry /\ e \in proc[d].plan /\ Missing(Target(d), e.name)
  BY <1>1, <1>2, InHand
<1>4. PICK t \in TargetSet : t = Target(d)
  BY <1>3
<1>5. Typed /\ RowsTrue /\ Paid /\ DeployerInv(d) /\ RowsGrow
  BY <1>2, SameTables DEF Inv
<1>6. /\ ran' \in [TargetSet -> [Names -> [tx : Nat, out : Nat]]]
      /\ ranAs' \in [TargetSet -> SUBSET (Names \X Contents)]
      /\ \A u \in TargetSet : ranAs[u] \subseteq ranAs'[u]
      /\ <<e.name, e.content>> \in ranAs'[t]
      /\ \A u \in TargetSet, m \in Names : u # t \/ m # e.name => ran'[u][m] = ran[u][m]
      /\ ran'[t][e.name].out = ran[t][e.name].out + 1 /\ ran'[t][e.name].tx = ran[t][e.name].tx
  BY <1>2, <1>3, <1>4, <1>5, ExecutedEffect
<1>7. PICK plan : plan = proc[d].plan
  OBVIOUS
<1>8. Replanned(d, "record", plan)
  <2>1. proc' = [proc EXCEPT ![d] = [proc[d] EXCEPT !.pc = "record", !.plan = plan]]
    <3>1. [proc[d] EXCEPT !.pc = "record", !.plan = plan] = [proc[d] EXCEPT !.pc = "record"]
      BY <1>3, <1>7 DEF Proc
    <3> QED
      BY <1>2, <3>1
  <2>2. /\ \A x \in plan : x.content = proc[d].found[x.name]
        /\ \A x \in plan : rows'[Table(Target(d))][x.name] = Absent /\ (proc[d].to = NoLimit \/ x.name <= proc[d].to)
        /\ \A n \in Known(proc[d].found) :
             rows'[Table(Target(d))][n] = Absent /\ (proc[d].to = NoLimit \/ n <= proc[d].to) => \E x \in plan : x.name = n
    BY <1>2, <1>5, <1>7 DEF DeployerInv, Planned, Missing
  <2>3. <<First(plan).name, First(plan).content>> \in ranAs'[Target(d)]
    BY <1>1, <1>4, <1>6, <1>7
  <2>4. proc[d].pc \in Reading /\ plan # {} /\ plan \in SUBSET Entry
    BY <1>2, <1>3, <1>7 DEF Reading
  <2> QED
    BY <1>2, <1>3, <1>5, <2>1, <2>2, <2>3, <2>4 DEF Replanned
<1>9. /\ DeployerInv(d)' /\ OnlyMoves(d) /\ proc' \in [Deployers -> Proc]
      /\ proc'[d].pc = "record" /\ proc'[d].plan = plan /\ Target(d)' = Target(d)
  BY <1>5, <1>8, Replans
<1>10. Paid'
  <2>1. ~Recording(t, e.name)
    BY <1>2, <1>4, NobodyRecords
  <2>2. \A u \in TargetSet, m \in Names : Recording(u, m) => Recording(u, m)'
    BY <1>2, <1>9, RecordingKept
  <2>3. Recording(t, e.name)'
    BY <1>1, <1>4, <1>7, <1>9 DEF Recording
  <2>4. Missing(t, e.name) /\ faults' \in {faults, faults + 1}
    BY <1>2, <1>3, <1>4
  <2> QED
    BY <1>3, <1>5, <1>6, <2>1, <2>2, <2>3, <2>4, PaidRun
<1>11. StepOf(d)
  BY <1>2, <1>5, <1>6, <1>9, SameTables DEF StepOf
<1>12. Typed' /\ Advised'
  BY <1>2, <1>5, <1>6, <1>9, SameAdvice DEF Typed
<1>13. RowsTrue'
  BY <1>2, <1>5, <1>6, RowsTrueKept
<1> QED
  BY <1>9, <1>10, <1>11, <1>12, <1>13, Assemble

LEMMA RecordOutsideInv ==
  ASSUME Inv, NEW d \in Deployers, RecordOutside(d)
  PROVE  Inv'
<1>1. PICK e : e = First(proc[d].plan)
  OBVIOUS
<1>2. proc[d].pc = "record" /\ UNCHANGED <<tracking, files, faults, ran, ranAs, stamped, advice>>
  BY DEF RecordOutside, budgets, history
<1>3. /\ Target(d) \in TargetSet /\ Shaped(d) /\ e.name \in Names /\ e.content \in Contents
      /\ Free(Table(Target(d)), e)
  BY <1>1, <1>2, InHand
<1>4. rows' = Recorded(d, e) /\ NextFile(d)
  BY <1>1, <1>3 DEF RecordOutside
<1>5. Typed /\ RowsTrue /\ Paid /\ DeployerInv(d) /\ proc[d].pc \notin {"idle", "done"}
  BY <1>2 DEF Inv
<1>6. <<e.name, e.content>> \in ranAs'[Target(d)] /\ \A t \in TargetSet : ranAs[t] \subseteq ranAs'[t]
  BY <1>1, <1>2, <1>5 DEF DeployerInv, Planned
<1>7. PICK row : row = [rows[Table(Target(d))] EXCEPT ![e.name] = e.content]
  OBVIOUS
<1>8. Writes(d, row)
  BY <1>1, <1>2, <1>4, <1>6, <1>7, RecordedWrites
<1>9. /\ rows' \in [Tables -> Listing] /\ RowsGrow /\ RowsTrue'
      /\ \A u \in TargetSet, n \in Names : u = Target(d) => (Missing(u, n)' <=> row[n] = Absent)
      /\ \A u \in TargetSet, n \in Names : Missing(u, n) /\ ~Missing(u, n)' => lock[Database(u)] = d
  BY <1>3, <1>5, <1>8, WritesRows
<1>10. row[e.name] # Absent
  <2>1. Absent \notin Contents /\ rows[Table(Target(d))] \in Listing
    BY <1>3, <1>5, TableTyped, MigrationAssumption DEF Typed, MigrationAssumption
  <2> QED
    BY <1>3, <1>7, <2>1 DEF Listing
<1>11. /\ DeployerInv(d)' /\ OnlyMoves(d) /\ proc' \in [Deployers -> Proc]
       /\ lock' \in [Databases -> Deployers \cup {NoOne}]
       /\ \A b \in Databases : lock[b] \notin {d, NoOne} => lock'[b] = lock[b]
  BY <1>1, <1>2, <1>4, <1>7, <1>8, NextFileKeeps
<1>12. Paid'
  <2>1. ASSUME NEW t \in TargetSet, NEW n \in Names, Recording(t, n) PROVE Recording(t, n)' \/ ~Missing(t, n)'
    <3>1. Recording(t, n)' \/ (Target(d) = t /\ e.name = n)
      BY <1>1, <1>11, <2>1, RecordingKept
    <3> QED
      BY <1>9, <1>10, <3>1
  <2> QED
    BY <1>2, <1>5, <1>9, <2>1, PaidKept
<1>13. StepOf(d)
  BY <1>2, <1>6, <1>9, <1>11 DEF StepOf
<1>14. Typed' /\ Advised'
  BY <1>2, <1>5, <1>9, <1>11, SameAdvice DEF Typed
<1> QED
  BY <1>9, <1>11, <1>12, <1>13, <1>14, Assemble

LEMMA FileFailsInv ==
  ASSUME Inv, NEW d \in Deployers, FileFails(d)
  PROVE  Inv'
<1>1. PICK e : e = First(proc[d].plan)
  OBVIOUS
<1>2. /\ proc[d].pc \in {"run", "record"} /\ faults' = faults + 1 /\ Return(d, 1)
      /\ UNCHANGED <<tracking, files, rows, stamped, advice>>
      /\ \/ UNCHANGED <<ran, ranAs>>
         \/ proc[d].pc = "run" /\ Executed(Target(d), e, "out")
  BY <1>1 DEF FileFails
<1>3. Typed /\ RowsTrue /\ Paid /\ DeployerInv(d) /\ Shaped(d) /\ RowsGrow /\ proc[d].pc \notin {"idle", "done"}
  BY <1>2, SameTables DEF Inv, DeployerInv
<1>4. advice' \in [TargetSet -> SUBSET Names] /\ Advised' /\ Earned(d, 1) /\ faults' \in {faults, faults + 1}
  <2>1. \A t \in TargetSet : ranAs[t] \subseteq ranAs'[t]
    <3>1. CASE UNCHANGED <<ran, ranAs>>
      BY <3>1
    <3>2. CASE proc[d].pc = "run" /\ Executed(Target(d), e, "out")
      <4>1. Target(d) \in TargetSet /\ e \in Entry
        BY <1>1, <1>2, InHand
      <4> QED
        BY <1>3, <3>2, <4>1, ExecutedEffect
    <3> QED
      BY <1>2, <3>1, <3>2
  <2> QED
    BY <1>2, <2>1, SameAdvice DEF Earned
<1>5. CASE UNCHANGED <<ran, ranAs>>
  BY <1>2, <1>3, <1>4, <1>5, QuietReturn DEF Untouched
<1>6. CASE proc[d].pc = "run" /\ Executed(Target(d), e, "out")
  <2>1. Target(d) \in TargetSet /\ e \in Entry /\ e.name \in Names /\ Missing(Target(d), e.name)
    BY <1>1, <1>2, InHand
  <2>2. PICK t \in TargetSet : t = Target(d)
    BY <2>1
  <2>3. /\ ran' \in [TargetSet -> [Names -> [tx : Nat, out : Nat]]]
        /\ ranAs' \in [TargetSet -> SUBSET (Names \X Contents)]
        /\ \A u \in TargetSet : ranAs[u] \subseteq ranAs'[u]
        /\ \A u \in TargetSet, m \in Names : u # t \/ m # e.name => ran'[u][m] = ran[u][m]
        /\ ran'[t][e.name].out = ran[t][e.name].out + 1 /\ ran'[t][e.name].tx = ran[t][e.name].tx
    BY <1>3, <1>6, <2>1, <2>2, ExecutedEffect
  <2>4. DeployerInv(d)'
    BY <1>2, <1>3, <1>4, ReturnKeeps
  <2>5. OnlyMoves(d) /\ lock' = Unlocked(d) /\ proc' \in [Deployers -> Proc] /\ lock' \in [Databases -> Deployers \cup {NoOne}]
    BY <1>2, <1>3, ReturnEffect, ReturnTyped
  <2>6. Paid'
    <3>1. ~Recording(t, e.name)
      BY <1>6, <2>2, NobodyRecords
    <3>2. \A u \in TargetSet, m \in Names : Recording(u, m) => Recording(u, m)'
      BY <1>6, <2>5, RecordingKept
    <3>3. Missing(t, e.name)
      BY <2>1, <2>2
    <3> QED
      BY <1>2, <1>3, <2>1, <2>3, <3>1, <3>2, <3>3, PaidRun
  <2>7. StepOf(d)
    BY <1>2, <1>3, <2>3, <2>5, UnlockedOthers, SameTables DEF StepOf
  <2>8. Typed'
    BY <1>2, <1>3, <1>4, <2>3, <2>5 DEF Typed
  <2>9. RowsTrue'
    BY <1>2, <1>3, <2>3, RowsTrueKept
  <2> QED
    BY <1>4, <2>4, <2>6, <2>7, <2>8, <2>9, Assemble
<1> QED
  BY <1>2, <1>5, <1>6

\* baseline and repair: rows are written, and the command is over.
LEMMA WriteReturns ==
  ASSUME Inv, NEW d \in Deployers, proc[d].pc \notin {"idle", "done", "record"}, proc[d].step \in {"baseline", "repair"},
         NEW row, Writes(d, row), Return(d, 0), UNCHANGED <<ran, ranAs, advice, faults>>,
         stamped' \in [TargetSet -> SUBSET (Names \X Contents)]
  PROVE  Inv'
<1>1. Typed /\ RowsTrue /\ Paid /\ DeployerInv(d) /\ Shaped(d)
  BY DEF Inv, DeployerInv
<1>2. /\ rows' \in [Tables -> Listing] /\ RowsGrow /\ RowsTrue'
      /\ \A t \in TargetSet, n \in Names : Missing(t, n) /\ ~Missing(t, n)' => lock[Database(t)] = d
  BY <1>1, WritesRows
<1>3. UNCHANGED <<tracking, files>> /\ \A t \in TargetSet : stamped[t] \subseteq stamped'[t]
  BY DEF Writes
<1>4. Earned(d, 0)
  BY DEF Earned, Reports
<1>5. DeployerInv(d)'
  BY <1>1, <1>2, <1>3, <1>4, ReturnKeeps
<1>6. OnlyMoves(d) /\ lock' = Unlocked(d) /\ proc' \in [Deployers -> Proc] /\ lock' \in [Databases -> Deployers \cup {NoOne}]
  BY <1>1, ReturnEffect, ReturnTyped
<1>7. Paid'
  <2>1. \A t \in TargetSet, n \in Names : Recording(t, n) => Recording(t, n)'
    BY <1>6, RecordingKept
  <2> QED
    BY <1>1, <1>2, <2>1, PaidKept
<1>8. StepOf(d)
  BY <1>2, <1>3, <1>6, UnlockedOthers DEF StepOf
<1>9. Typed' /\ Advised'
  BY <1>1, <1>2, <1>3, <1>6, SameAdvice DEF Typed
<1> QED
  BY <1>2, <1>5, <1>7, <1>8, <1>9, Assemble

LEMMA StampInv ==
  ASSUME Inv, NEW d \in Deployers, Stamp(d)
  PROVE  Inv'
<1> DEFINE k == Table(Target(d))
<1>1. proc[d].pc = "stamp" /\ UNCHANGED <<tracking, files, faults, ran, ranAs, advice>>
  BY DEF Stamp, budgets
<1>2. Typed /\ DeployerInv(d) /\ proc[d].step = "baseline" /\ Shaped(d) /\ ~SharedTracking
  BY <1>1 DEF Inv, DeployerInv, Shaped
<1>3. Target(d) \in TargetSet /\ k \in Tables /\ proc[d] \in Proc /\ lock[Database(Target(d))] = d
  BY <1>1, <1>2, TargetTyped DEF DeployerInv, Holds, Under, Reading, Locking
<1>4. /\ proc[d].found \in Listing /\ rows[k] \in Listing /\ proc[d].plan \in SUBSET Entry
  BY <1>2, <1>3 DEF Proc, Typed
<1>5. \A e \in proc[d].plan : /\ e.name \in Names /\ e.content \in Contents /\ e.content = proc[d].found[e.name]
  BY <1>1, <1>2, <1>4 DEF DeployerInv, Planned, Entry
<1>6. Absent \notin Contents
  BY MigrationAssumption DEF MigrationAssumption
<1>7. CASE Return(d, 1) /\ UNCHANGED <<rows, stamped>>
  <2>1. Untouched /\ Earned(d, 1) /\ advice' \in [TargetSet -> SUBSET Names] /\ Advised'
    BY <1>1, <1>7, SameAdvice DEF Untouched, Earned
  <2> QED
    BY <1>1, <1>7, <2>1, QuietReturn
<1>8. CASE /\ rows' = [rows EXCEPT ![k] = [n \in Names |->
                         IF \E e \in proc[d].plan : e.name = n THEN proc[d].found[n] ELSE @[n]]]
           /\ stamped' = [stamped EXCEPT ![Target(d)] = @ \cup {<<e.name, e.content>> : e \in proc[d].plan}]
           /\ Return(d, 0)
  <2>1. PICK row : row = [n \in Names |-> IF \E e \in proc[d].plan : e.name = n THEN proc[d].found[n] ELSE rows[k][n]]
    OBVIOUS
  <2>2. rows' = [rows EXCEPT ![k] = row]
    BY <1>8, <2>1
  <2>3. row \in Listing
    BY <1>4, <2>1 DEF Listing
  <2>4. /\ stamped' \in [TargetSet -> SUBSET (Names \X Contents)]
        /\ \A t \in TargetSet : stamped[t] \subseteq stamped'[t]
        /\ \A e \in proc[d].plan : <<e.name, e.content>> \in stamped'[Target(d)]
    <3>1. PICK new : new = {<<e.name, e.content>> : e \in proc[d].plan}
      OBVIOUS
    <3>2. new \subseteq Names \X Contents /\ \A e \in proc[d].plan : <<e.name, e.content>> \in new
      BY <1>5, <3>1
    <3>3. stamped' = [stamped EXCEPT ![Target(d)] = @ \cup new]
      BY <1>8, <3>1
    <3> QED
      BY <1>2, <1>3, <3>2, <3>3 DEF Typed
  <2>5. ASSUME NEW n \in Names, row[n] # rows[k][n]
        PROVE  /\ row[n] # Absent /\ <<n, row[n]>> \in ranAs'[Target(d)] \cup stamped'[Target(d)]
    <3>1. PICK e \in proc[d].plan : e.name = n
      BY <2>1, <2>5
    <3>2. row[n] = e.content /\ e.content \in Contents /\ n \in Known(proc[d].found)
      BY <1>5, <1>6, <2>1, <3>1 DEF Known
    <3> QED
      BY <1>6, <2>4, <3>1, <3>2
  <2>6. Writes(d, row)
    BY <1>1, <1>3, <2>2, <2>3, <2>4, <2>5 DEF Writes
  <2> QED
    BY <1>1, <1>2, <1>8, <2>4, <2>6, WriteReturns
<1> QED
  BY <1>7, <1>8 DEF Stamp

LEMMA RepairReadsInv ==
  ASSUME Inv, NEW d \in Deployers, RepairReads(d)
  PROVE  Inv'
<1> DEFINE f == Directory(d)
<1>1. proc[d].pc = "file" /\ Untouched /\ UNCHANGED <<advice, faults>>
  BY DEF RepairReads, Untouched, budgets, history
<1>2. Typed /\ DeployerInv(d) /\ proc[d].step = "repair" /\ Shaped(d) /\ ~SharedTracking
  BY <1>1 DEF Inv, DeployerInv, Shaped
<1>3. Target(d) \in TargetSet /\ proc[d] \in Proc /\ proc \in [Deployers -> Proc]
  BY <1>1, <1>2, TargetTyped DEF Typed
<1>4. advice' \in [TargetSet -> SUBSET Names] /\ Advised' /\ faults' \in {faults, faults + 1}
  BY <1>1, SameAdvice DEF Untouched
<1>5. CASE Return(d, 1)
  <2>1. Earned(d, 1)
    BY DEF Earned
  <2> QED
    BY <1>1, <1>4, <1>5, <2>1, QuietReturn
<1>6. ASSUME NEW n \in Known(f), lock' = lock,
             proc' = [proc EXCEPT ![d].pc = "update", ![d].plan = {[name |-> n, content |-> f[n]]}]
      PROVE  Inv'
  <2>1. n \in Names /\ f[n] \in Contents
    BY <1>1, <1>2, <1>6, DirectoryTyped DEF Known, Listing
  <2>2. PICK plan \in SUBSET Entry : plan = {[name |-> n, content |-> f[n]]} /\ plan # {}
    <3>1. [name |-> n, content |-> f[n]] \in Entry
      BY <2>1 DEF Entry
    <3> QED
      BY <3>1
  <2>3. PICK q : proc' = [proc EXCEPT ![d] = q] /\ q = [proc[d] EXCEPT !.pc = "update", !.plan = plan]
    BY <1>3, <1>6, <2>2
  <2>4. /\ q.pc = "update" /\ q.plan = plan /\ q.step = proc[d].step /\ q.left = proc[d].left /\ q.seen = proc[d].seen
        /\ q \in Proc
    BY <1>3, <2>2, <2>3 DEF Proc
  <2>5. proc'[d] = q /\ OnlyMoves(d) /\ proc' \in [Deployers -> Proc]
    BY <1>3, <2>3, <2>4 DEF OnlyMoves
  <2>6. SharedTracking' <=> SharedTracking
    BY <1>1 DEF SharedTracking, Untouched
  <2>7. Shaped(d)'
    BY <1>1, <1>2, <2>2, <2>4, <2>5, <2>6 DEF Shaped
  <2>8. Holds(d)' /\ Planned(d)' /\ Settled(d)'
    BY <1>2, <2>4, <2>5 DEF Holds, Planned, Settled, Under, Reading, Locking
  <2>9. Looked(d)'
    BY <1>1, <1>2, <2>4, <2>5 DEF DeployerInv, Looked, Reading
  <2>10. DeployerInv(d)' /\ lock' \in [Databases -> Deployers \cup {NoOne}]
    BY <1>2, <1>6, <2>7, <2>8, <2>9 DEF DeployerInv, Typed
  <2> QED
    BY <1>1, <1>4, <1>6, <2>5, <2>10, QuietStep
<1> QED
  BY <1>5, <1>6 DEF RepairReads

LEMMA RepairUpdatesInv ==
  ASSUME Inv, NEW d \in Deployers, RepairUpdates(d)
  PROVE  Inv'
<1> DEFINE k == Table(Target(d))
<1>1. proc[d].pc = "update" /\ UNCHANGED <<tracking, files, faults, ran, ranAs, advice>>
  BY DEF RepairUpdates, budgets
<1>2. Typed /\ RowsTrue /\ DeployerInv(d) /\ proc[d].step = "repair" /\ proc[d].plan # {} /\ Shaped(d) /\ ~SharedTracking
  BY <1>1 DEF Inv, DeployerInv, Shaped
<1>3. Target(d) \in TargetSet /\ k \in Tables /\ proc[d] \in Proc /\ rows[k] \in Listing
  BY <1>1, <1>2, TargetTyped DEF Typed
<1>4. PICK e \in Entry : e = First(proc[d].plan) /\ e.name \in Names /\ e.content \in Contents
  <2>1. proc[d].plan \in SUBSET Entry
    BY <1>3 DEF Proc
  <2> QED
    BY <1>2, <2>1, FirstIsLeast DEF Entry
<1>5. Absent \notin Contents
  BY MigrationAssumption DEF MigrationAssumption
<1>6. CASE Return(d, 1) /\ UNCHANGED <<rows, stamped>>
  <2>1. Untouched /\ Earned(d, 1) /\ advice' \in [TargetSet -> SUBSET Names] /\ Advised'
    BY <1>1, <1>6, SameAdvice DEF Untouched, Earned
  <2> QED
    BY <1>1, <1>6, <2>1, QuietReturn
<1>7. CASE /\ ~Free(k, e) /\ rows' = Recorded(d, e)
           /\ stamped' = [stamped EXCEPT ![Target(d)] = @ \cup {<<e.name, e.content>>}]
           /\ Return(d, 0)
  <2>1. PICK row : row = [rows[k] EXCEPT ![e.name] = e.content]
    OBVIOUS
  <2>2. rows' = [rows EXCEPT ![k] = row]
    BY <1>7, <2>1 DEF Recorded
  <2>3. row \in Listing
    BY <1>3, <1>4, <2>1 DEF Listing
  <2>4. /\ stamped' \in [TargetSet -> SUBSET (Names \X Contents)]
        /\ \A t \in TargetSet : stamped[t] \subseteq stamped'[t]
        /\ <<e.name, e.content>> \in stamped'[Target(d)]
    BY <1>2, <1>3, <1>4, <1>7 DEF Typed
  <2>5. ASSUME NEW n \in Names, row[n] # rows[k][n]
        PROVE  /\ row[n] # Absent /\ <<n, row[n]>> \in ranAs'[Target(d)] \cup stamped'[Target(d)]
               /\ ~Missing(Target(d), n)
    <3>1. n = e.name /\ row[n] = e.content
      BY <1>3, <1>4, <2>1, <2>5 DEF Listing
    <3>2. ~Missing(Target(d), n)
      BY <1>7, <3>1 DEF Missing, Free
    <3> QED
      BY <1>2, <1>3, <1>4, <1>5, <2>4, <3>1, <3>2 DEF RowsTrue
  <2>6. Writes(d, row)
    BY <1>1, <1>3, <2>2, <2>3, <2>4, <2>5 DEF Writes
  <2> QED
    BY <1>1, <1>2, <1>7, <2>4, <2>6, WriteReturns
<1> QED
  BY <1>4, <1>6, <1>7 DEF RepairUpdates

-----------------------------------------------------------------------------
(* The directories change *)

LEMMA FilesInv ==
  ASSUME Inv, UNCHANGED <<tracking, rows, lock, proc, faults, ran, ranAs, stamped, advice>>,
         files' \in [Checkouts -> [TargetSet -> Listing]]
  PROVE  Inv'
<1>1. Typed /\ Paid /\ RowsTrue /\ Advised /\ RowsGrow
  BY SameTables DEF Inv
<1>2. \A o \in Deployers : DeployerInv(o)'
  <2> SUFFICES ASSUME NEW o \in Deployers PROVE DeployerInv(o)'
    OBVIOUS
  <2>1. Undisturbed(o)
    BY <1>1, SameTables DEF Undisturbed
  <2> QED
    BY <1>1, <2>1, OthersKeep DEF Inv
<1>3. Typed'
  BY <1>1 DEF Typed
<1>4. Paid'
  <2>1. \A t \in TargetSet, n \in Names : Recording(t, n) => Recording(t, n)'
    BY DEF Recording, Target
  <2> QED
    BY <1>1, <2>1, PaidKept
<1>5. RowsTrue'
  BY <1>1, RowsTrueKept
<1>6. Advised'
  BY SameAdvice
<1> QED
  BY <1>2, <1>3, <1>4, <1>5, <1>6 DEF Inv

LEMMA DirectoryChanges ==
  ASSUME Inv, NEW x \in Checkouts, NEW t \in TargetSet, NEW n \in Names, NEW c \in Contents \cup {Absent},
         files' = [files EXCEPT ![x][t][n] = c],
         UNCHANGED <<tracking, rows, lock, proc, faults, ran, ranAs, stamped, advice>>
  PROVE  Inv'
<1>1. files \in [Checkouts -> [TargetSet -> Listing]]
  BY DEF Inv, Typed
<1>2. PICK f : f = [files[x][t] EXCEPT ![n] = c]
  OBVIOUS
<1>3. f \in Listing
  BY <1>1, <1>2 DEF Listing
<1>4. files' = [files EXCEPT ![x] = [files[x] EXCEPT ![t] = f]]
  BY <1>2
<1>5. files' \in [Checkouts -> [TargetSet -> Listing]]
  <2>1. PICK g : g = [files[x] EXCEPT ![t] = f]
    OBVIOUS
  <2>2. g \in [TargetSet -> Listing]
    BY <1>1, <1>3, <2>1
  <2>3. files' = [files EXCEPT ![x] = g]
    BY <1>4, <2>1
  <2> HIDE DEF Listing
  <2> QED
    BY <1>1, <2>2, <2>3
<1> QED
  BY <1>5, FilesInv

LEMMA CmdNewInv ==
  ASSUME Inv, NEW x \in Checkouts, NEW t \in TargetSet, NEW n \in Names, CmdNew(x, t, n)
  PROVE  Inv'
<1>1. Template \in Contents
  BY MigrationAssumption DEF MigrationAssumption
<1> QED
  BY <1>1, DirectoryChanges DEF CmdNew, history

LEMMA EditInv ==
  ASSUME Inv, NEW x \in Checkouts, NEW t \in TargetSet, NEW n \in Names, NEW c \in Contents \cup {Absent},
         Edit(x, t, n, c)
  PROVE  Inv'
BY DirectoryChanges DEF Edit, history

-----------------------------------------------------------------------------
(* The invariant *)

LEMMA InitInv == Init => Inv
<1> SUFFICES ASSUME Init PROVE Inv
  OBVIOUS
<1>1. Typed
  <2>1. files \in [Checkouts -> [TargetSet -> Listing]]
    BY MigrationAssumption DEF MigrationAssumption, Init, Listing
  <2>2. rows \in [Tables -> Listing]
    BY DEF Init, Listing
  <2>3. proc \in [Deployers -> Proc]
    BY IdleTyped DEF Init
  <2>4. ran \in [TargetSet -> [Names -> [tx : Nat, out : Nat]]]
    BY DEF Init
  <2> QED
    BY <2>1, <2>2, <2>3, <2>4 DEF Init, Typed
<1>2. \A t \in TargetSet, n \in Names : Missing(t, n)
  BY <1>1, TableTyped DEF Init, Missing
<1>3. \A d \in Deployers : DeployerInv(d)
  <2> SUFFICES ASSUME NEW d \in Deployers PROVE DeployerInv(d)
    OBVIOUS
  <2>1. proc[d].pc = "idle" /\ proc[d].left = <<>> /\ proc[d].code = 1 /\ proc[d].seen = {}
    BY DEF Init, Idle
  <2> QED
    BY <2>1 DEF DeployerInv, Shaped, Holds, Planned, Looked, Settled, Under, Reading
<1>4. Paid
  BY DEF Init, Paid
<1>5. RowsTrue /\ Advised
  BY <1>2 DEF Init, RowsTrue, Advised, AdviceIsOwn
<1> QED
  BY <1>1, <1>3, <1>4, <1>5 DEF Inv

LEMMA StutterInv ==
  ASSUME Inv, UNCHANGED vars
  PROVE  Inv'
<1>1. UNCHANGED <<tracking, rows, lock, proc, faults, ran, ranAs, stamped, advice>> /\ files' = files
  BY DEF vars
<1> QED
  BY <1>1, FilesInv DEF Inv, Typed

LEMMA NextInv == Inv /\ [Next]_vars => Inv'
<1> SUFFICES ASSUME Inv, [Next]_vars PROVE Inv'
  OBVIOUS
<1>1. ASSUME NEW d \in Deployers, Start(d) PROVE Inv'
  BY <1>1, StartInv
<1>2. ASSUME NEW d \in Deployers, Lock(d) PROVE Inv'
  BY <1>2, LockInv
<1>3. ASSUME NEW d \in Deployers, Discover(d) PROVE Inv'
  BY <1>3, DiscoverInv
<1>4. ASSUME NEW d \in Deployers, ReadRows(d) PROVE Inv'
  BY <1>4, ReadRowsInv
<1>5. ASSUME NEW d \in Deployers, ApplyFile(d) PROVE Inv'
  BY <1>5, ApplyFileInv
<1>6. ASSUME NEW d \in Deployers, ExecuteOutside(d) PROVE Inv'
  BY <1>6, ExecuteOutsideInv
<1>7. ASSUME NEW d \in Deployers, RecordOutside(d) PROVE Inv'
  BY <1>7, RecordOutsideInv
<1>8. ASSUME NEW d \in Deployers, Stamp(d) PROVE Inv'
  BY <1>8, StampInv
<1>9. ASSUME NEW d \in Deployers, RepairReads(d) PROVE Inv'
  BY <1>9, RepairReadsInv
<1>10. ASSUME NEW d \in Deployers, RepairUpdates(d) PROVE Inv'
  BY <1>10, RepairUpdatesInv
<1>11. ASSUME NEW d \in Deployers, FileFails(d) PROVE Inv'
  BY <1>11, FileFailsInv
<1>12. ASSUME NEW d \in Deployers, Dies(d) PROVE Inv'
  BY <1>12, DiesInv
<1>13. ASSUME NEW x \in Checkouts, NEW t \in TargetSet, NEW n \in Names, CmdNew(x, t, n) PROVE Inv'
  BY <1>13, CmdNewInv
<1>14. ASSUME NEW x \in Checkouts, NEW t \in TargetSet, NEW n \in Names, NEW c \in Contents \cup {Absent},
              Edit(x, t, n, c)
       PROVE  Inv'
  BY <1>14, EditInv
<1>15. CASE UNCHANGED vars
  BY <1>15, StutterInv
<1> QED
  BY <1>1, <1>2, <1>3, <1>4, <1>5, <1>6, <1>7, <1>8, <1>9, <1>10, <1>11, <1>12, <1>13, <1>14, <1>15 DEF Next, Work

LEMMA AlwaysInv == Spec => []Inv
BY InitInv, NextInv, PTL DEF Spec

\* A migration's transaction commits once per target, however many processes apply, and a file
\* without one is executed again only for a failure or a death (cmd_apply, Tracker.lock).
THEOREM FilesRunOnce == Spec => []RunsOnce
<1>1. Inv => RunsOnce
  BY DEF Inv, Typed, Paid, RunsOnce
<1> QED
  BY <1>1, AlwaysInv, PTL

\* Where no database goes by two names, a tracking row carries what was executed, stamped or
\* repaired for its target, and what a transaction executed has its row (cmd_apply,
\* cmd_baseline, cmd_repair and Tracker.record).
THEOREM RowsAreTrue ==
  ASSUME NoAliases
  PROVE  Spec => []RecordedIsTrue
<1>1. Inv => RecordedIsTrue
  <2> SUFFICES ASSUME Inv, NEW t \in TargetSet, NEW n \in Names
               PROVE  /\ rows[Table(t)][n] # Absent => <<n, rows[Table(t)][n]>> \in ranAs[t] \cup stamped[t]
                      /\ ran[t][n].tx = 1 => rows[Table(t)][n] # Absent
    BY DEF RecordedIsTrue
  <2>1. Missing(t, n) => ran[t][n].tx = 0
    BY DEF Inv, Paid
  <2> QED
    BY <2>1 DEF Inv, RowsTrue, Missing
<1> QED
  BY <1>1, AlwaysInv, PTL

\* An exit code of 0 of apply or status can be trusted whatever the other processes and the
\* developers did meanwhile, in this checkout or another (init_service, cmd_apply).
THEOREM AnswersAreTrue == Spec => []AnswersTrue
<1>1. Inv => TypeOK
  BY DEF Inv, Typed, TypeOK, Proc, Listing
<1>2. Inv => SuccessMeansApplied
  <2> SUFFICES ASSUME Inv, NEW d \in Deployers, proc[d].pc = "done", proc[d].code = 0,
                      proc[d].step = "status" \/ (proc[d].step = "apply" /\ proc[d].to = NoLimit),
                      NEW t \in proc[d].sel
               PROVE  /\ <<t, 0>> \in proc[d].seen
                      /\ \A n \in Names : <<t, n>> \in proc[d].seen => rows[Table(t)][n] # Absent
    BY DEF SuccessMeansApplied
  <2>1. t \notin Range(proc[d].left)
    BY DEF Inv, DeployerInv, Shaped, Range
  <2> QED
    BY <2>1 DEF Inv, DeployerInv, Settled, Missing
<1>3. Inv => AnswersTrue
  BY <1>1, <1>2 DEF AnswersTrue
<1> QED
  BY <1>3, AlwaysInv, PTL

\* Where no database goes by two names, what apply says to DELETE is a row of its target, of
\* a file that ran, was stamped or repaired there (_reject_shared_tracking_tables, cmd_apply).
THEOREM AdviceIsAboutOwnRows ==
  ASSUME NoAliases
  PROVE  Spec => []AdviceIsOwn
<1>1. Inv => AdviceIsOwn
  BY DEF Inv, Advised
<1> QED
  BY <1>1, AlwaysInv, PTL

\* A command that returns, and apply when it goes on to the next file, are seen to move.
LEMMA ReturnMoves ==
  ASSUME Typed, NEW d \in Deployers, proc[d].pc \in {"run", "record", "stamp"}, NEW c, Return(d, c)
  PROVE  proc'[d] # proc[d]
<1>1. proc'[d].pc \in {"done", FirstStep(proc[d].step)}
  BY ReturnEffect DEF Ends
<1> QED
  BY <1>1 DEF FirstStep

LEMMA NextFileMoves ==
  ASSUME Inv, NEW d \in Deployers, proc[d].pc \in {"run", "record"}, NextFile(d)
  PROVE  proc'[d] # proc[d]
<1>1. Typed /\ proc[d] \in Proc /\ First(proc[d].plan) \in proc[d].plan /\ proc \in [Deployers -> Proc]
  BY InHand DEF Inv, Typed
<1>2. PICK rest : rest = proc[d].plan \ {First(proc[d].plan)}
  OBVIOUS
<1>3. CASE Return(d, 0)
  BY <1>1, <1>3, ReturnMoves
<1>4. CASE proc' = [proc EXCEPT ![d] = [proc[d] EXCEPT !.pc = "run", !.plan = rest]]
  <2>1. proc'[d].plan = rest
    BY <1>1, <1>4 DEF Proc
  <2> QED
    BY <1>1, <1>2, <2>1
<1> QED
  BY <1>2, <1>3, <1>4 DEF NextFile

\* While o has the lock of a database only o gives rows to its files.
LEMMA RowsKept ==
  ASSUME Inv, [Next]_vars, NEW o \in Deployers, proc'[o] = proc[o], NEW t \in TargetSet, NEW n \in Names,
         lock[Database(t)] = o, Missing(t, n)
  PROVE  rows'[Table(t)][n] = Absent
<1> DEFINE k == Table(t)
<1>1. Typed /\ k \in Tables /\ rows \in [Tables -> Listing] /\ rows[k][n] = Absent /\ Database(t) = k[1]
  BY TableTyped DEF Inv, Typed, Missing
<1>2. ASSUME NEW d \in Deployers, lock[Database(Target(d))] = d, proc'[d] # proc[d],
             proc[d].pc \in {"run", "record", "stamp"},
             \A j \in Tables : j # Table(Target(d)) => rows'[j] = rows[j]
      PROVE  rows'[k][n] = Absent
  <2>1. Target(d) \in TargetSet /\ Shaped(d)
    BY <1>1, <1>2, TargetTyped DEF Inv, DeployerInv
  <2>2. Table(Target(d)) # k
    BY <1>1, <1>2, <2>1, TableTyped
  <2> QED
    BY <1>1, <1>2, <2>2
<1>3. ASSUME NEW d \in Deployers, ApplyFile(d) \/ RecordOutside(d) PROVE rows'[k][n] = Absent
  <2>1. PICK e : e = First(proc[d].plan)
    OBVIOUS
  <2>2. proc[d].pc \in {"run", "record"}
    BY <1>3 DEF ApplyFile, RecordOutside
  <2>3. Free(Table(Target(d)), e) /\ lock[Database(Target(d))] = d
    BY <2>1, <2>2, InHand
  <2>4. rows' = [rows EXCEPT ![Table(Target(d))] = [rows[Table(Target(d))] EXCEPT ![e.name] = e.content]] /\ NextFile(d)
    BY <1>3, <2>1, <2>3 DEF ApplyFile, RecordOutside, Recorded
  <2>5. proc'[d] # proc[d]
    BY <2>2, <2>4, NextFileMoves
  <2>6. \A j \in Tables : j # Table(Target(d)) => rows'[j] = rows[j]
    BY <1>1, <2>4
  <2> QED
    BY <1>2, <2>2, <2>3, <2>5, <2>6
<1>4. ASSUME NEW d \in Deployers, Stamp(d) PROVE rows'[k][n] = Absent
  <2>1. proc[d].pc = "stamp" /\ lock[Database(Target(d))] = d
    BY <1>4 DEF Stamp, Inv, DeployerInv, Shaped, Holds, Under, Reading, Locking
  <2>2. CASE rows' = rows
    BY <1>1, <2>2
  <2>3. CASE rows' # rows
    <3>1. PICK row : rows' = [rows EXCEPT ![Table(Target(d))] = row]
      BY <1>4, <2>3 DEF Stamp
    <3>2. Return(d, 0) \/ Return(d, 1)
      BY <1>4 DEF Stamp
    <3>3. proc'[d] # proc[d]
      BY <1>1, <2>1, <3>2, ReturnMoves
    <3>4. \A j \in Tables : j # Table(Target(d)) => rows'[j] = rows[j]
      BY <1>1, <3>1
    <3> QED
      BY <1>2, <2>1, <3>3, <3>4
  <2> QED
    BY <2>2, <2>3
<1>5. ASSUME NEW d \in Deployers, RepairUpdates(d) PROVE rows'[k][n] = Absent
  <2>1. PICK e : e = First(proc[d].plan)
    OBVIOUS
  <2>2. CASE rows' = rows
    BY <1>1, <2>2
  <2>3. CASE /\ rows[Table(Target(d))][e.name] # Absent
             /\ rows' = [rows EXCEPT ![Table(Target(d))] = [rows[Table(Target(d))] EXCEPT ![e.name] = e.content]]
    <3>1. CASE Table(Target(d)) # k
      BY <1>1, <2>3, <3>1
    <3>2. CASE Table(Target(d)) = k
      BY <1>1, <2>3, <3>2 DEF Listing
    <3> QED
      BY <3>1, <3>2
  <2> QED
    BY <1>5, <2>1, <2>2, <2>3 DEF RepairUpdates, Free, Recorded
<1>6. CASE rows' = rows
  BY <1>1, <1>6
<1>7. ASSUME NEW d \in Deployers,
             Start(d) \/ Lock(d) \/ Discover(d) \/ ReadRows(d) \/ ExecuteOutside(d) \/ RepairReads(d) \/ FileFails(d) \/ Dies(d)
      PROVE  rows' = rows
  BY <1>7 DEF Start, Lock, Discover, ReadRows, ExecuteOutside, RepairReads, FileFails, Dies
<1>8. ASSUME NEW x \in Checkouts, NEW u \in TargetSet, NEW m \in Names,
             CmdNew(x, u, m) \/ \E c \in Contents \cup {Absent} : Edit(x, u, m, c)
      PROVE  rows' = rows
  BY <1>8 DEF CmdNew, Edit
<1>9. CASE UNCHANGED vars
  BY <1>6, <1>9 DEF vars
<1> QED
  BY <1>3, <1>4, <1>5, <1>6, <1>7, <1>8, <1>9 DEF Next, Work

\* From the listing of a command that takes the lock to its last row nobody else adds a row
\* to its table, in the cases of aliases too (Tracker.lock before _load_states).
THEOREM ListingsHold == Spec => ListingHolds
<1>1. ASSUME Inv, [Next]_vars, NEW d \in Deployers, proc[d].pc \in {"rows", "run", "record", "stamp"},
             proc[d].step # "status", proc'[d] = proc[d], NEW n \in Names, rows[Table(Target(d))][n] = Absent
      PROVE  rows'[Table(Target(d))][n] = Absent
  <2>1. Typed /\ DeployerInv(d) /\ Shaped(d)
    BY <1>1 DEF Inv, DeployerInv
  <2>2. Target(d) \in TargetSet /\ proc[d].step \in Locking
    BY <1>1, <2>1, TargetTyped DEF Shaped, Locking
  <2>3. lock[Database(Target(d))] = d
    BY <1>1, <2>1, <2>2 DEF DeployerInv, Holds, Under, Reading
  <2> QED
    BY <1>1, <2>2, <2>3, RowsKept DEF Missing
<1>2. Inv /\ [Next]_vars =>
        [\A d \in Deployers :
           proc[d].pc \in {"rows", "run", "record", "stamp"} /\ proc[d].step # "status" /\ proc'[d] = proc[d]
             => \A n \in Names : rows[Table(Target(d))][n] = Absent => rows'[Table(Target(d))][n] = Absent]_vars
  BY <1>1
<1> QED
  BY <1>2, AlwaysInv, PTL DEF Spec, ListingHolds

\* A file is executed only when every earlier file of the listing is recorded, although
\* others write rows between the listing and the execution (cmd_apply's loop).
THEOREM FilesRunInOrder == Spec => InOrder
<1>1. ASSUME Inv, NEW d \in Deployers, proc[d].pc = "run", NEW m \in Known(proc[d].found),
             m < First(proc[d].plan).name
      PROVE  rows[Table(Target(d))][m] # Absent
  <2>1. PICK e : e = First(proc[d].plan)
    OBVIOUS
  <2>2. /\ proc[d].plan \in SUBSET Entry /\ e \in proc[d].plan /\ e.name \in Names /\ proc[d] \in Proc
        /\ \A other \in proc[d].plan : e.name <= other.name
    BY <1>1, <2>1, InHand, FirstIsLeast
  <2>3. Names \subseteq Nat
    BY MigrationAssumption DEF MigrationAssumption
  <2>4. m \in Nat /\ e.name \in Nat /\ proc[d].to \in Nat /\ m < e.name /\ \A other \in proc[d].plan : other.name \in Nat
    BY <1>1, <2>1, <2>2, <2>3 DEF Known, Proc, Entry
  <2>5. proc[d].to = NoLimit \/ e.name <= proc[d].to
    BY <1>1, <2>2 DEF Inv, DeployerInv, Planned
  <2>6. proc[d].to = NoLimit \/ m <= proc[d].to
    BY <2>4, <2>5
  <2>7. ~\E other \in proc[d].plan : other.name = m
    BY <2>2, <2>4
  <2> QED
    BY <1>1, <2>6, <2>7 DEF Inv, DeployerInv, Planned, Missing
<1>2. Inv => [\A d \in Deployers :
                proc[d].pc = "run" /\ ran' # ran /\ proc'[d] # proc[d]
                  => \A m \in Known(proc[d].found) :
                       m < First(proc[d].plan).name => rows[Table(Target(d))][m] # Absent]_vars
  BY <1>1
<1> QED
  BY <1>2, AlwaysInv, PTL DEF InOrder

=============================================================================
