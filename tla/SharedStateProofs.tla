-------------------------- MODULE SharedStateProofs --------------------------
(***************************************************************************)
(* Theorems about the three parts of the system in which several parties   *)
(* write the same state and no lock of the program keeps them apart: the   *)
(* unique pushes of PgPush, the audited changes, the rotation and the      *)
(* prune of Records, and the lists of the connection manager of Relay.     *)
(* Each part has an inductive invariant of its own; they share no state.   *)
(***************************************************************************)
EXTENDS PgPush, Records, Relay, TLAPS, FiniteSetTheorems

(***************************************************************************)
(* Unique pushes. For every set of clients, in a transaction or not, and   *)
(* every set of keys: a unique key names one job at a time, and push       *)
(* returns the id of a job that is or was there.                           *)
(***************************************************************************)

PushPlaces == {"idle", "lookup", "insert", "reselect", "returned", "raised"}

PushTyped ==
  /\ nextId \in Nat \ {0}
  /\ DOMAIN rows \subseteq 1..(nextId - 1) /\ rows \in [DOMAIN rows -> Keys]
  /\ mine \in [Clients -> Nat] /\ \A c \in Clients : mine[c] < nextId
  /\ pc \in [Clients -> PushPlaces]
  /\ key \in [Clients -> Keys]
  /\ result \in [Clients -> Nat]

\* An uncommitted row belongs to a transaction whose push has returned its id: the
\* caller ends the transaction before it pushes again, so the row's key stays.
MineReturned ==
  \A c \in Clients : mine[c] # 0 => c \in InTx /\ pc[c] = "returned" /\ result[c] = mine[c]

\* A committed row was seen by workers.
RowsQueued == DOMAIN rows \subseteq queued

PushInv == PushTyped /\ MineReturned /\ RowsQueued /\ OneJobPerKey /\ ReturnedIdIsReal

-----------------------------------------------------------------------------
LEMMA PushInitInv == PushInit => PushInv
  BY DEF PushInit, PushInv, PushTyped, PushPlaces, MineReturned, RowsQueued, OneJobPerKey, ReturnedIdIsReal, Holders

\* The steps of one client that store nothing: it calls, looks up, is refused, raises
\* or goes on.  Its own uncommitted row, if it had one, is gone or unchanged.
LEMMA QuietPush ==
  ASSUME PushInv, NEW c \in Clients,
         CallPush(c) \/ Lookup(c) \/ UniqueViolation(c) \/ Reselect(c) \/ RollbackPush(c) \/ Return(c)
  PROVE  PushInv'
<1> USE DEF PushInv
<1>1. /\ rows' = rows /\ queued' = queued
      /\ nextId' \in {nextId, nextId + 1}
      /\ \A d \in Clients \ {c} : pc'[d] = pc[d] /\ key'[d] = key[d] /\ result'[d] = result[d] /\ mine'[d] = mine[d]
      /\ mine'[c] = 0
      /\ pc'[c] = "returned" => result'[c] \in DOMAIN rows
  BY DEF CallPush, Lookup, UniqueViolation, Reselect, RollbackPush, Return, Found, Goto, Holders, PushTyped, PushPlaces, MineReturned
<1>2. PushTyped'
  <2>1. pc' \in [Clients -> PushPlaces] /\ key' \in [Clients -> Keys] /\ mine' \in [Clients -> Nat]
    BY DEF CallPush, Lookup, UniqueViolation, Reselect, RollbackPush, Return, Found, Goto, PushTyped, PushPlaces
  <2>2. result' \in [Clients -> Nat]
    BY DEF CallPush, Lookup, UniqueViolation, Reselect, RollbackPush, Return, Found, Goto, Holders, PushTyped
  <2> QED
    BY <1>1, <2>1, <2>2 DEF PushTyped
<1>3. MineReturned' /\ RowsQueued'
  BY <1>1 DEF MineReturned, RowsQueued, PushTyped
<1>4. OneJobPerKey'
  BY <1>1 DEF OneJobPerKey, Holders, PushTyped
<1>5. ReturnedIdIsReal'
  BY <1>1 DEF ReturnedIdIsReal, RowsQueued, PushTyped
<1> QED
  BY <1>2, <1>3, <1>4, <1>5

\* A row becomes visible under a key that nobody has, or that only its owner had.
LEMMA RowAppears ==
  ASSUME PushInv, NEW c \in Clients, NEW id \in Nat \ {0},
         rows' = Put(rows, id, key[c]), queued' = queued \cup {id}, key' = key,
         mine'[c] = 0, \A d \in Clients \ {c} : mine'[d] = mine[d],
         Holders(c) = {}, ~Undecided(c)
  PROVE  OneJobPerKey' /\ RowsQueued'
<1>1. /\ DOMAIN rows' = DOMAIN rows \cup {id}
      /\ \A i \in DOMAIN rows' : rows'[i] = IF i = id THEN key[c] ELSE rows[i]
  BY DEF Put, PushInv, PushTyped
<1>2. \A i \in DOMAIN rows : rows[i] # key[c]
  BY DEF Holders
<1>3. \A i, j \in DOMAIN rows' : rows'[i] = rows'[j] => i = j
  BY <1>1, <1>2 DEF PushInv, OneJobPerKey
<1>4. \A d, e \in Clients : mine'[d] # 0 /\ mine'[e] # 0 /\ key'[d] = key'[e] => d = e
  BY DEF PushInv, OneJobPerKey
<1>5. ASSUME NEW d \in Clients, mine'[d] # 0
      PROVE  Holders(d)' = {}
  <2>1. d # c /\ mine[d] # 0 /\ key[d] # key[c]
    BY <1>5 DEF Undecided
  <2> QED
    BY <1>1, <2>1 DEF PushInv, OneJobPerKey, Holders
<1> QED
  BY <1>1, <1>3, <1>4, <1>5 DEF OneJobPerKey, RowsQueued, PushInv

LEMMA InsertStep == ASSUME PushInv, NEW c \in Clients, Insert(c) PROVE PushInv'
<1> USE DEF PushInv
<1>1. /\ mine[c] = 0 /\ ~Undecided(c) /\ Holders(c) = {} /\ nextId' = nextId + 1 /\ key' = key
      /\ result' = [result EXCEPT ![c] = nextId] /\ pc' = [pc EXCEPT ![c] = "returned"]
  BY DEF Insert, Goto, MineReturned
<1>2. CASE c \in InTx
  <2>1. mine' = [mine EXCEPT ![c] = nextId] /\ rows' = rows /\ queued' = queued
    BY <1>2 DEF Insert
  <2>2. PushTyped'
    BY <1>1, <2>1 DEF PushTyped, PushPlaces
  <2>3. OneJobPerKey'
    BY <1>1, <2>1 DEF OneJobPerKey, Holders, Undecided, PushTyped
  <2> QED
    BY <1>1, <1>2, <2>1, <2>2, <2>3 DEF MineReturned, RowsQueued, ReturnedIdIsReal, PushTyped
<1>3. CASE c \notin InTx
  <2>1. mine' = mine /\ rows' = Put(rows, nextId, key[c]) /\ queued' = queued \cup {nextId}
    BY <1>3 DEF Insert
  <2>2. PushTyped'
    <3>1. rows' \in [DOMAIN rows' -> Keys] /\ DOMAIN rows' = DOMAIN rows \cup {nextId}
      BY <2>1 DEF Put, PushTyped
    <3> QED
      BY <1>1, <2>1, <3>1 DEF PushTyped, PushPlaces
  <2>3. OneJobPerKey' /\ RowsQueued'
    BY <1>1, <2>1, RowAppears DEF PushTyped
  <2> QED
    BY <1>1, <2>1, <2>2, <2>3 DEF MineReturned, ReturnedIdIsReal, PushTyped
<1> QED
  BY <1>2, <1>3

LEMMA CommitStep == ASSUME PushInv, NEW c \in Clients, CommitPush(c) PROVE PushInv'
<1> USE DEF PushInv
<1>1. /\ mine' = [mine EXCEPT ![c] = 0] /\ pc' = [pc EXCEPT ![c] = "idle"]
      /\ nextId' = nextId /\ key' = key /\ result' = result
  BY DEF CommitPush, Goto
<1>2. CASE mine[c] = 0
  <2>1. rows' = rows /\ queued' = queued /\ mine' = mine
    BY <1>1, <1>2 DEF CommitPush, PushTyped
  <2> QED
    BY <1>1, <2>1 DEF PushTyped, PushPlaces, MineReturned, RowsQueued, OneJobPerKey, Holders, ReturnedIdIsReal
<1>3. CASE mine[c] # 0
  <2>1. rows' = Put(rows, mine[c], key[c]) /\ queued' = queued \cup {mine[c]}
    BY <1>3 DEF CommitPush
  <2>2. Holders(c) = {} /\ ~Undecided(c)
    BY <1>3 DEF OneJobPerKey, Undecided
  <2>4. PushTyped'
    BY <1>1, <1>3, <2>1 DEF Put, PushTyped, PushPlaces
  <2>5. OneJobPerKey' /\ RowsQueued'
    BY <1>1, <1>3, <2>1, <2>2, RowAppears DEF PushTyped
  <2> QED
    BY <1>1, <2>1, <2>4, <2>5 DEF MineReturned, ReturnedIdIsReal, PushTyped
<1> QED
  BY <1>2, <1>3

LEMMA JobEndsStep == ASSUME PushInv, JobEnds PROVE PushInv'
<1> USE DEF PushInv
<1>1. PICK id \in DOMAIN rows : rows' = Drop(rows, id)
  BY DEF JobEnds
<1>2. UNCHANGED <<mine, nextId, pc, key, result, queued>>
  BY DEF JobEnds
<1>3. /\ DOMAIN rows' \subseteq DOMAIN rows /\ rows' \in [DOMAIN rows' -> Keys]
      /\ \A i \in DOMAIN rows' : rows'[i] = rows[i]
  BY <1>1 DEF Drop, PushTyped
<1> QED
  BY <1>2, <1>3 DEF PushTyped, MineReturned, RowsQueued, OneJobPerKey, Holders, ReturnedIdIsReal

LEMMA PushInvariance == PushSpec => []PushInv
<1>1. ASSUME PushInv, [PushNext]_pushVars PROVE PushInv'
  <2>1. CASE UNCHANGED pushVars
    BY <1>1, <2>1 DEF pushVars, PushInv, PushTyped, MineReturned, RowsQueued, OneJobPerKey, Holders, ReturnedIdIsReal
  <2>2. CASE PushNext
    BY <1>1, <2>2, QuietPush, InsertStep, CommitStep, JobEndsStep DEF PushNext
  <2> QED
    BY <1>1, <2>1, <2>2
<1> QED
  BY <1>1, PushInitInv, PTL DEF PushSpec

\* A unique key names one job at a time, committed or not, whoever pushes under it, and the
\* id a push returns is that of its own row, or of a row that workers have seen.
THEOREM KeysNameOneJob == PushSpec => []PushesOnce
  BY PushInvariance, PTL DEF PushInv, PushesOnce

-----------------------------------------------------------------------------
(***************************************************************************)
(* Records. For every set of rows, groups and transactions, every size of  *)
(* a page of the rotation and every batch of the prune: the trail tells    *)
(* what the table holds, whoever committed in which order, and a rotation  *)
(* that ends well leaves no value under the old key.                       *)
(***************************************************************************)

TableRow == [key : KeyKinds \cup {"none"}, txt : 0..MaxOps, grp : Groups \cup {0}]

Changes ==
  [pc : {"idle", "write", "refused", "commit"}, op : {"none", "insert", "text", "move", "delete"},
   grp : Groups \cup {0}, to : Groups \cup {0}, txt : 0..MaxOps,
   read : SUBSET (Ids \X TableRow), wrote : SUBSET Ids, event : Nat, day : {0, 1}]

Rotations ==
  [pc : {"never", "off", "page", "rows", "ok", "failed"}, dry : BOOLEAN, cursor : Nat,
   page : SUBSET [id : Ids, key : KeyKinds \cup {"none"}, txt : 0..MaxOps], full : BOOLEAN]

RecordsTyped ==
  /\ row \in [Ids -> TableRow] /\ said \in [Ids -> TableRow]
  /\ lock \in [Ids -> Txns \cup {NoOne}]
  /\ txn \in [Txns -> Changes]
  /\ \A e \in trail : e.n \in 1..number
  /\ number \in Nat /\ day \in {0, 1} /\ ops \in 0..MaxOps
  /\ rot \in Rotations /\ (rot.pc = "rows" <=> rot.page # {})

\* What a transaction read and wrote it has locked, and what it read is what the table
\* holds; so the condition of its WHERE still matches what it read, and what it commits
\* has an event for every row of the read.
ReadIsKept(t) ==
  /\ \A p \in txn[t].read : lock[p[1]] = t /\ row[p[1]] = p[2]
  /\ \A i \in txn[t].wrote : lock[i] = t
ChangeOK(t) ==
  /\ txn[t].pc = "idle" => txn[t].read = {} /\ txn[t].wrote = {}
  /\ txn[t].pc = "write" => /\ txn[t].op \in {"text", "move", "delete"}
                            /\ \A p \in txn[t].read : p[2] # Absent /\ p[2].grp = txn[t].grp
  /\ txn[t].pc = "commit" => /\ txn[t].op # "none" /\ \A p \in txn[t].read : p[1] \in txn[t].wrote
                             /\ txn[t].event > 0 /\ txn[t].event + Cardinality(txn[t].read) <= number + 1
  /\ IsFiniteSet(txn[t].read)
LocksOwned == \A i \in Ids : lock[i] # NoOne => txn[lock[i]].pc # "idle"
ChangesOK == LocksOwned /\ \A t \in Txns : ReadIsKept(t) /\ ChangeOK(t)

\* The rotation has left nothing behind its cursor, and what is still under the old key is
\* on the page, as it was read, or beyond the page of a table that goes on.
Ahead(i) ==
  CASE rot.pc = "page" -> i > rot.cursor
    [] rot.pc = "rows" -> \/ \E v \in rot.page : v.id = i /\ v.key = "old" /\ v.txt = row[i].txt
                          \/ rot.full /\ \A v \in rot.page : v.id < i
    [] rot.pc = "ok" -> FALSE
    [] OTHER -> TRUE
RotationOK ==
  /\ \A v, w \in rot.page : v.id = w.id => v = w
  /\ ~rot.dry => \A i \in Ids : row[i].key = "old" => Ahead(i)
  /\ rot.pc = "off" => rot.cursor = 0

RecordsInv == RecordsTyped /\ ChangesOK /\ TrailExplains /\ RotationOK

-----------------------------------------------------------------------------
LEMMA RowValues ==
  /\ Absent \in TableRow /\ Absent.key = "none"
  /\ \A i \in Ids : i \in Nat /\ i > 0
  /\ MaxOps \in Nat /\ RotateBatch \in Nat \ {0}
  BY RecordsAssumption DEF RecordsAssumption, Absent, TableRow

LEMMA RecordsInitInv == RecordsInit => RecordsInv
<1> SUFFICES ASSUME RecordsInit PROVE RecordsInv
  OBVIOUS
<1>1. row \in [Ids -> TableRow] /\ said = row
  BY RecordsAssumption DEF RecordsInit, RecordsAssumption, TableRow
<1>2. NoChange \in Changes /\ NoChange.read = {} /\ NoChange.wrote = {} /\ NoChange.pc = "idle"
  BY RowValues DEF NoChange, Changes
<1>3. txn = [t \in Txns |-> NoChange] /\ lock = [i \in Ids |-> NoOne]
  BY DEF RecordsInit
<1>4. rot \in Rotations /\ rot.pc \in {"off", "never"} /\ rot.page = {} /\ rot.cursor = 0
  BY DEF RecordsInit, Rotations
<1>5. RecordsTyped
  BY <1>1, <1>2, <1>3, <1>4, RowValues DEF RecordsInit, RecordsTyped
<1>6. ChangesOK
  BY <1>2, <1>3, FS_EmptySet DEF ChangesOK, LocksOwned, ReadIsKept, ChangeOK
<1>7. TrailExplains
  BY <1>1 DEF TrailExplains
<1>8. RotationOK
  BY <1>4 DEF RotationOK, Ahead
<1> QED
  BY <1>5, <1>6, <1>7, <1>8 DEF RecordsInv

-----------------------------------------------------------------------------
(* What most steps leave alone *)

\* A value under the old key is never written: it stays as it is or goes away.
OldDecays == \A i \in Ids : row'[i].key = "old" => row[i].key = "old" /\ row'[i].txt = row[i].txt

LEMMA RotationKept ==
  ASSUME RotationOK, rot' = rot, OldDecays
  PROVE  RotationOK'
  BY DEF RotationOK, Ahead, OldDecays

\* A step of one transaction does not touch what the others locked.
LEMMA OthersKeep ==
  ASSUME RecordsTyped, ChangesOK, NEW t \in Txns,
         \A u \in Txns \ {t} : txn'[u] = txn[u],
         \A i \in Ids : lock[i] \in Txns \ {t} => lock'[i] = lock[i] /\ row'[i] = row[i],
         number' \in Nat, number' >= number
  PROVE  \A u \in Txns \ {t} : ReadIsKept(u)' /\ ChangeOK(u)'
<1> SUFFICES ASSUME NEW u \in Txns \ {t} PROVE ReadIsKept(u)' /\ ChangeOK(u)'
  OBVIOUS
<1>1. txn[u] \in Changes /\ txn'[u] = txn[u] /\ ReadIsKept(u) /\ ChangeOK(u)
  BY DEF RecordsTyped, ChangesOK
<1>2. \A p \in txn[u].read : p[1] \in Ids
  BY <1>1 DEF Changes
<1>3. \A i \in txn[u].wrote : i \in Ids
  BY <1>1 DEF Changes
<1>4. ReadIsKept(u)'
  BY <1>1, <1>2, <1>3 DEF ReadIsKept
<1>5. ChangeOK(u)'
  <2>1. txn[u].pc = "commit" => txn[u].event + Cardinality(txn[u].read) <= number' + 1
    <3> SUFFICES ASSUME txn[u].pc = "commit" PROVE txn[u].event + Cardinality(txn[u].read) <= number' + 1
      OBVIOUS
    <3>1. Cardinality(txn[u].read) \in Nat
      BY <1>1, FS_CardinalityType DEF ChangeOK
    <3>2. txn[u].event \in Nat /\ number \in Nat
      BY <1>1 DEF Changes, RecordsTyped
    <3>3. txn[u].event + Cardinality(txn[u].read) <= number + 1
      BY <1>1 DEF ChangeOK
    <3> QED
      BY <3>1, <3>2, <3>3
  <2> QED
    BY <1>1, <2>1 DEF ChangeOK
<1> QED
  BY <1>4, <1>5

-----------------------------------------------------------------------------
(* The audited changes *)

LEMMA MatchingFinite ==
  ASSUME NEW g, RecordsTyped
  PROVE  /\ Matching(g) \subseteq Ids /\ IsFiniteSet(Matching(g))
         /\ \A i \in Matching(g) : row[i] # Absent /\ row[i].grp = g
<1>1. Matching(g) \subseteq Ids /\ \A i \in Matching(g) : row[i] # Absent /\ row[i].grp = g
  BY DEF Matching, Rows
<1> QED
  BY <1>1, RecordsAssumption, FS_Subset DEF RecordsAssumption

LEMMA ReadRowsKeeps ==
  ASSUME RecordsInv, NEW t \in Txns, NEW op \in {"move", "text", "delete"}, NEW g \in Groups, NEW to \in Groups,
         ReadRows(t, op, g, to)
  PROVE  RecordsInv'
<1> DEFINE x == ToWrite(op, g, to)
           m == Matching(g)
<1> USE DEF RecordsInv
<1>0. RecordsTyped /\ ChangesOK
  OBVIOUS
<1>1. /\ row' = row /\ said' = said /\ silent' = silent /\ trail' = trail /\ number' = number /\ day' = day
      /\ rot' = rot /\ ops' = ops + 1 /\ ops < MaxOps
      /\ txn' = [txn EXCEPT ![t] = x] /\ txn[t].pc = "idle"
      /\ lock' = Locked(t, m) /\ Free(t, m)
  BY DEF ReadRows, Begins, Tools
<1>2. m \subseteq Ids /\ IsFiniteSet(m) /\ \A i \in m : row[i] # Absent /\ row[i].grp = g
  BY <1>0, MatchingFinite
<1>3. /\ x \in Changes /\ x.pc \in {"write", "refused"} /\ x.op = op /\ x.grp = g
      /\ x.read = {<<i, row[i]>> : i \in m} /\ x.wrote = {}
  <2>1. {<<i, row[i]>> : i \in m} \in SUBSET (Ids \X TableRow)
    BY <1>0, <1>2 DEF RecordsTyped
  <2>2. ops + 1 \in 0..MaxOps
    BY <1>0, <1>1, RowValues DEF RecordsTyped
  <2>3. PICK k \in {"write", "refused"} :
          k = IF WithinLimit(Cardinality(Matching(g))) \/ ~Strict THEN "write" ELSE "refused"
    OBVIOUS
  <2>4. PICK r \in SUBSET (Ids \X TableRow) : r = {<<i, row[i]>> : i \in Matching(g)}
    BY <2>1
  <2>5. x = [NoChange EXCEPT !.pc = k, !.op = op, !.grp = g, !.to = to, !.txt = ops + 1, !.read = r]
    BY <2>3, <2>4 DEF ToWrite
  <2> HIDE DEF x
  <2> QED
    BY <2>2, <2>4, <2>5 DEF NoChange, Changes
<1> HIDE DEF x, m
<1>4. lock' \in [Ids -> Txns \cup {NoOne}] /\ \A i \in Ids : lock'[i] = IF i \in m THEN t ELSE lock[i]
  BY <1>0, <1>1 DEF Locked, RecordsTyped
<1>5. txn' \in [Txns -> Changes] /\ txn'[t] = x /\ \A u \in Txns \ {t} : txn'[u] = txn[u]
  BY <1>0, <1>1, <1>3 DEF RecordsTyped
<1>6. RecordsTyped'
  BY <1>0, <1>1, <1>4, <1>5, RowValues DEF RecordsTyped
<1>7. \A u \in Txns \ {t} : ReadIsKept(u)' /\ ChangeOK(u)'
  <2>1. \A i \in Ids : lock[i] \in Txns \ {t} => lock'[i] = lock[i] /\ row'[i] = row[i]
    BY <1>1, <1>4, RecordsAssumption DEF Free, RecordsAssumption
  <2> QED
    BY <1>0, <1>1, <1>5, <2>1, OthersKeep DEF RecordsTyped
<1>8. ReadIsKept(t)'
  <2>1. \A p \in x.read : p[1] \in m /\ p[2] = row[p[1]]
    BY <1>3
  <2> QED
    BY <1>1, <1>2, <1>3, <1>4, <1>5, <2>1 DEF ReadIsKept
<1>9. ChangeOK(t)'
  <2>1. IsFiniteSet(x.read)
    <3> DEFINE f == [i \in m |-> <<i, row[i]>>]
    <3>1. f \in Surjection(m, x.read)
      BY <1>3 DEF Surjection
    <3> QED
      BY <1>2, <3>1, FS_Surjection
  <2>2. \A p \in x.read : p[2] # Absent /\ p[2].grp = g
    BY <1>2, <1>3
  <2> QED
    BY <1>3, <1>5, <2>1, <2>2 DEF ChangeOK
<1>10. LocksOwned'
  <2> SUFFICES ASSUME NEW i \in Ids, lock'[i] # NoOne PROVE txn'[lock'[i]].pc # "idle"
    BY DEF LocksOwned
  <2>1. CASE lock'[i] = t
    BY <1>3, <1>5, <2>1
  <2>2. CASE lock'[i] # t
    BY <1>0, <1>4, <1>5, <2>2 DEF ChangesOK, LocksOwned, RecordsTyped
  <2> QED
    BY <2>1, <2>2
<1>11. TrailExplains' /\ RotationOK'
  BY <1>1, RotationKept DEF TrailExplains, OldDecays
<1> QED
  BY <1>6, <1>7, <1>8, <1>9, <1>10, <1>11 DEF ChangesOK

\* The row of an insert and its event.
LEMMA InsertRowKeeps ==
  ASSUME RecordsInv, NEW t \in Txns, NEW i \in Ids, NEW g \in Groups, InsertRow(t, i, g)
  PROVE  RecordsInv'
<1> DEFINE x == [NoChange EXCEPT !.pc = "commit", !.op = "insert", !.to = g, !.txt = ops + 1,
                                 !.read = {<<i, Absent>>}, !.wrote = {i}, !.event = number + 1, !.day = day]
<1> USE DEF RecordsInv
<1>0. RecordsTyped /\ ChangesOK
  OBVIOUS
<1>1. /\ row' = row /\ said' = said /\ silent' = silent /\ trail' = trail /\ number' = number + 1 /\ day' = day
      /\ rot' = rot /\ ops' = ops + 1 /\ ops < MaxOps
      /\ txn' = [txn EXCEPT ![t] = x] /\ txn[t].pc = "idle"
      /\ lock' = Locked(t, {i}) /\ lock[i] = NoOne /\ row[i] = Absent
  BY DEF InsertRow, Begins, Tools
<1>2. /\ x \in Changes /\ x.pc = "commit" /\ x.op = "insert" /\ x.read = {<<i, Absent>>} /\ x.wrote = {i}
      /\ x.event = number + 1
  <2>1. ops + 1 \in 0..MaxOps /\ number + 1 \in Nat /\ day \in {0, 1}
    BY <1>0, <1>1, RowValues DEF RecordsTyped
  <2>2. {<<i, Absent>>} \in SUBSET (Ids \X TableRow)
    BY RowValues
  <2> QED
    BY <2>1, <2>2 DEF NoChange, Changes
<1> HIDE DEF x
<1>3. lock' \in [Ids -> Txns \cup {NoOne}] /\ \A j \in Ids : lock'[j] = IF j = i THEN t ELSE lock[j]
  BY <1>0, <1>1 DEF Locked, RecordsTyped
<1>4. txn' \in [Txns -> Changes] /\ txn'[t] = x /\ \A u \in Txns \ {t} : txn'[u] = txn[u]
  BY <1>0, <1>1, <1>2 DEF RecordsTyped
<1>5. RecordsTyped'
  <2>1. number' \in Nat /\ \A e \in trail' : e.n \in 1..number'
    BY <1>0, <1>1 DEF RecordsTyped
  <2>2. ops' \in 0..MaxOps
    BY <1>0, <1>1, RowValues DEF RecordsTyped
  <2> QED
    BY <1>0, <1>1, <1>3, <1>4, <2>1, <2>2 DEF RecordsTyped
<1>6. \A u \in Txns \ {t} : ReadIsKept(u)' /\ ChangeOK(u)'
  <2>1. \A j \in Ids : lock[j] \in Txns \ {t} => lock'[j] = lock[j] /\ row'[j] = row[j]
    BY <1>1, <1>3, RecordsAssumption DEF RecordsAssumption
  <2>2. number' \in Nat /\ number' >= number
    BY <1>0, <1>1 DEF RecordsTyped
  <2> QED
    BY <1>0, <1>4, <2>1, <2>2, OthersKeep
<1>7. ReadIsKept(t)'
  <2>1. \A p \in x.read : p[1] = i /\ p[2] = Absent
    BY <1>2
  <2> QED
    BY <1>1, <1>2, <1>3, <1>4, <2>1 DEF ReadIsKept
<1>8. ChangeOK(t)'
  <2>1. IsFiniteSet({<<i, Absent>>}) /\ Cardinality({<<i, Absent>>}) = 1
    BY FS_Singleton
  <2>2. x.event > 0 /\ x.event + 1 <= number' + 1
    BY <1>0, <1>1, <1>2 DEF RecordsTyped
  <2>3. \A p \in x.read : p[1] \in x.wrote
    BY <1>2
  <2> QED
    BY <1>2, <1>4, <2>1, <2>2, <2>3 DEF ChangeOK
<1>9. LocksOwned'
  <2> SUFFICES ASSUME NEW j \in Ids, lock'[j] # NoOne PROVE txn'[lock'[j]].pc # "idle"
    BY DEF LocksOwned
  <2>1. CASE lock'[j] = t
    BY <1>2, <1>4, <2>1
  <2>2. CASE lock'[j] # t
    BY <1>0, <1>3, <1>4, <2>2 DEF ChangesOK, LocksOwned, RecordsTyped
  <2> QED
    BY <2>1, <2>2
<1>10. TrailExplains' /\ RotationOK'
  BY <1>1, RotationKept DEF TrailExplains, OldDecays
<1> QED
  BY <1>5, <1>6, <1>7, <1>8, <1>9, <1>10 DEF ChangesOK

\* The write finds every row that was read: they are locked, and as they were.
LEMMA WriteRowsKeeps ==
  ASSUME RecordsInv, NEW t \in Txns, WriteRows(t)
  PROVE  RecordsInv'
<1> DEFINE m == Matching(txn[t].grp)
           n == Cardinality(txn[t].read)
<1> USE DEF RecordsInv
<1>0. RecordsTyped /\ ChangesOK /\ txn[t] \in Changes /\ ReadIsKept(t) /\ ChangeOK(t)
  BY DEF ChangesOK, RecordsTyped
<1>1. /\ row' = row /\ said' = said /\ silent' = silent /\ trail' = trail /\ number' = number + n /\ day' = day
      /\ rot' = rot /\ ops' = ops
      /\ txn' = [txn EXCEPT ![t].pc = "commit", ![t].wrote = m, ![t].event = number + 1, ![t].day = day]
      /\ txn[t].pc = "write" /\ lock' = Locked(t, m) /\ Free(t, m)
  BY DEF WriteRows, Tools
<1>2. m \subseteq Ids /\ n \in Nat
  BY <1>0, MatchingFinite, FS_CardinalityType DEF ChangeOK
<1>3. \A p \in txn[t].read : p[1] \in m
  <2> SUFFICES ASSUME NEW p \in txn[t].read PROVE p[1] \in m
    OBVIOUS
  <2>1. p[1] \in Ids /\ row[p[1]] = p[2] /\ p[2] # Absent /\ p[2].grp = txn[t].grp
    BY <1>0, <1>1 DEF ReadIsKept, ChangeOK, Changes
  <2> QED
    BY <2>1 DEF Matching, Rows
<1> HIDE DEF m, n
<1>4. PICK x : x = [txn[t] EXCEPT !.pc = "commit", !.wrote = m, !.event = number + 1, !.day = day]
  OBVIOUS
<1>5. /\ x \in Changes /\ x.pc = "commit" /\ x.op = txn[t].op /\ x.read = txn[t].read /\ x.wrote = m
      /\ x.event = number + 1
  <2>1. number + 1 \in Nat /\ day \in {0, 1}
    BY <1>0 DEF RecordsTyped
  <2> QED
    BY <1>0, <1>2, <1>4, <2>1 DEF Changes
<1>6. txn' \in [Txns -> Changes] /\ txn'[t] = x /\ \A u \in Txns \ {t} : txn'[u] = txn[u]
  BY <1>0, <1>1, <1>4, <1>5 DEF RecordsTyped
<1>7. lock' \in [Ids -> Txns \cup {NoOne}] /\ \A j \in Ids : lock'[j] = IF j \in m THEN t ELSE lock[j]
  BY <1>0, <1>1 DEF Locked, RecordsTyped
<1>8. number \in Nat /\ number' \in Nat /\ number' >= number
  BY <1>0, <1>1, <1>2 DEF RecordsTyped
<1>9. RecordsTyped'
  <2>1. \A e \in trail : e.n \in 1..number'
    BY <1>0, <1>8 DEF RecordsTyped
  <2> QED
    BY <1>0, <1>1, <1>6, <1>7, <1>8, <2>1 DEF RecordsTyped
<1>10. \A u \in Txns \ {t} : ReadIsKept(u)' /\ ChangeOK(u)'
  <2>1. \A j \in Ids : lock[j] \in Txns \ {t} => lock'[j] = lock[j] /\ row'[j] = row[j]
    BY <1>1, <1>7, RecordsAssumption DEF Free, RecordsAssumption
  <2> QED
    BY <1>0, <1>6, <1>8, <2>1, OthersKeep
<1>11. ReadIsKept(t)'
  <2>1. \A p \in txn[t].read : p[1] \in Ids /\ lock[p[1]] = t /\ row[p[1]] = p[2]
    BY <1>0 DEF ReadIsKept, Changes
  <2> QED
    BY <1>1, <1>2, <1>5, <1>6, <1>7, <2>1 DEF ReadIsKept
<1>12. ChangeOK(t)'
  <2>1. x.event > 0 /\ x.event + Cardinality(x.read) <= number' + 1
    BY <1>1, <1>2, <1>5, <1>8 DEF n
  <2>2. x.op # "none" /\ IsFiniteSet(x.read)
    BY <1>0, <1>1, <1>5 DEF ChangeOK
  <2> QED
    BY <1>3, <1>5, <1>6, <2>1, <2>2 DEF ChangeOK
<1>13. LocksOwned'
  <2> SUFFICES ASSUME NEW j \in Ids, lock'[j] # NoOne PROVE txn'[lock'[j]].pc # "idle"
    BY DEF LocksOwned
  <2>1. CASE lock'[j] = t
    BY <1>5, <1>6, <2>1
  <2>2. CASE lock'[j] # t
    BY <1>0, <1>6, <1>7, <2>2 DEF ChangesOK, LocksOwned, RecordsTyped
  <2> QED
    BY <2>1, <2>2
<1>14. TrailExplains' /\ RotationOK'
  BY <1>1, RotationKept DEF TrailExplains, OldDecays
<1> QED
  BY <1>9, <1>10, <1>11, <1>12, <1>13, <1>14 DEF ChangesOK

\* Nothing of a change that is rolled back is left, its locks included.
LEMMA UnlockedKeeps ==
  ASSUME RecordsTyped, ChangesOK, NEW t \in Txns, txn' = [txn EXCEPT ![t] = NoChange], lock' = Unlocked(t),
         \A i \in Ids : lock[i] \in Txns \ {t} => row'[i] = row[i], number' = number
  PROVE  ChangesOK' /\ txn' \in [Txns -> Changes] /\ lock' \in [Ids -> Txns \cup {NoOne}]
<1>1. NoChange \in Changes /\ NoChange.read = {} /\ NoChange.wrote = {} /\ NoChange.pc = "idle"
  BY RowValues DEF NoChange, Changes
<1>2. txn' \in [Txns -> Changes] /\ txn'[t] = NoChange /\ \A u \in Txns \ {t} : txn'[u] = txn[u]
  BY <1>1 DEF RecordsTyped
<1>3. lock' \in [Ids -> Txns \cup {NoOne}] /\ \A i \in Ids : lock'[i] = IF lock[i] = t THEN NoOne ELSE lock[i]
  BY DEF Unlocked, RecordsTyped
<1>4. \A u \in Txns \ {t} : ReadIsKept(u)' /\ ChangeOK(u)'
  <2>1. \A i \in Ids : lock[i] \in Txns \ {t} => lock'[i] = lock[i] /\ row'[i] = row[i]
    BY <1>3
  <2>2. number' \in Nat /\ number' >= number
    BY DEF RecordsTyped
  <2> QED
    BY <1>2, <2>1, <2>2, OthersKeep
<1>5. ReadIsKept(t)' /\ ChangeOK(t)'
  BY <1>1, <1>2, FS_EmptySet DEF ReadIsKept, ChangeOK
<1>6. LocksOwned'
  BY <1>2, <1>3 DEF ChangesOK, LocksOwned, RecordsTyped
<1> QED
  BY <1>2, <1>3, <1>4, <1>5, <1>6 DEF ChangesOK

LEMMA RollbackKeeps ==
  ASSUME RecordsInv, NEW t \in Txns, Rollback(t)
  PROVE  RecordsInv'
<1> USE DEF RecordsInv
<1>1. /\ row' = row /\ said' = said /\ silent' = silent /\ trail' = trail /\ number' = number /\ day' = day
      /\ rot' = rot /\ ops' = ops /\ txn' = [txn EXCEPT ![t] = NoChange] /\ lock' = Unlocked(t)
  BY DEF Rollback, Tools
<1>2. ChangesOK' /\ txn' \in [Txns -> Changes] /\ lock' \in [Ids -> Txns \cup {NoOne}]
  BY <1>1, UnlockedKeeps
<1>3. RecordsTyped'
  BY <1>1, <1>2 DEF RecordsTyped
<1>4. TrailExplains' /\ RotationOK'
  BY <1>1, RotationKept DEF TrailExplains, OldDecays
<1> QED
  BY <1>2, <1>3, <1>4

\* What a change leaves is a row, and never under the old key unless it was there.
LEMMA AfterIsRow ==
  ASSUME NEW x \in Changes, x.op # "none", NEW r \in TableRow
  PROVE  After(x, r) \in TableRow /\ (After(x, r).key = "old" => r.key = "old" /\ After(x, r).txt = r.txt)
<1>0. /\ x.op \in {"insert", "text", "move", "delete"} /\ x.txt \in 0..MaxOps /\ x.to \in Groups \cup {0}
      /\ "new" \in KeyKinds
  BY DEF Changes, KeyKinds
<1>1. CASE x.op = "insert"
  BY <1>0, <1>1 DEF After, TableRow
<1>2. CASE x.op = "text"
  BY <1>0, <1>2 DEF After, TableRow
<1>3. CASE x.op = "move"
  BY <1>0, <1>3 DEF After, TableRow
<1>4. CASE x.op = "delete"
  BY <1>0, <1>4, RowValues DEF After
<1> QED
  BY <1>0, <1>1, <1>2, <1>3, <1>4

LEMMA CommitKeeps ==
  ASSUME RecordsInv, NEW t \in Txns, Commit(t)
  PROVE  RecordsInv'
<1> DEFINE x == txn[t]
           read == {p[1] : p \in x.read}
<1> USE DEF RecordsInv
<1>0. /\ RecordsTyped /\ ChangesOK /\ x \in Changes /\ ReadIsKept(t) /\ ChangeOK(t)
      /\ row \in [Ids -> TableRow] /\ said \in [Ids -> TableRow]
  BY DEF ChangesOK, RecordsTyped
<1>1. /\ row' = [i \in Ids |-> IF i \in x.wrote THEN After(x, row[i]) ELSE row[i]]
      /\ said' = [i \in Ids |-> IF i \in read THEN After(x, row[i]) ELSE said[i]]
      /\ silent' = silent \cup (x.wrote \ read) /\ x.pc = "commit"
      /\ trail' = trail \cup {[n |-> x.event + k - 1, day |-> x.day] : k \in 1..Cardinality(read)}
      /\ number' = number /\ day' = day /\ rot' = rot /\ ops' = ops
      /\ txn' = [txn EXCEPT ![t] = NoChange] /\ lock' = Unlocked(t)
  BY DEF Commit
<1>2. x.op # "none" /\ read \subseteq x.wrote /\ \A i \in x.wrote : lock[i] = t
  BY <1>0, <1>1 DEF ChangeOK, ReadIsKept
<1>3. /\ IsFiniteSet(read) /\ Cardinality(read) \in Nat
      /\ x.event \in Nat /\ x.event > 0 /\ x.event + Cardinality(read) <= number + 1
  <2> DEFINE f == [p \in x.read |-> p[1]]
  <2>1. f \in Surjection(x.read, read)
    BY DEF Surjection
  <2>2. IsFiniteSet(read) /\ Cardinality(read) <= Cardinality(x.read)
    BY <1>0, <2>1, FS_Surjection DEF ChangeOK
  <2>3. Cardinality(read) \in Nat /\ Cardinality(x.read) \in Nat
    BY <1>0, <2>2, FS_CardinalityType DEF ChangeOK
  <2>4. x.event \in Nat /\ x.event > 0 /\ x.event + Cardinality(x.read) <= number + 1 /\ number \in Nat
    BY <1>0, <1>1 DEF ChangeOK, Changes, RecordsTyped
  <2> HIDE DEF x, read
  <2> QED
    BY <2>2, <2>3, <2>4
<1> HIDE DEF x, read
<1>4. row' \in [Ids -> TableRow] /\ said' \in [Ids -> TableRow] /\ OldDecays
  <2>1. \A i \in Ids : After(x, row[i]) \in TableRow
                       /\ (After(x, row[i]).key = "old" => row[i].key = "old" /\ After(x, row[i]).txt = row[i].txt)
    BY <1>0, <1>2, AfterIsRow
  <2> QED
    BY <1>0, <1>1, <2>1 DEF OldDecays
<1>5. ChangesOK' /\ txn' \in [Txns -> Changes] /\ lock' \in [Ids -> Txns \cup {NoOne}]
  <2>1. \A i \in Ids : lock[i] \in Txns \ {t} => row'[i] = row[i]
    BY <1>1, <1>2
  <2> QED
    BY <1>0, <1>1, <2>1, UnlockedKeeps
<1>6. RecordsTyped'
  <2>1. \A e \in trail' : e.n \in 1..number'
    <3> SUFFICES ASSUME NEW e \in trail' PROVE e.n \in 1..number
      BY <1>1
    <3>1. CASE e \in trail
      BY <1>0, <3>1 DEF RecordsTyped
    <3>2. CASE e \notin trail
      <4>1. PICK k \in 1..Cardinality(read) : e = [n |-> x.event + k - 1, day |-> x.day]
        BY <1>1, <3>2
      <4>2. e.n = x.event + k - 1 /\ number \in Nat
        BY <1>0, <4>1 DEF RecordsTyped
      <4> QED
        BY <1>3, <4>2
    <3> QED
      BY <3>1, <3>2
  <2> QED
    BY <1>0, <1>1, <1>4, <1>5, <2>1 DEF RecordsTyped
<1>7. TrailExplains'
  BY <1>1, <1>2 DEF TrailExplains
<1>8. RotationOK'
  BY <1>1, <1>4, RotationKept
<1> QED
  BY <1>5, <1>6, <1>7, <1>8

-----------------------------------------------------------------------------
(* The rotation *)

\* A step of the rotation writes unlocked rows at most, and their keys only.
LEMMA RotatesKeeps ==
  ASSUME RecordsInv, NEW r \in Rotations, Rotates(r), r.pc \in {"ok", "failed"} \/ (r.pc = "rows" <=> r.page # {}),
         row' \in [Ids -> TableRow],
         \A i \in Ids : /\ row'[i].txt = row[i].txt /\ row'[i].grp = row[i].grp
                        /\ lock[i] # NoOne => row'[i] = row[i]
  PROVE  /\ RecordsTyped' /\ ChangesOK' /\ TrailExplains'
         /\ rot' \in Rotations /\ rot'.pc = r.pc /\ rot'.dry = r.dry
         /\ r.pc \in {"ok", "failed"} => rot'.page = {}
         /\ r.pc \notin {"ok", "failed"} => rot' = r
<1> USE DEF RecordsInv
<1>1. /\ lock' = lock /\ txn' = txn /\ trail' = trail /\ number' = number /\ day' = day /\ ops' = ops
      /\ said' = said /\ silent' = silent
      /\ rot' = IF r.pc \in {"ok", "failed"} THEN [r EXCEPT !.cursor = 0, !.page = {}, !.full = FALSE] ELSE r
  BY DEF Rotates
<1>2. /\ rot' \in Rotations /\ rot'.pc = r.pc /\ rot'.dry = r.dry
      /\ r.pc \in {"ok", "failed"} => rot'.page = {}
      /\ r.pc \notin {"ok", "failed"} => rot' = r
  BY <1>1 DEF Rotations
<1>3. RecordsTyped'
  BY <1>1, <1>2 DEF RecordsTyped
<1>4. ChangesOK'
  <2> SUFFICES ASSUME NEW t \in Txns PROVE ReadIsKept(t)'
    BY <1>1 DEF ChangesOK, LocksOwned, ChangeOK
  <2>1. txn[t] \in Changes /\ ReadIsKept(t) /\ t # NoOne
    BY RecordsAssumption DEF ChangesOK, RecordsTyped, RecordsAssumption
  <2>2. \A p \in txn[t].read : p[1] \in Ids
    BY <2>1 DEF Changes
  <2> QED
    BY <1>1, <2>1, <2>2 DEF ReadIsKept
<1>5. TrailExplains'
  BY <1>1 DEF TrailExplains
<1> QED
  BY <1>2, <1>3, <1>4, <1>5

LEMMA RowsUntouched ==
  ASSUME RecordsInv, row' = row
  PROVE  /\ row' \in [Ids -> TableRow]
         /\ \A i \in Ids : /\ row'[i].txt = row[i].txt /\ row'[i].grp = row[i].grp
                           /\ lock[i] # NoOne => row'[i] = row[i]
  BY DEF RecordsInv, RecordsTyped

LEMMA RotateStartKeeps ==
  ASSUME RecordsInv, NEW dry \in BOOLEAN, RotateStart(dry)
  PROVE  RecordsInv'
<1> DEFINE r == [rot EXCEPT !.pc = "page", !.dry = dry]
<1>1. rot \in Rotations /\ rot.pc = "off" /\ rot.page = {} /\ rot.cursor = 0 /\ row' = row /\ Rotates(r)
  BY DEF RecordsInv, RecordsTyped, RotationOK, RotateStart
<1>2. r \in Rotations /\ r.pc = "page" /\ r.page = {} /\ r.cursor = 0
  BY <1>1 DEF Rotations
<1> HIDE DEF r
<1>3. RecordsTyped' /\ ChangesOK' /\ TrailExplains' /\ rot' = r
  BY <1>1, <1>2, RowsUntouched, RotatesKeeps
<1>4. RotationOK'
  BY <1>2, <1>3, RowValues DEF RotationOK, Ahead
<1> QED
  BY <1>3, <1>4 DEF RecordsInv

LEMMA RotateFailsKeeps ==
  ASSUME RecordsInv, RotateFails
  PROVE  RecordsInv'
<1> DEFINE r == [rot EXCEPT !.pc = "failed"]
<1>1. rot \in Rotations /\ row' = row /\ Rotates(r)
  BY DEF RecordsInv, RecordsTyped, RotateFails
<1>2. r \in Rotations /\ r.pc = "failed"
  BY <1>1 DEF Rotations
<1> HIDE DEF r
<1>3. RecordsTyped' /\ ChangesOK' /\ TrailExplains' /\ rot'.pc = "failed" /\ rot'.page = {}
  BY <1>1, <1>2, RowsUntouched, RotatesKeeps
<1>4. RotationOK'
  BY <1>3 DEF RotationOK, Ahead
<1> QED
  BY <1>3, <1>4 DEF RecordsInv

\* Beyond the cursor there is nothing but the page, unless the page is full.
LEMMA ReadPageKeeps ==
  ASSUME RecordsInv, ReadPage
  PROVE  RecordsInv'
<1> DEFINE rest == {i \in Rows : i > rot.cursor}
<1>1. PICK ids \in SUBSET rest : IsFirst(ids, rest, RotateBatch) /\ PageRead(ids)
  BY DEF ReadPage
<1>2. rot \in Rotations /\ rot.pc = "page" /\ row' = row /\ row \in [Ids -> TableRow] /\ ids \subseteq Ids
  BY <1>1 DEF RecordsInv, RecordsTyped, PageRead, Rows
<1>3. ~rot.dry => \A i \in Ids : row[i].key = "old" => i \in rest
  BY <1>2, RowValues DEF RecordsInv, RotationOK, Ahead, Rows
<1>4. Cardinality(ids) # RotateBatch => ids = rest
  BY <1>1 DEF IsFirst
<1>5. \A i \in ids, j \in rest \ ids : i < j
  BY <1>1 DEF IsFirst
<1>6. ids = {} => Cardinality(ids) # RotateBatch
  BY FS_EmptySet, RowValues
<1> HIDE DEF rest
<1>7. CASE ids = {}
  <2> DEFINE r == [rot EXCEPT !.pc = "ok"]
  <2>1. Rotates(r)
    BY <1>1, <1>7 DEF PageRead
  <2>2. r \in Rotations /\ r.pc = "ok" /\ r.dry = rot.dry
    BY <1>2 DEF Rotations
  <2> HIDE DEF r
  <2>3. RecordsTyped' /\ ChangesOK' /\ TrailExplains' /\ rot'.pc = "ok" /\ rot'.page = {} /\ rot'.dry = rot.dry
    BY <1>2, <2>1, <2>2, RowsUntouched, RotatesKeeps
  <2>4. RotationOK'
    BY <1>2, <1>3, <1>4, <1>6, <1>7, <2>3 DEF RotationOK, Ahead
  <2> QED
    BY <2>3, <2>4 DEF RecordsInv
<1>8. CASE ids # {}
  <2> DEFINE page == {[id |-> i, key |-> row[i].key, txt |-> row[i].txt] : i \in ids}
             full == Cardinality(ids) = RotateBatch
             r == [rot EXCEPT !.pc = "rows", !.full = full, !.page = page]
  <2>1. Rotates(r)
    BY <1>1, <1>8 DEF PageRead
  <2>2. page \in SUBSET [id : Ids, key : KeyKinds \cup {"none"}, txt : 0..MaxOps] /\ page # {} /\ full \in BOOLEAN
    <3>1. \A i \in ids : i \in Ids /\ row[i].key \in KeyKinds \cup {"none"} /\ row[i].txt \in 0..MaxOps
      BY <1>2 DEF TableRow
    <3>2. \A v \in page : v \in [id : Ids, key : KeyKinds \cup {"none"}, txt : 0..MaxOps]
      BY <3>1
    <3> QED
      BY <1>8, <3>2
  <2>3. /\ \A v \in page : v.id \in ids /\ v.key = row[v.id].key /\ v.txt = row[v.id].txt
        /\ \A i \in ids : \E v \in page : v.id = i /\ v.key = row[i].key /\ v.txt = row[i].txt
        /\ \A v, w \in page : v.id = w.id => v = w
    <3>1. ASSUME NEW v \in page PROVE v.id \in ids /\ v = [id |-> v.id, key |-> row[v.id].key, txt |-> row[v.id].txt]
      <4>1. PICK i \in ids : v = [id |-> i, key |-> row[i].key, txt |-> row[i].txt]
        BY <3>1
      <4> QED
        BY <4>1
    <3>2. ASSUME NEW i \in ids PROVE \E v \in page : v.id = i /\ v.key = row[i].key /\ v.txt = row[i].txt
      <4>1. [id |-> i, key |-> row[i].key, txt |-> row[i].txt] \in page
        OBVIOUS
      <4> HIDE DEF page
      <4> QED
        BY <4>1
    <3> HIDE DEF page
    <3>3. ASSUME NEW v \in page PROVE v.key = row[v.id].key /\ v.txt = row[v.id].txt
      <4>1. v = [id |-> v.id, key |-> row[v.id].key, txt |-> row[v.id].txt]
        BY <3>1
      <4> QED
        BY <4>1
    <3>4. \A v, w \in page : v.id = w.id => v = w
      BY <3>1, Zenon
    <3> QED
      BY <3>1, <3>2, <3>3, <3>4
  <2> HIDE DEF page, full
  <2>4. r \in Rotations /\ r.pc = "rows" /\ r.dry = rot.dry /\ r.page = page /\ r.full = full
    BY <1>2, <2>2 DEF Rotations
  <2> HIDE DEF r
  <2>5. RecordsTyped' /\ ChangesOK' /\ TrailExplains' /\ rot' = r
    BY <1>2, <2>1, <2>2, <2>4, RowsUntouched, RotatesKeeps
  <2>6. ASSUME ~rot.dry, NEW i \in Ids, row[i].key = "old" PROVE Ahead(i)'
    <3>1. CASE i \in ids
      BY <1>2, <2>3, <2>4, <2>5, <2>6, <3>1 DEF Ahead
    <3>2. CASE i \notin ids
      <4>1. i \in rest /\ full
        BY <1>3, <1>4, <2>6, <3>2 DEF full
      <4>2. \A v \in page : v.id < i
        BY <1>5, <2>3, <3>2, <4>1
      <4> QED
        BY <2>4, <2>5, <4>1, <4>2 DEF Ahead
    <3> QED
      BY <3>1, <3>2
  <2>7. RotationOK'
    BY <1>2, <2>3, <2>4, <2>5, <2>6 DEF RotationOK
  <2> QED
    BY <2>5, <2>7 DEF RecordsInv
<1> QED
  BY <1>7, <1>8

\* The row whose turn it is leaves the page, and is not left under the old key.
LEMMA RowDoneKeeps ==
  ASSUME RecordsInv, NEW v, IsNext(v), RowDone(v), row' \in [Ids -> TableRow], OldDecays,
         \A i \in Ids : /\ row'[i].txt = row[i].txt /\ row'[i].grp = row[i].grp
                        /\ lock[i] # NoOne => row'[i] = row[i],
         ~rot.dry /\ row'[v.id].key = "old" => ~(v.key = "old" /\ v.txt = row[v.id].txt)
  PROVE  RecordsInv'
<1> DEFINE rest == rot.page \ {v}
           at == IF rest # {} THEN "rows" ELSE IF rot.full THEN "page" ELSE "ok"
           r == [rot EXCEPT !.cursor = v.id, !.page = rest, !.pc = at]
<1>1. rot \in Rotations /\ rot.pc = "rows" /\ v \in rot.page /\ v.id \in Ids /\ \A w \in rot.page : v.id <= w.id /\ w.id \in Ids
  BY DEF RecordsInv, RecordsTyped, IsNext, Rotations
<1>2. Rotates(r)
  <2>1. [rot EXCEPT !.cursor = v.id, !.page = @ \ {v}].page = rest
    BY <1>1 DEF Rotations
  <2>2. CASE rest # {}
    <3>1. r = [rot EXCEPT !.cursor = v.id, !.page = @ \ {v}]
      BY <1>1, <2>2 DEF Rotations
    <3> QED
      BY <2>1, <2>2, <3>1 DEF RowDone
  <2>3. CASE rest = {} /\ rot.full
    <3>1. r = [[rot EXCEPT !.cursor = v.id, !.page = @ \ {v}] EXCEPT !.pc = "page"]
      BY <1>1, <2>3 DEF Rotations
    <3> QED
      BY <2>1, <2>3, <3>1 DEF RowDone
  <2>4. CASE rest = {} /\ ~rot.full
    <3>1. r = [[rot EXCEPT !.cursor = v.id, !.page = @ \ {v}] EXCEPT !.pc = "ok"]
      BY <1>1, <2>4 DEF Rotations
    <3> QED
      BY <2>1, <2>4, <3>1 DEF RowDone
  <2> QED
    BY <2>2, <2>3, <2>4
<1>3. at \in {"rows", "page", "ok"} /\ (at = "rows" <=> rest # {})
  OBVIOUS
<1>4. rest \in SUBSET [id : Ids, key : KeyKinds \cup {"none"}, txt : 0..MaxOps] /\ v.id \in Nat
  BY <1>1, RowValues DEF Rotations
<1>5. ASSUME ~rot.dry, NEW i \in Ids, row'[i].key = "old"
      PROVE  \/ \E w \in rest : w.id = i /\ w.key = "old" /\ w.txt = row'[i].txt
             \/ rot.full /\ i > v.id /\ \A w \in rest : w.id < i
  <2>1. row[i].key = "old" /\ row'[i].txt = row[i].txt /\ Ahead(i)
    BY <1>5 DEF OldDecays, RecordsInv, RotationOK
  <2>2. \/ \E w \in rot.page : w.id = i /\ w.key = "old" /\ w.txt = row[i].txt
        \/ rot.full /\ \A w \in rot.page : w.id < i
    BY <1>1, <2>1 DEF Ahead
  <2>3. CASE rot.full /\ \A w \in rot.page : w.id < i
    <3>1. i > v.id
      BY <1>1, <1>4, <2>3, RowValues
    <3>2. \A w \in rest : w.id < i
      BY <2>3
    <3> QED
      BY <2>3, <3>1, <3>2
  <2>4. ASSUME NEW w \in rot.page, w.id = i, w.key = "old", w.txt = row[i].txt
        PROVE  \E u \in rest : u.id = i /\ u.key = "old" /\ u.txt = row'[i].txt
    <3>1. w # v
      BY <1>5, <2>1, <2>4
    <3> QED
      BY <2>1, <2>4, <3>1
  <2> QED
    BY <2>2, <2>3, <2>4
<1>6. ASSUME NEW w \in rest PROVE v.id < w.id
  <2>1. w \in rot.page /\ w # v
    OBVIOUS
  <2>2. w.id # v.id
    BY <1>1, <2>1 DEF RecordsInv, RotationOK
  <2>3. v.id <= w.id /\ v.id \in Nat /\ w.id \in Nat
    BY <1>1, <2>1, RowValues
  <2> QED
    BY <2>2, <2>3
<1>7. /\ at = "rows" => rest # {}
      /\ at = "page" => rest = {} /\ rot.full
      /\ at = "ok" => rest = {} /\ ~rot.full
  OBVIOUS
<1> HIDE DEF rest, at
<1>8. r \in Rotations /\ r.pc = at /\ r.page = rest /\ r.cursor = v.id /\ r.full = rot.full /\ r.dry = rot.dry
  BY <1>1, <1>3, <1>4 DEF Rotations
<1> HIDE DEF r
<1>9. /\ RecordsTyped' /\ ChangesOK' /\ TrailExplains'
      /\ rot' \in Rotations /\ rot'.pc = at /\ rot'.dry = rot.dry
      /\ at = "ok" => rot'.page = {}
      /\ at # "ok" => rot' = r
  BY <1>2, <1>3, <1>8, RotatesKeeps
<1>10. \A w, u \in rot'.page : w.id = u.id => w = u
  BY <1>3, <1>8, <1>9 DEF RecordsInv, RotationOK, rest
<1>11. ASSUME ~rot.dry, NEW i \in Ids, row'[i].key = "old" PROVE Ahead(i)'
  <2>1. CASE at = "rows"
    BY <1>5, <1>8, <1>9, <1>11, <2>1 DEF Ahead
  <2>2. CASE at = "page"
    BY <1>5, <1>7, <1>8, <1>9, <1>11, <2>2 DEF Ahead
  <2>3. CASE at = "ok"
    BY <1>5, <1>7, <1>11, <2>3
  <2> QED
    BY <1>3, <2>1, <2>2, <2>3
<1>12. RotationOK'
  BY <1>3, <1>9, <1>10, <1>11 DEF RotationOK
<1> QED
  BY <1>9, <1>12 DEF RecordsInv

LEMMA SkipRowKeeps ==
  ASSUME RecordsInv, NEW v, SkipRow(v)
  PROVE  RecordsInv'
<1>1. IsNext(v) /\ RowDone(v) /\ row' = row /\ (~rot.dry => v.key # "old")
  BY DEF SkipRow
<1> QED
  BY <1>1, RowsUntouched, RowDoneKeeps DEF OldDecays

LEMMA RotateRowKeeps ==
  ASSUME RecordsInv, NEW v, RotateRow(v)
  PROVE  RecordsInv'
<1>1. /\ IsNext(v) /\ RowDone(v) /\ v.key = "old" /\ lock[v.id] = NoOne
      /\ row' = [row EXCEPT ![v.id] = IF @.key = v.key /\ @.txt = v.txt THEN [@ EXCEPT !.key = "new"] ELSE @]
  BY DEF RotateRow
<1>2. v.id \in Ids /\ row \in [Ids -> TableRow] /\ row[v.id] \in TableRow
  BY <1>1 DEF IsNext, RecordsInv, RecordsTyped, Rotations
<1>3. PICK x : x = IF row[v.id].key = v.key /\ row[v.id].txt = v.txt THEN [row[v.id] EXCEPT !.key = "new"] ELSE row[v.id]
  OBVIOUS
<1>4. /\ x \in TableRow /\ x.txt = row[v.id].txt /\ x.grp = row[v.id].grp
      /\ x.key = "old" => row[v.id].key = "old" /\ row[v.id].txt # v.txt
  BY <1>1, <1>2, <1>3 DEF TableRow, KeyKinds
<1>5. row' = [row EXCEPT ![v.id] = x]
  BY <1>1, <1>2, <1>3
<1>6. /\ row' \in [Ids -> TableRow] /\ OldDecays
      /\ \A i \in Ids : /\ row'[i].txt = row[i].txt /\ row'[i].grp = row[i].grp
                        /\ lock[i] # NoOne => row'[i] = row[i]
  BY <1>1, <1>2, <1>4, <1>5 DEF OldDecays
<1>7. row'[v.id].key = "old" => ~(v.key = "old" /\ v.txt = row[v.id].txt)
  BY <1>2, <1>4, <1>5
<1> QED
  BY <1>1, <1>6, <1>7, RowDoneKeeps

-----------------------------------------------------------------------------
(* The prune, the days, and the whole *)

\* The prune removes events, and nothing else.
LEMMA PruneKeeps ==
  ASSUME RecordsInv, NEW p \in Pruners,
         DeleteBatch(p) \/ PruneFails(p) \/ \E dry \in BOOLEAN : CountRows(p, dry)
  PROVE  RecordsInv'
<1>1. /\ row' = row /\ lock' = lock /\ txn' = txn /\ number' = number /\ day' = day /\ rot' = rot /\ ops' = ops
      /\ said' = said /\ silent' = silent /\ trail' \subseteq trail
  BY DEF DeleteBatch, Deletes, PruneFails, CountRows, Prunes
<1>2. RecordsTyped'
  BY <1>1 DEF RecordsInv, RecordsTyped
<1>3. ChangesOK' /\ TrailExplains'
  BY <1>1 DEF RecordsInv, ChangesOK, LocksOwned, ReadIsKept, ChangeOK, TrailExplains
<1>4. RotationOK'
  BY <1>1, RotationKept DEF RecordsInv, OldDecays
<1> QED
  BY <1>2, <1>3, <1>4 DEF RecordsInv

\* A step that leaves the table, the transactions and the rotation alone.
LEMMA RecordsStill ==
  ASSUME RecordsInv, NextDay \/ UNCHANGED recordsVars
  PROVE  RecordsInv'
<1>1. /\ row' = row /\ lock' = lock /\ txn' = txn /\ number' = number /\ day' \in {0, 1} /\ rot' = rot /\ ops' = ops
      /\ said' = said /\ silent' = silent /\ trail' = trail
  BY DEF NextDay, recordsVars, RecordsInv, RecordsTyped
<1>2. RecordsTyped'
  BY <1>1 DEF RecordsInv, RecordsTyped
<1>3. ChangesOK' /\ TrailExplains'
  BY <1>1 DEF RecordsInv, ChangesOK, LocksOwned, ReadIsKept, ChangeOK, TrailExplains
<1>4. RotationOK'
  BY <1>1, RotationKept DEF RecordsInv, OldDecays
<1> QED
  BY <1>2, <1>3, <1>4 DEF RecordsInv

LEMMA RecordsStep == RecordsInv /\ [RecordsNext]_recordsVars => RecordsInv'
<1> SUFFICES ASSUME RecordsInv, [RecordsNext]_recordsVars PROVE RecordsInv'
  OBVIOUS
<1>1. ASSUME NEW t \in Txns, NEW g \in Groups, NEW to \in Groups, NEW op \in {"move", "text", "delete"},
             ReadRows(t, op, g, to)
      PROVE  RecordsInv'
  BY <1>1, ReadRowsKeeps
<1>2. ASSUME NEW t \in Txns, NEW i \in Ids, NEW g \in Groups, InsertRow(t, i, g) PROVE RecordsInv'
  BY <1>2, InsertRowKeeps
<1>3. ASSUME NEW t \in Txns, WriteRows(t) \/ Commit(t) \/ Rollback(t) PROVE RecordsInv'
  BY <1>3, WriteRowsKeeps, CommitKeeps, RollbackKeeps
<1>4. CASE \E dry \in BOOLEAN : RotateStart(dry)
  BY <1>4, RotateStartKeeps
<1>5. CASE Rotation
  BY <1>5, ReadPageKeeps, SkipRowKeeps, RotateRowKeeps, RotateFailsKeeps DEF Rotation, RowUnreadable
<1>6. CASE StatementFails
  BY <1>6, RotateFailsKeeps DEF StatementFails
<1>7. ASSUME NEW p \in Pruners, DeleteBatch(p) \/ PruneFails(p) \/ \E dry \in BOOLEAN : CountRows(p, dry)
      PROVE  RecordsInv'
  BY <1>7, PruneKeeps
<1>8. CASE NextDay \/ UNCHANGED recordsVars
  BY <1>8, RecordsStill
<1> QED
  BY <1>1, <1>2, <1>3, <1>4, <1>5, <1>6, <1>7, <1>8 DEF RecordsNext

LEMMA RecordsAlways == RecordsSpec => []RecordsInv
<1> QED
  BY RecordsInitInv, RecordsStep, PTL DEF RecordsSpec

\* Whatever the transactions, the rotation and the prune do to the same rows: what an audited
\* change is going to record as the old values is what the table holds until it commits
\* (audit.py:317-332), and a row is what the last event about it says, unless a change wrote
\* the row without recording it.
THEOREM TrailTellsTheTruth == RecordsSpec => []TrailTrue
<1>1. RecordsInv => TrailTrue
  <2> SUFFICES ASSUME RecordsInv PROVE RecordsTypeOK /\ OldValuesTrue
    BY DEF TrailTrue, RecordsInv
  <2>1. RecordsTypeOK
    BY RowValues DEF RecordsInv, RecordsTyped, ChangesOK, LocksOwned, RecordsTypeOK, TableRow, Rotations
  <2>2. OldValuesTrue
    BY DEF RecordsInv, ChangesOK, ReadIsKept, OldValuesTrue
  <2> QED
    BY <2>1, <2>2
<1> QED
  BY <1>1, RecordsAlways, PTL

\* `crypto rotate` that exits 0 has left no value under the old key, for a table and a batch of
\* every size and whatever the application wrote meanwhile (crypto/commands.py:97-182).
THEOREM RotationIsComplete == RecordsSpec => []NothingLeft
<1>1. RecordsInv => NothingLeft
  BY DEF RecordsInv, RotationOK, Ahead, NothingLeft
<1> QED
  BY <1>1, RecordsAlways, PTL

-----------------------------------------------------------------------------
(***************************************************************************)
(* The connection manager. For every set of connections and users, every   *)
(* length of the stream and size of a read: the manager passes no message  *)
(* by and works on none twice, and the lists that two threads share serve  *)
(* their purpose.                                                          *)
(***************************************************************************)

Managers ==
  [pc : {"off", "tick", "read", "work", "collect", "fetch", "send", "wait", "ended"},
   pos : Int, next : Nat, to : Nat, at : Nat, gone : BOOLEAN, conn : Conns \cup {None},
   found : Seq(Conns), held : SUBSET Conns, skipped : SUBSET Conns]

RelayTyped ==
  /\ stream \in Seq(Messages) /\ Len(stream) <= MaxMessages
  /\ sock \in [Conns -> {"new", "open", "closing", "closed"}]
  /\ reg \in SUBSET Conns /\ IsFiniteSet(reg)
  /\ list \in [Users -> Seq(Conns)]
  /\ calls \in [Conns -> Seq(Nat)]
  /\ mgr \in Managers
  /\ proc \in {"up", "stop", "join", "closed", "raised"}
  /\ sd \in [event : BOOLEAN, pc : {"none", "called", "gather", "done", "cancelled"}]
  /\ times \in [1..MaxMessages -> {0, 1}]

\* The manager is at the first message it has not passed; "$" (-1) until it passed one.
Handling == {"collect", "fetch", "send"}
Working == Handling \cup {"work"}
Follows == mgr.pos = -1 \/ mgr.pos = mgr.next - 1
Positioned ==
  /\ mgr.pos \in -1..Len(stream) /\ mgr.next \in 0..(Len(stream) + 1) /\ mgr.to \in 0..Len(stream)
  /\ mgr.pc \in Working => mgr.next \in 1..mgr.to /\ Follows
  /\ mgr.pc = "read" => mgr.next > 0 /\ Follows

\* It has worked on the messages up to its position, from one on, and on the one it handles.
TimesOK ==
  /\ \A i \in 1..MaxMessages : times[i] = 1 => i <= mgr.pos \/ (mgr.pc \in Handling /\ i = mgr.next)
  /\ \A i, j \in 1..MaxMessages : i < j /\ times[i] = 1 /\ j <= mgr.pos => times[j] = 1
  /\ mgr.pc \in Handling => times[mgr.next] = 1

\* A connection is in one list, once, from its opening to its close; while the manager runs
\* an open one is in the table as well.
InList(c, u) == c \in ToSet(list[u])
ListsOK ==
  /\ \A u \in Users : IsInjective(list[u])
  /\ \A c \in Conns, u \in Users :
       InList(c, u) => sock[c] \in {"open", "closing"} /\ \A v \in Users : InList(c, v) => v = u
RegOK ==
  /\ ~sd.event => \A c \in Conns : sock[c] = "open" => c \in reg
  /\ sd.event => mgr.pc \in {"off", "ended"}

\* Of those who stay in the list, the ones behind the manager's index were found (the one it
\* is about to fetch included), or their socket was told to close already, or they came there
\* because somebody left.
Passed(c) == c \in ToSet(mgr.found) \/ sock[c] # "open" \/ (mgr.pc = "fetch" /\ c = mgr.conn)
WalkedUpTo(l) ==
  \A k \in 1..Len(l) : k < mgr.at /\ l[k] \in mgr.held => Passed(l[k]) \/ l[k] \in mgr.skipped
WalkOK ==
  /\ Walking => LET u == stream[mgr.next].user
                IN  /\ u \in Users /\ mgr.at >= 1 /\ mgr.held \subseteq ToSet(list[u])
                    /\ WalkedUpTo(list[u]) /\ (mgr.gone => mgr.held = {})
  /\ mgr.pc \notin Handling => ~mgr.gone

\* Whoever was in the list from the first look to the last is among those still to be told.
ToBeTold(c) == c = stream[mgr.next].source \/ Told(c) \/ c \in ToSet(mgr.found) \/ c \in mgr.skipped
SendOK ==
  mgr.pc = "send" /\ stream[mgr.next].type = "revoke" =>
    \A c \in mgr.held : sock[c] # "new" /\ ToBeTold(c)

RelayInv == RelayTyped /\ Positioned /\ TimesOK /\ ListsOK /\ RegOK /\ WalkOK /\ SendOK

-----------------------------------------------------------------------------
(* Sequences *)

\* One entry is gone and those after it have moved up.
Shifts(new, old, c) ==
  \E i \in 1..Len(old) : /\ old[i] = c /\ Len(new) = Len(old) - 1
                         /\ \A k \in 1..Len(new) : new[k] = IF k < i THEN old[k] ELSE old[k + 1]

\* RemoveFirst on a list without duplicates: the entries but one, each once.
LEMMA RemovedFirst ==
  ASSUME NEW S, NEW l \in Seq(S), IsInjective(l), NEW c
  PROVE  /\ RemoveFirst(l, c) \in Seq(S) /\ IsInjective(RemoveFirst(l, c))
         /\ ToSet(RemoveFirst(l, c)) = ToSet(l) \ {c}
         /\ RemoveFirst(l, c) = l \/ Shifts(RemoveFirst(l, c), l, c)
<1> DEFINE r == RemoveFirst(l, c)
<1>1. CASE ~ \E i \in 1..Len(l) : l[i] = c
  <2>1. r = l
    BY <1>1 DEF RemoveFirst
  <2>2. c \notin ToSet(l)
    BY <1>1 DEF ToSet
  <2> QED
    BY <2>1, <2>2
<1>2. CASE \E i \in 1..Len(l) : l[i] = c
  <2>1. PICK i \in 1..Len(l) : l[i] = c
    BY <1>2
  <2>2. {j \in 1..Len(l) : l[j] = c} = {i}
    BY <2>1 DEF IsInjective
  <2>3. SelectInSeq(l, LAMBDA v : v = c) = i
    <3>1. Min({i}) = i
      BY DEF Min
    <3> QED
      BY <2>2, <3>1 DEF SelectInSeq
  <2>4. r = RemoveAt(l, i)
    BY <1>2, <2>3 DEF RemoveFirst
  <2> DEFINE a == SubSeq(l, 1, i - 1)
             b == SubSeq(l, i + 1, Len(l))
  <2>5. a \in Seq(S) /\ Len(a) = i - 1 /\ \A k \in 1..(i - 1) : a[k] = l[k]
    OBVIOUS
  <2>6. b \in Seq(S) /\ Len(b) = Len(l) - i /\ \A k \in 1..(Len(l) - i) : b[k] = l[k + i]
    OBVIOUS
  <2>7. r = a \o b
    BY <2>4 DEF RemoveAt
  <2>8. r \in Seq(S) /\ Len(r) = Len(l) - 1
    <3> HIDE DEF a, b, r
    <3> QED
      BY <2>5, <2>6, <2>7
  <2>9. \A k \in 1..Len(r) : r[k] = IF k < i THEN l[k] ELSE l[k + 1]
    <3> SUFFICES ASSUME NEW k \in 1..Len(r) PROVE r[k] = IF k < i THEN l[k] ELSE l[k + 1]
      OBVIOUS
    <3> HIDE DEF a, b, r
    <3>1. CASE k < i
      BY <3>1, <2>5, <2>6, <2>7, <2>8
    <3>2. CASE k >= i
      <4>1. r[k] = b[k - (i - 1)]
        BY <3>2, <2>5, <2>6, <2>7, <2>8
      <4>2. k - (i - 1) \in 1..(Len(l) - i)
        BY <3>2, <2>8
      <4>3. b[k - (i - 1)] = l[(k - (i - 1)) + i]
        BY <2>6, <4>2
      <4>4. (k - (i - 1)) + i = k + 1
        OBVIOUS
      <4> QED
        BY <3>2, <4>1, <4>3, <4>4
    <3> QED
      BY <3>1, <3>2
  <2> HIDE DEF r
  <2>10. IsInjective(r)
    <3> SUFFICES ASSUME NEW p \in 1..Len(r), NEW q \in 1..Len(r), r[p] = r[q] PROVE p = q
      BY <2>8 DEF IsInjective
    <3>1. \A x, y \in 1..Len(l) : l[x] = l[y] => x = y
      BY DEF IsInjective
    <3> QED
      BY <3>1, <2>8, <2>9
  <2>11. ToSet(r) = ToSet(l) \ {c}
    <3>1. ASSUME NEW k \in 1..Len(r) PROVE r[k] \in ToSet(l) \ {c}
      <4>1. PICK j \in 1..Len(l) : r[k] = l[j] /\ j # i
        BY <2>8, <2>9
      <4>2. l[j] # c
        BY <2>1, <4>1 DEF IsInjective
      <4> QED
        BY <4>1, <4>2 DEF ToSet
    <3>2. \A j \in 1..Len(l) : l[j] # c => l[j] \in ToSet(r)
      <4> SUFFICES ASSUME NEW j \in 1..Len(l), l[j] # c PROVE \E k \in 1..Len(r) : l[j] = r[k]
        BY <2>8 DEF ToSet
      <4>1. CASE j < i
        BY <4>1, <2>8, <2>9
      <4>2. CASE j > i
        <5>1. j - 1 \in 1..Len(r) /\ r[j - 1] = l[(j - 1) + 1]
          BY <4>2, <2>8, <2>9
        <5> QED
          BY <5>1
      <4> QED
        BY <4>1, <4>2, <2>1
    <3> QED
      BY <3>1, <3>2, <2>8 DEF ToSet
  <2> QED
    BY <2>1, <2>8, <2>9, <2>10, <2>11 DEF r, Shifts
<1> QED
  BY <1>1, <1>2

LEMMA AppendedTo ==
  ASSUME NEW S, NEW l \in Seq(S), NEW c \in S
  PROVE  /\ Append(l, c) \in Seq(S) /\ Len(Append(l, c)) = Len(l) + 1
         /\ \A k \in 1..Len(l) : Append(l, c)[k] = l[k]
         /\ Append(l, c)[Len(l) + 1] = c
         /\ ToSet(Append(l, c)) = ToSet(l) \cup {c}
         /\ IsInjective(l) /\ c \notin ToSet(l) => IsInjective(Append(l, c))
<1> DEFINE a == Append(l, c)
<1>1. a \in Seq(S) /\ Len(a) = Len(l) + 1 /\ a[Len(l) + 1] = c /\ \A k \in 1..Len(l) : a[k] = l[k]
  OBVIOUS
<1> HIDE DEF a
<1>2. ToSet(a) = ToSet(l) \cup {c}
  <2>1. \A k \in 1..Len(a) : a[k] \in ToSet(l) \cup {c}
    BY <1>1 DEF ToSet
  <2>2. \A k \in 1..Len(l) : l[k] \in ToSet(a)
    <3> SUFFICES ASSUME NEW k \in 1..Len(l) PROVE l[k] \in ToSet(a)
      OBVIOUS
    <3>1. k \in 1..Len(a) /\ a[k] = l[k]
      BY <1>1
    <3> QED
      BY <1>1, <3>1 DEF ToSet
  <2>3. c \in ToSet(a)
    BY <1>1 DEF ToSet
  <2> QED
    BY <1>1, <2>1, <2>2, <2>3 DEF ToSet
<1>3. IsInjective(l) /\ c \notin ToSet(l) => IsInjective(a)
  BY <1>1 DEF IsInjective, ToSet
<1> QED
  BY <1>1, <1>2, <1>3 DEF a

LEMMA EntryOf ==
  ASSUME NEW S, NEW l \in Seq(S)
  PROVE  /\ \A k \in 1..Len(l) : l[k] \in ToSet(l)
         /\ \A c \in ToSet(l) : c \in S /\ \E k \in 1..Len(l) : c = l[k]
  BY DEF ToSet

LEMMA HeadAndTail ==
  ASSUME NEW S, NEW l \in Seq(S), l # <<>>
  PROVE  /\ Head(l) \in S /\ Tail(l) \in Seq(S)
         /\ \A c \in ToSet(l) : c = Head(l) \/ c \in ToSet(Tail(l))
<1>1. Head(l) \in S /\ Head(l) = l[1] /\ Tail(l) \in Seq(S) /\ Len(Tail(l)) = Len(l) - 1 /\ Len(l) > 0
  OBVIOUS
<1>2. \A k \in 1..Len(Tail(l)) : Tail(l)[k] = l[k + 1]
  OBVIOUS
<1>3. ASSUME NEW c \in ToSet(l), c # Head(l) PROVE c \in ToSet(Tail(l))
  <2>1. PICK k \in 1..Len(l) : c = l[k]
    BY DEF ToSet
  <2>2. k - 1 \in 1..Len(Tail(l)) /\ Tail(l)[k - 1] = l[(k - 1) + 1]
    BY <1>1, <1>2, <1>3, <2>1
  <2>3. \A j \in 1..Len(Tail(l)) : Tail(l)[j] \in ToSet(Tail(l))
    BY <1>1, EntryOf
  <2>4. (k - 1) + 1 = k
    OBVIOUS
  <2> QED
    BY <2>1, <2>2, <2>3, <2>4
<1> QED
  BY <1>1, <1>3

LEMMA SetAsSequence ==
  ASSUME NEW S, IsFiniteSet(S)
  PROVE  SetToSeq(S) \in Seq(S)
<1>1. Cardinality(S) \in Nat /\ \E f \in [1..Cardinality(S) -> S] : IsInjective(f)
  BY FS_CardinalityType DEF ExistsBijection, Bijection, Injection
<1>2. SetToSeq(S) \in [1..Cardinality(S) -> S]
  BY <1>1 DEF SetToSeq
<1> QED
  BY <1>1, <1>2

-----------------------------------------------------------------------------
LEMMA RelayInitInv == RelayInit => RelayInv
<1> SUFFICES ASSUME RelayInit PROVE RelayInv
  OBVIOUS
<1>1. mgr \in Managers /\ mgr.pc = "off" /\ mgr.pos = -1 /\ mgr.next = 0 /\ mgr.to = 0 /\ ~mgr.gone
  BY DEF RelayInit, Managers
<1>2. RelayTyped
  <2>1. stream \in Seq(Messages) /\ Len(stream) <= MaxMessages
    BY RelayAssumption DEF RelayInit, RelayAssumption
  <2>2. reg \in SUBSET Conns /\ IsFiniteSet(reg)
    BY FS_EmptySet DEF RelayInit
  <2>3. list \in [Users -> Seq(Conns)] /\ calls \in [Conns -> Seq(Nat)]
    BY DEF RelayInit
  <2> QED
    BY <1>1, <2>1, <2>2, <2>3 DEF RelayInit, RelayTyped
<1>3. Positioned
  BY <1>1 DEF RelayInit, Positioned, Working, Handling
<1>4. TimesOK
  BY <1>1 DEF RelayInit, TimesOK, Handling
<1>5. ListsOK
  <2>1. IsInjective(<<>>) /\ ToSet(<<>>) = {}
    BY DEF IsInjective, ToSet
  <2> QED
    BY <2>1 DEF RelayInit, ListsOK, InList
<1>6. RegOK
  BY DEF RelayInit, RegOK
<1>7. WalkOK /\ SendOK
  BY <1>1 DEF WalkOK, SendOK, Walking, Handling
<1> QED
  BY <1>2, <1>3, <1>4, <1>5, <1>6, <1>7 DEF RelayInv

\* A message the manager works on is one of the stream's.
LEMMA MessageAtHand ==
  ASSUME RelayTyped, Positioned, mgr.pc \in Working
  PROVE  /\ mgr.next \in 1..Len(stream) /\ mgr.next \in 1..MaxMessages
         /\ stream[mgr.next] \in Messages
         /\ stream[mgr.next].type \in {"revoke", "user"} => stream[mgr.next].user \in Users
         /\ stream[mgr.next].type \in {"revoke", "user", "all", "bad"}
<1>1. mgr.next \in 1..Len(stream) /\ mgr.next \in 1..MaxMessages
  BY RelayAssumption DEF RelayTyped, Positioned, RelayAssumption
<1>2. stream[mgr.next] \in Messages
  BY <1>1 DEF RelayTyped
<1> QED
  BY <1>1, <1>2, RelayAssumption DEF RelayAssumption

-----------------------------------------------------------------------------
(* What most steps leave alone *)

LEMMA TimesQuiet ==
  ASSUME TimesOK, times' = times, mgr'.pos = mgr.pos,
         mgr.pc \in Handling => mgr'.next = mgr.next, mgr'.pc \in Handling <=> mgr.pc \in Handling
  PROVE  TimesOK'
  BY DEF TimesOK, Handling

\* A socket goes from new to open to closing to closed.
SockOnward ==
  \A c \in Conns : /\ sock'[c] = "open" => sock[c] \in {"new", "open"}
                   /\ sock[c] # "new" => sock'[c] # "new"

LEMMA ListEntries ==
  ASSUME RelayTyped, ListsOK, NEW u \in Users
  PROVE  \A k \in 1..Len(list[u]) : list[u][k] \in Conns /\ sock[list[u][k]] \in {"open", "closing"}
<1>1. list[u] \in Seq(Conns)
  BY DEF RelayTyped
<1>2. \A k \in 1..Len(list[u]) : list[u][k] \in Conns /\ list[u][k] \in ToSet(list[u])
  BY <1>1, EntryOf
<1> QED
  BY <1>2 DEF ListsOK, InList

LEMMA WalkQuiet ==
  ASSUME RelayTyped, ListsOK, WalkOK, mgr' = mgr, list' = list, SockOnward,
         Walking => stream'[mgr.next] = stream[mgr.next]
  PROVE  WalkOK'
<1> SUFFICES ASSUME Walking PROVE WalkOK'
  BY DEF WalkOK, Walking
<1> PICK u : u = stream[mgr.next].user
  OBVIOUS
<1> PICK l : l = list[u]
  OBVIOUS
<1>1. u \in Users /\ mgr.at >= 1 /\ mgr.held \subseteq ToSet(l) /\ WalkedUpTo(l)
  BY DEF WalkOK
<1>2. \A k \in 1..Len(l) : l[k] \in Conns /\ sock[l[k]] \in {"open", "closing"}
  BY <1>1, ListEntries
<1>3. \A k \in 1..Len(l) : Passed(l[k]) => Passed(l[k])'
  BY <1>2 DEF Passed, SockOnward
<1>4. WalkedUpTo(l) => WalkedUpTo(l)'
  BY <1>3 DEF WalkedUpTo, Passed
<1> QED
  BY <1>1, <1>4 DEF WalkOK, Walking, Handling

LEMMA SendQuiet ==
  ASSUME RelayTyped, SendOK, mgr' = mgr, SockOnward,
         mgr.pc = "send" => stream'[mgr.next] = stream[mgr.next],
         \A c \in Conns : Told(c) /\ sock[c] # "new" => Told(c)'
  PROVE  SendOK'
<1> SUFFICES ASSUME mgr.pc = "send", stream[mgr.next].type = "revoke", NEW c \in mgr.held
             PROVE  (sock[c] # "new" /\ ToBeTold(c))'
  BY DEF SendOK
<1>1. c \in Conns
  BY DEF RelayTyped, Managers
<1>2. sock[c] # "new" /\ ToBeTold(c)
  BY DEF SendOK
<1>3. Told(c) => Told(c)'
  BY <1>1, <1>2
<1> HIDE DEF Told
<1> QED
  BY <1>1, <1>2, <1>3 DEF ToBeTold, SockOnward

-----------------------------------------------------------------------------
(* The steps that leave the manager and the lists alone *)

LEMMA PublishKeeps ==
  ASSUME RelayInv, NEW msg \in Messages, Publish(msg)
  PROVE  RelayInv'
<1>1. /\ stream' = Append(stream, msg) /\ Len(stream) < MaxMessages
      /\ UNCHANGED <<sock, reg, list, calls, mgr, proc, sd, faults, times>>
  BY DEF Publish, web
<1>2. stream \in Seq(Messages) /\ RelayTyped /\ Positioned
  BY DEF RelayInv, RelayTyped
<1>3. stream' \in Seq(Messages) /\ Len(stream') = Len(stream) + 1 /\ \A k \in 1..Len(stream) : stream'[k] = stream[k]
  BY <1>1, <1>2, AppendedTo
<1>4. mgr.pc \in Working => stream'[mgr.next] = stream[mgr.next]
  BY <1>2, <1>3, MessageAtHand
<1>5. RelayTyped'
  BY <1>1, <1>2, <1>3, RelayAssumption DEF RelayTyped, RelayAssumption
<1>6. Positioned'
  BY <1>1, <1>2, <1>3 DEF Positioned, Follows
<1>7. TimesOK' /\ ListsOK' /\ RegOK'
  BY <1>1 DEF RelayInv, TimesOK, ListsOK, InList, RegOK
<1>8. SockOnward
  BY <1>1 DEF SockOnward
<1>9. WalkOK'
  BY <1>1, <1>4, <1>8, WalkQuiet DEF RelayInv, Walking, Working, Handling
<1>10. \A c : Told(c)' = Told(c)
  BY <1>1 DEF Told
<1>11. SendOK'
  BY <1>1, <1>4, <1>8, <1>10, SendQuiet DEF RelayInv, Working, Handling
<1> QED
  BY <1>5, <1>6, <1>7, <1>9, <1>11 DEF RelayInv

LEMMA AddConnectionKeeps ==
  ASSUME RelayInv, NEW c \in Conns, AddConnection(c)
  PROVE  RelayInv'
<1>1. /\ sock' = [sock EXCEPT ![c] = "open"] /\ sock[c] = "new" /\ reg' = reg \cup {c}
      /\ UNCHANGED <<stream, list, calls, mgr, proc, sd, faults, times>>
  BY DEF AddConnection
<1>2. RelayTyped
  BY DEF RelayInv
<1>3. \A d \in Conns : sock'[d] = IF d = c THEN "open" ELSE sock[d]
  BY <1>1, <1>2 DEF RelayTyped
<1>4. RelayTyped'
  <2>1. IsFiniteSet(reg')
    BY <1>1, <1>2, FS_AddElement DEF RelayTyped
  <2> QED
    BY <1>1, <1>2, <2>1 DEF RelayTyped
<1>5. Positioned' /\ TimesOK'
  BY <1>1 DEF RelayInv, Positioned, Follows, TimesOK
<1>6. ListsOK'
  BY <1>1, <1>3 DEF RelayInv, ListsOK, InList
<1>7. RegOK'
  BY <1>1, <1>3 DEF RelayInv, RegOK
<1>8. SockOnward
  BY <1>1, <1>3 DEF SockOnward
<1>9. WalkOK'
  BY <1>1, <1>8, WalkQuiet DEF RelayInv
<1>10. \A d \in Conns : Told(d) /\ sock[d] # "new" => Told(d)'
  BY <1>1, <1>3 DEF Told
<1>11. SendOK'
  BY <1>1, <1>8, <1>10, SendQuiet DEF RelayInv
<1> QED
  BY <1>4, <1>5, <1>6, <1>7, <1>9, <1>11 DEF RelayInv

LEMMA RunCallKeeps ==
  ASSUME RelayInv, NEW c \in Conns, RunCall(c)
  PROVE  RelayInv'
<1>1. /\ calls[c] # <<>> /\ calls' = [calls EXCEPT ![c] = Tail(@)]
      /\ sock' = [sock EXCEPT ![c] = IF Head(calls[c]) = 0 /\ @ = "open" THEN "closing" ELSE @]
      /\ UNCHANGED <<stream, reg, list, mgr, proc, sd, faults, times>>
  BY DEF RunCall
<1>2. RelayTyped
  BY DEF RelayInv
<1>3. \A d \in Conns : sock'[d] = IF d = c /\ Head(calls[c]) = 0 /\ sock[d] = "open" THEN "closing" ELSE sock[d]
  BY <1>1, <1>2 DEF RelayTyped
<1>4. calls[c] \in Seq(Nat)
  BY <1>2 DEF RelayTyped
<1>5. Tail(calls[c]) \in Seq(Nat) /\ \A n \in ToSet(calls[c]) : n = Head(calls[c]) \/ n \in ToSet(Tail(calls[c]))
  BY <1>1, <1>4, HeadAndTail
<1>6. \A d \in Conns : calls'[d] = IF d = c THEN Tail(calls[c]) ELSE calls[d]
  BY <1>1, <1>2 DEF RelayTyped
<1>7. RelayTyped'
  <2>1. calls' \in [Conns -> Seq(Nat)]
    BY <1>1, <1>2, <1>5 DEF RelayTyped
  <2> QED
    BY <1>1, <1>2, <2>1 DEF RelayTyped
<1>8. Positioned' /\ TimesOK'
  BY <1>1 DEF RelayInv, Positioned, Follows, TimesOK
<1>9. ListsOK'
  BY <1>1, <1>3 DEF RelayInv, ListsOK, InList
<1>10. RegOK'
  BY <1>1, <1>3 DEF RelayInv, RegOK
<1>11. SockOnward
  BY <1>3 DEF SockOnward
<1>12. WalkOK'
  BY <1>1, <1>11, WalkQuiet DEF RelayInv
<1>13. \A d \in Conns : Told(d) => Told(d)'
  <2> SUFFICES ASSUME NEW d \in Conns, Told(d) PROVE Told(d)'
    OBVIOUS
  <2>1. CASE sock[d] # "open"
    BY <2>1, <1>3 DEF Told
  <2>2. CASE d # c
    BY <2>2, <1>3, <1>6 DEF Told
  <2>3. CASE sock[d] = "open" /\ d = c
    <3>1. 0 \in ToSet(calls[c])
      BY <2>3 DEF Told
    <3>2. Head(calls[c]) = 0 \/ 0 \in ToSet(calls'[c])
      BY <3>1, <1>5, <1>6
    <3> QED
      BY <2>3, <3>2, <1>3 DEF Told
  <2> QED
    BY <2>1, <2>2, <2>3
<1>14. SendOK'
  BY <1>1, <1>11, <1>13, SendQuiet DEF RelayInv
<1> QED
  BY <1>7, <1>8, <1>9, <1>10, <1>12, <1>14 DEF RelayInv

\* StopLoop, Gathered, Stopped, Joined
LEMMA EndsKeeps ==
  ASSUME RelayInv, UNCHANGED <<stream, sock, reg, list, calls, mgr, faults, times>>,
         proc' \in {"up", "stop", "join", "closed", "raised"},
         sd' \in [event : BOOLEAN, pc : {"none", "called", "gather", "done", "cancelled"}],
         sd.event => sd'.event, sd'.event => sd.event \/ mgr.pc = "off"
  PROVE  RelayInv'
<1>1. RelayTyped'
  BY DEF RelayInv, RelayTyped
<1>2. Positioned' /\ TimesOK'
  BY DEF RelayInv, Positioned, Follows, TimesOK
<1>3. ListsOK'
  BY DEF RelayInv, ListsOK, InList
<1>4. RegOK'
  BY DEF RelayInv, RegOK
<1>5. SockOnward
  BY DEF SockOnward
<1>6. WalkOK'
  BY <1>5, WalkQuiet DEF RelayInv
<1>7. \A c : Told(c)' = Told(c)
  BY DEF Told
<1>8. SendOK'
  BY <1>5, <1>7, SendQuiet DEF RelayInv
<1> QED
  BY <1>1, <1>2, <1>3, <1>4, <1>6, <1>8 DEF RelayInv

LEMMA ProcessEndsKeep ==
  ASSUME RelayInv, StopLoop \/ Gathered \/ Stopped \/ Joined
  PROVE  RelayInv'
<1>1. sd \in [event : BOOLEAN, pc : {"none", "called", "gather", "done", "cancelled"}]
      /\ proc \in {"up", "stop", "join", "closed", "raised"}
  BY DEF RelayInv, RelayTyped
<1>2. CASE StopLoop
  BY <1>1, <1>2, EndsKeeps DEF StopLoop, Ends, web
<1>3. CASE Gathered
  BY <1>1, <1>3, EndsKeeps DEF Gathered, Ends, web
<1>4. CASE Stopped
  BY <1>1, <1>4, EndsKeeps DEF Stopped, Ends, web
<1>5. CASE Joined
  BY <1>1, <1>5, EndsKeeps DEF Joined, Ends, web
<1> QED
  BY <1>2, <1>3, <1>4, <1>5

-----------------------------------------------------------------------------
(* The lists under the feet of the manager *)

\* Each list is the one before, longer at its end, or without c.
Extends(new, old) == Len(old) <= Len(new) /\ \A k \in 1..Len(old) : new[k] = old[k]
ListsMove(c) ==
  /\ list' \in [Users -> Seq(Conns)]
  /\ \A u \in Users : Shifts(list'[u], list[u], c) \/ Extends(list'[u], list[u])

LEMMA WalkMoves ==
  ASSUME RelayInv, NEW c \in Conns, ListsMove(c), ListsOK', mgr' = Walked(c, list'), stream' = stream, SockOnward,
         \A d \in Conns : Told(d) => Told(d)'
  PROVE  /\ mgr' \in Managers /\ Positioned' /\ (times' = times => TimesOK') /\ mgr'.pc = mgr.pc
         /\ WalkOK' /\ SendOK'
<1>1. RelayTyped /\ ListsOK /\ WalkOK /\ Positioned
  BY DEF RelayInv
<1>2. mgr \in Managers
  BY <1>1 DEF RelayTyped
<1>3. CASE ~Walking
  <2>1. mgr' = mgr
    BY <1>3 DEF Walked
  <2>2. Positioned' /\ (times' = times => TimesOK')
    BY <2>1 DEF RelayInv, Positioned, Follows, TimesOK
  <2>3. WalkOK'
    BY <1>1, <1>3, <2>1 DEF WalkOK, Walking
  <2>4. SendOK'
    BY <1>1, <2>1, SendQuiet DEF RelayInv
  <2> QED
    BY <1>2, <2>1, <2>2, <2>3, <2>4
<1>4. CASE Walking
  <2> PICK u : u = stream[mgr.next].user
    OBVIOUS
  <2> PICK l : l = list[u]
    OBVIOUS
  <2> PICK n : n = list'[u]
    OBVIOUS
  <2> PICK o : o = SteppedOver(l, n, c)
    OBVIOUS
  <2>1. /\ u \in Users /\ mgr.at >= 1 /\ mgr.held \subseteq ToSet(l) /\ WalkedUpTo(l)
        /\ mgr.gone => mgr.held = {}
    BY <1>1, <1>4 DEF WalkOK
  <2>2. u # None
    BY <2>1, RelayAssumption DEF RelayAssumption
  <2>3. l \in Seq(Conns) /\ n \in Seq(Conns)
    BY <1>1, <2>1 DEF RelayTyped, ListsMove
  <2>4. \A k \in 1..Len(l) : l[k] \in Conns /\ sock[l[k]] \in {"open", "closing"}
    BY <1>1, <2>1, ListEntries
  <2>5. mgr.at \in Nat
    BY <1>2 DEF Managers
  <2>6. o \in SUBSET Conns
    BY <2>1, <2>3, <2>4, <2>5 DEF SteppedOver
  <2>7. mgr' = [mgr EXCEPT !.gone = @ \/ n = <<>>, !.held = @ \cap ToSet(n), !.skipped = @ \cup o]
    BY <1>4, <2>2 DEF Walked
  <2>8. /\ mgr' \in Managers
        /\ mgr'.pc = mgr.pc /\ mgr'.pos = mgr.pos /\ mgr'.next = mgr.next /\ mgr'.to = mgr.to /\ mgr'.at = mgr.at
        /\ mgr'.found = mgr.found /\ mgr'.conn = mgr.conn
        /\ mgr'.gone = (mgr.gone \/ n = <<>>)
        /\ mgr'.held = mgr.held \cap ToSet(n) /\ mgr'.skipped = mgr.skipped \cup o
    <3>1. mgr.gone \in BOOLEAN
      BY <1>2 DEF Managers
    <3> PICK g \in BOOLEAN : g = (mgr.gone \/ n = <<>>)
      BY <3>1
    <3> PICK h : h = mgr.held \cap ToSet(n)
      OBVIOUS
    <3> PICK m : m = mgr.skipped \cup o
      OBVIOUS
    <3>2. mgr' = [mgr EXCEPT !.gone = g, !.held = h, !.skipped = m]
      BY <2>7
    <3>3. h \in SUBSET Conns /\ m \in SUBSET Conns
      BY <1>2, <2>6 DEF Managers
    <3> QED
      BY <1>2, <3>2, <3>3 DEF Managers
  <2>9. Positioned' /\ (times' = times => TimesOK')
    BY <2>8 DEF RelayInv, Positioned, Follows, TimesOK
  <2>10. \A k \in 1..Len(l) : Passed(l[k]) => Passed(l[k])'
    BY <2>8, <2>4 DEF Passed, SockOnward
  <2>11. \A k \in 1..Len(l) : k < mgr.at /\ l[k] \in mgr'.held => Passed(l[k])' \/ l[k] \in mgr'.skipped
    BY <2>1, <2>8, <2>10 DEF WalkedUpTo
  <2>12. WalkedUpTo(n)'
    <3> SUFFICES ASSUME NEW k \in 1..Len(n), k < mgr.at, n[k] \in mgr'.held
                 PROVE  Passed(n[k])' \/ n[k] \in mgr'.skipped
      BY <2>8 DEF WalkedUpTo
    <3>1. CASE Extends(n, l)
      <4>1. IsInjective(n)
        BY <2>1 DEF ListsOK
      <4>2. PICK j \in 1..Len(l) : n[k] = l[j]
        BY <2>1, <2>8, <2>3, EntryOf
      <4>3. j \in 1..Len(n) /\ n[j] = n[k]
        BY <2>3, <3>1, <4>2 DEF Extends
      <4>4. j = k
        BY <4>1, <4>3 DEF IsInjective
      <4> QED
        BY <2>11, <4>2, <4>4
    <3>2. CASE Shifts(n, l, c)
      <4>1. PICK i \in 1..Len(l) : /\ l[i] = c /\ Len(n) = Len(l) - 1
                                   /\ \A m \in 1..Len(n) : n[m] = IF m < i THEN l[m] ELSE l[m + 1]
        BY <3>2 DEF Shifts
      <4>2. Len(l) \in Nat /\ Len(n) \in Nat
        BY <2>3
      <4>3. CASE k < i
        BY <2>11, <4>1, <4>2, <4>3
      <4>4. CASE k >= i /\ k + 1 < mgr.at
        <5>1. k + 1 \in 1..Len(l) /\ n[k] = l[k + 1]
          BY <4>1, <4>2, <4>4
        <5> QED
          BY <2>11, <4>4, <5>1
      <4>5. CASE k >= i /\ k + 1 = mgr.at
        <5>1. n[k] = l[k + 1]
          BY <4>1, <4>5
        <5>2. Len(n) = Len(l) - 1 /\ k <= Len(n) /\ i <= k /\ k \in Nat /\ i \in Nat
          BY <4>1, <4>2, <4>5
        <5>3. k + 1 \in 1..Len(l) /\ i < k + 1 /\ Len(n) < Len(l)
          BY <4>2, <5>2
        <5>4. mgr.at \in 1..Len(l) /\ n[k] = l[mgr.at] /\ i < mgr.at /\ Len(n) < Len(l)
          BY <4>5, <5>1, <5>3
        <5>5. o = {l[mgr.at]}
          BY <4>1, <5>4 DEF SteppedOver
        <5> QED
          BY <2>8, <5>4, <5>5
      <4> QED
        BY <2>5, <4>3, <4>4, <4>5
    <3> QED
      BY <2>1, <3>1, <3>2 DEF ListsMove
  <2>13. mgr'.held \subseteq ToSet(n) /\ (mgr'.gone => mgr'.held = {})
    <3>1. ToSet(<<>>) = {}
      BY DEF ToSet
    <3> QED
      BY <2>1, <2>8, <3>1
  <2>14. WalkOK'
    BY <1>4, <2>1, <2>8, <2>12, <2>13 DEF WalkOK, Walking, Handling
  <2>15. SendOK'
    BY <1>4, <2>8 DEF SendOK, Walking
  <2> QED
    BY <2>8, <2>9, <2>14, <2>15
<1> QED
  BY <1>3, <1>4

\* unassign_connection
LEMMA WithoutConnection ==
  ASSUME RelayInv, NEW c \in Conns, NEW w \in Users \cup {None}
  PROVE  /\ Without(c, w) \in [Users -> Seq(Conns)]
         /\ \A u \in Users : /\ IsInjective(Without(c, w)[u])
                             /\ ToSet(Without(c, w)[u]) = IF u = w THEN ToSet(list[u]) ELSE ToSet(list[u]) \ {c}
                             /\ \/ Without(c, w)[u] = list[u]
                                \/ u # w /\ Shifts(Without(c, w)[u], list[u], c)
<1>1. \A u \in Users : list[u] \in Seq(Conns) /\ IsInjective(list[u])
  BY DEF RelayInv, RelayTyped, ListsOK
<1>2. \A u \in Users : LET r == RemoveFirst(list[u], c)
                       IN  /\ r \in Seq(Conns) /\ IsInjective(r) /\ ToSet(r) = ToSet(list[u]) \ {c}
                           /\ r = list[u] \/ Shifts(r, list[u], c)
  BY <1>1, RemovedFirst
<1>3. \A u \in Users : Without(c, w)[u] = IF u = w THEN list[u] ELSE RemoveFirst(list[u], c)
  BY DEF Without
<1>4. Without(c, w) \in [Users -> Seq(Conns)]
  BY <1>1, <1>2 DEF Without
<1> QED
  BY <1>1, <1>2, <1>3, <1>4

LEMMA SameExtends ==
  ASSUME NEW l \in Seq(Conns)
  PROVE  Extends(l, l)
  BY DEF Extends

LEMMA WebKeeps ==
  ASSUME RelayInv, NEW c \in Conns, ListsMove(c), ListsOK', mgr' = Walked(c, list'), UNCHANGED <<stream, calls, proc, sd, times>>,
         sock' \in [Conns -> {"new", "open", "closing", "closed"}], reg' \in SUBSET Conns, IsFiniteSet(reg'),
         \A d \in Conns : /\ sock'[d] = sock[d] \/ (sock[d] # "new" /\ sock'[d] = "closed")
                          /\ sock'[d] = "open" /\ d \in reg => d \in reg'
  PROVE  RelayInv'
<1>1. SockOnward
  BY DEF SockOnward
<1>2. \A d \in Conns : Told(d) => Told(d)'
  BY DEF Told
<1>3. mgr' \in Managers /\ Positioned' /\ TimesOK' /\ mgr'.pc = mgr.pc /\ WalkOK' /\ SendOK'
  BY <1>1, <1>2, WalkMoves
<1>4. RelayTyped'
  BY <1>3 DEF RelayInv, RelayTyped, ListsMove
<1>5. RegOK'
  BY <1>3 DEF RelayInv, RegOK
<1> QED
  BY <1>3, <1>4, <1>5 DEF RelayInv

LEMMA AssignKeeps ==
  ASSUME RelayInv, NEW c \in Conns, NEW u \in Users, AssignUserId(c, u)
  PROVE  RelayInv'
<1> DEFINE w == Without(c, u)
           e == IF c \in ToSet(list[u]) THEN list[u] ELSE Append(list[u], c)
<1>1. RelayTyped /\ ListsOK
  BY DEF RelayInv
<1>2. list[u] \in Seq(Conns) /\ IsInjective(list[u])
  BY <1>1 DEF RelayTyped, ListsOK
<1>3. /\ w \in [Users -> Seq(Conns)] /\ w[u] = list[u]
      /\ \A v \in Users \ {u} : /\ IsInjective(w[v]) /\ ToSet(w[v]) = ToSet(list[v]) \ {c}
                                /\ w[v] = list[v] \/ Shifts(w[v], list[v], c)
  BY WithoutConnection
<1>4. e \in Seq(Conns) /\ IsInjective(e) /\ ToSet(e) = ToSet(list[u]) \cup {c} /\ Extends(e, list[u])
  <2>1. CASE c \in ToSet(list[u])
    BY <1>2, <2>1, SameExtends
  <2>2. CASE c \notin ToSet(list[u])
    BY <1>2, <2>2, AppendedTo DEF Extends
  <2> QED
    BY <2>1, <2>2
<1>5. /\ list' = [w EXCEPT ![u] = IF c \in ToSet(@) THEN @ ELSE Append(@, c)]
      /\ mgr' = Walked(c, list') /\ Live(c)
      /\ UNCHANGED <<stream, sock, reg, calls, proc, sd, faults, times>>
  BY DEF AssignUserId
<1> HIDE DEF w, e
<1>6. list' = [w EXCEPT ![u] = e]
  BY <1>3, <1>5 DEF e
<1>7. list' \in [Users -> Seq(Conns)] /\ \A v \in Users : list'[v] = IF v = u THEN e ELSE w[v]
  BY <1>3, <1>4, <1>6
<1>8. ListsMove(c)
  <2> SUFFICES ASSUME NEW v \in Users PROVE Shifts(list'[v], list[v], c) \/ Extends(list'[v], list[v])
    BY <1>7 DEF ListsMove
  <2>1. CASE v = u
    BY <2>1, <1>4, <1>7
  <2>2. CASE v # u
    <3>1. list[v] \in Seq(Conns)
      BY <1>1 DEF RelayTyped
    <3> QED
      BY <2>2, <3>1, <1>3, <1>7, SameExtends
  <2> QED
    BY <2>1, <2>2
<1>9. ListsOK'
  <2>1. \A v \in Users : IsInjective(list'[v])
    BY <1>3, <1>4, <1>7
  <2>2. \A d \in Conns, v \in Users :
          d \in ToSet(list'[v]) <=> IF d = c THEN v = u ELSE d \in ToSet(list[v])
    BY <1>3, <1>4, <1>7
  <2>3. sock[c] \in {"open", "closing"}
    BY <1>5 DEF Live
  <2> HIDE DEF ToSet
  <2> QED
    BY <1>1, <1>5, <2>1, <2>2, <2>3 DEF ListsOK, InList
<1> QED
  BY <1>1, <1>5, <1>8, <1>9, WebKeeps DEF RelayTyped

\* list and sock after unassign_connection, on its own or with the close
LEMMA UnassignKeeps ==
  ASSUME RelayInv, NEW c \in Conns, UnassignConnection(c),
         \/ UNCHANGED <<sock, reg>>
         \/ /\ sock' = [sock EXCEPT ![c] = "closed"] /\ sock[c] # "new"
            /\ reg' = reg \ {c}
  PROVE  RelayInv'
<1> DEFINE w == Without(c, None)
<1>1. RelayTyped /\ ListsOK
  BY DEF RelayInv
<1>2. list' = w /\ mgr' = Walked(c, list') /\ UNCHANGED <<stream, calls, proc, sd, faults, times>>
  BY DEF UnassignConnection
<1>3. None \notin Users
  BY RelayAssumption DEF RelayAssumption
<1>4. /\ w \in [Users -> Seq(Conns)]
      /\ \A v \in Users : /\ IsInjective(w[v]) /\ ToSet(w[v]) = ToSet(list[v]) \ {c}
                          /\ w[v] = list[v] \/ Shifts(w[v], list[v], c)
  BY <1>3, WithoutConnection
<1> HIDE DEF w
<1>5. ListsMove(c)
  <2>1. \A v \in Users : list[v] \in Seq(Conns)
    BY <1>1 DEF RelayTyped
  <2> QED
    BY <1>2, <1>4, <2>1, SameExtends DEF ListsMove
<1>6. \A d \in Conns : /\ d # c => sock'[d] = sock[d] /\ (d \in reg => d \in reg')
                       /\ sock'[c] = sock[c] \/ (sock[c] # "new" /\ sock'[c] = "closed")
                       /\ sock'[c] = "open" /\ c \in reg => c \in reg'
  BY <1>1 DEF RelayTyped
<1>7. ListsOK'
  <2>1. \A v \in Users : IsInjective(list'[v])
    BY <1>2, <1>4
  <2>2. \A d \in Conns, v \in Users : d \in ToSet(list'[v]) <=> d # c /\ d \in ToSet(list[v])
    BY <1>2, <1>4
  <2> QED
    BY <1>1, <1>6, <2>1, <2>2 DEF ListsOK, InList
<1>8. reg' \in SUBSET Conns /\ IsFiniteSet(reg')
  <2>1. reg \in SUBSET Conns /\ IsFiniteSet(reg)
    BY <1>1 DEF RelayTyped
  <2>2. IsFiniteSet(reg \ {c})
    BY <2>1, FS_RemoveElement
  <2>3. reg' = reg \/ reg' = reg \ {c}
    OBVIOUS
  <2> QED
    BY <2>1, <2>2, <2>3
<1>9. sock' \in [Conns -> {"new", "open", "closing", "closed"}]
  BY <1>1 DEF RelayTyped
<1>10. \A d \in Conns : /\ sock'[d] = sock[d] \/ (sock[d] # "new" /\ sock'[d] = "closed")
                        /\ sock'[d] = "open" /\ d \in reg => d \in reg'
  BY <1>6
<1> QED
  BY <1>2, <1>5, <1>7, <1>8, <1>9, <1>10, WebKeeps

LEMMA ClosesKeep ==
  ASSUME RelayInv, NEW c \in Conns, ClearUser(c) \/ OnClose(c)
  PROVE  RelayInv'
<1>1. CASE ClearUser(c)
  BY <1>1, UnassignKeeps DEF ClearUser
<1>2. CASE OnClose(c)
  BY <1>2, UnassignKeeps DEF OnClose, Live
<1> QED
  BY <1>1, <1>2

-----------------------------------------------------------------------------
(* The manager between two messages *)

LEMMA Idled ==
  ASSUME NEW m \in Managers
  PROVE  /\ Idle(m) \in Managers /\ Idle(m).pc = "wait" /\ Idle(m).pos = m.pos
         /\ Idle(m).next = 0 /\ Idle(m).to = 0 /\ ~Idle(m).gone
<1> DEFINE a == [m EXCEPT !.pc = "wait", !.next = 0, !.to = 0, !.at = 0]
           b == [a EXCEPT !.gone = FALSE, !.conn = None]
           d == [b EXCEPT !.found = <<>>, !.held = {}, !.skipped = {}]
<1>1. a \in Managers /\ a.pc = "wait" /\ a.next = 0 /\ a.to = 0 /\ a.pos = m.pos
  BY DEF Managers
<1>2. Idle(m) = d
  BY DEF Idle
<1> HIDE DEF a
<1>3. b \in Managers /\ b.pc = a.pc /\ b.next = a.next /\ b.to = a.to /\ b.pos = a.pos /\ ~b.gone
  BY <1>1 DEF Managers
<1> HIDE DEF b
<1>4. d \in Managers /\ d.pc = b.pc /\ d.next = b.next /\ d.to = b.to /\ d.pos = b.pos /\ d.gone = b.gone
  <2> PICK e : e = <<>>
    OBVIOUS
  <2>1. e \in Seq(Conns) /\ d = [b EXCEPT !.found = e, !.held = {}, !.skipped = {}]
    OBVIOUS
  <2> QED
    BY <1>3, <2>1 DEF Managers
<1> QED
  BY <1>1, <1>2, <1>3, <1>4

\* A step of the manager that handles no message before or after it.
LEMMA OutsideKeeps ==
  ASSUME RelayInv, UNCHANGED <<stream, sock, reg, list, calls, proc, sd, times>>,
         mgr' \in Managers, mgr'.pos = mgr.pos, mgr.pc \notin Handling, mgr'.pc \notin Handling, ~mgr'.gone,
         Positioned', mgr'.pc # "off", sd.event => mgr'.pc = "ended"
  PROVE  RelayInv'
<1>1. RelayTyped'
  BY DEF RelayInv, RelayTyped
<1>2. TimesOK'
  BY TimesQuiet DEF RelayInv
<1>3. ListsOK' /\ RegOK'
  BY DEF RelayInv, ListsOK, InList, RegOK
<1>4. WalkOK' /\ SendOK'
  BY DEF WalkOK, SendOK, Walking, Handling
<1> QED
  BY <1>1, <1>2, <1>3, <1>4 DEF RelayInv

\* While the manager is at its work the shutdown has not begun.
LEMMA LoopsKeeps ==
  ASSUME RelayInv, Loops
  PROVE  RelayInv'
<1>1. mgr \in Managers /\ Positioned /\ mgr.pc \in {"off", "wait"} /\ ~mgr.gone /\ sd.event \in BOOLEAN
  BY DEF RelayInv, RelayTyped, Loops, WalkOK, Handling
<1>2. mgr' = [mgr EXCEPT !.pc = IF sd.event THEN "ended" ELSE "tick"]
      /\ UNCHANGED <<stream, sock, reg, list, calls, proc, sd, times>>
  BY DEF Loops, Manages, Quiet, web
<1>3. mgr' \in Managers /\ mgr'.pc = (IF sd.event THEN "ended" ELSE "tick") /\ mgr'.pos = mgr.pos
      /\ mgr'.next = mgr.next /\ mgr'.to = mgr.to /\ ~mgr'.gone
  BY <1>1, <1>2 DEF Managers
<1>4. Positioned'
  BY <1>1, <1>2, <1>3 DEF Positioned, Working, Handling
<1> QED
  BY <1>1, <1>2, <1>3, <1>4, OutsideKeeps DEF Handling

LEMMA ReadStartsKeeps ==
  ASSUME RelayInv, ReadStarts
  PROVE  RelayInv'
<1>1. mgr \in Managers /\ Positioned /\ mgr.pc = "tick" /\ ~mgr.gone /\ ~sd.event /\ stream \in Seq(Messages)
  BY DEF RelayInv, RelayTyped, ReadStarts, WalkOK, RegOK, Handling
<1> DEFINE n == 1 + IF mgr.pos = -1 THEN Len(stream) ELSE mgr.pos
<1>2. mgr' = [mgr EXCEPT !.pc = "read", !.next = n] /\ UNCHANGED <<stream, sock, reg, list, calls, proc, sd, times>>
  BY DEF ReadStarts, Manages, Quiet, web
<1>3. n \in 0..(Len(stream) + 1) /\ (mgr.pos = -1 \/ mgr.pos = n - 1) /\ (n > 0 \/ mgr.pos < 0)
  BY <1>1 DEF Positioned
<1>4. n > 0 /\ n \in Nat
  BY <1>1 DEF Positioned
<1> HIDE DEF n
<1>5. mgr' \in Managers /\ mgr'.pc = "read" /\ mgr'.pos = mgr.pos /\ mgr'.next = n /\ mgr'.to = mgr.to /\ ~mgr'.gone
  BY <1>1, <1>2, <1>4 DEF Managers
<1>6. Positioned'
  BY <1>1, <1>2, <1>3, <1>4, <1>5 DEF Positioned, Follows, Working, Handling
<1> QED
  BY <1>1, <1>2, <1>5, <1>6, OutsideKeeps DEF Handling

LEMMA ReadReturnsKeeps ==
  ASSUME RelayInv, ReadReturns
  PROVE  RelayInv'
<1>1. /\ mgr \in Managers /\ Positioned /\ mgr.pc = "read" /\ ~mgr.gone /\ ~sd.event
      /\ stream \in Seq(Messages) /\ Len(stream) >= mgr.next
  BY DEF RelayInv, RelayTyped, ReadReturns, WalkOK, RegOK, Handling
<1> DEFINE last == mgr.next + ReadCount - 1
           t == IF Len(stream) < last THEN Len(stream) ELSE last
<1>2. mgr' = [mgr EXCEPT !.pc = "work", !.to = t] /\ UNCHANGED <<stream, sock, reg, list, calls, proc, sd, times>>
  BY DEF ReadReturns, Manages, Quiet, web
<1>3. t \in 0..Len(stream) /\ mgr.next \in 1..t /\ t \in Nat
  BY <1>1, RelayAssumption DEF RelayAssumption, Positioned, Managers
<1> HIDE DEF t
<1>4. mgr' \in Managers /\ mgr'.pc = "work" /\ mgr'.pos = mgr.pos /\ mgr'.next = mgr.next /\ mgr'.to = t /\ ~mgr'.gone
  BY <1>1, <1>2, <1>3 DEF Managers
<1>5. Positioned'
  BY <1>1, <1>2, <1>3, <1>4 DEF Positioned, Follows, Working, Handling
<1> QED
  BY <1>1, <1>2, <1>4, <1>5, OutsideKeeps DEF Handling

LEMMA ReadEndsKeeps ==
  ASSUME RelayInv, ReadTimesOut \/ ReadFails
  PROVE  RelayInv'
<1>1. mgr \in Managers /\ Positioned /\ mgr.pc \in {"tick", "read"} /\ ~sd.event
  BY DEF RelayInv, RelayTyped, ReadTimesOut, ReadFails, RegOK
<1>2. mgr' = Idle(mgr) /\ UNCHANGED <<stream, sock, reg, list, calls, proc, sd, times>>
  BY DEF ReadTimesOut, ReadFails, Manages, Quiet, web
<1>3. mgr' \in Managers /\ mgr'.pc = "wait" /\ mgr'.pos = mgr.pos /\ mgr'.next = 0 /\ mgr'.to = 0 /\ ~mgr'.gone
  BY <1>1, <1>2, Idled
<1>4. Positioned'
  <2>1. Len(stream) \in Nat
    BY DEF RelayInv, RelayTyped
  <2> QED
    BY <1>1, <1>2, <1>3, <2>1 DEF Positioned, Working, Handling
<1> QED
  BY <1>1, <1>2, <1>3, <1>4, OutsideKeeps DEF Handling

LEMMA ShutdownKeeps ==
  ASSUME RelayInv, Shutdown
  PROVE  RelayInv'
<1>1. RelayTyped /\ Positioned /\ mgr \in Managers /\ mgr.pc \in {"tick", "read", "wait", "ended"}
  BY DEF RelayInv, RelayTyped, Shutdown
<1>2. /\ sd' = [event |-> TRUE, pc |-> "gather"] /\ reg' = {} /\ list' = [u \in Users |-> <<>>]
      /\ calls' = [c \in Conns |-> IF c \in reg THEN Append(calls[c], 0) ELSE calls[c]]
      /\ mgr' = [Idle(mgr) EXCEPT !.pc = "ended"] /\ UNCHANGED <<stream, sock, proc, faults, times>>
  BY DEF Shutdown
<1>3. /\ mgr' \in Managers /\ mgr'.pc = "ended" /\ mgr'.pos = mgr.pos /\ mgr'.next = 0 /\ mgr'.to = 0 /\ ~mgr'.gone
  <2> PICK m : m = Idle(mgr)
    OBVIOUS
  <2>1. m \in Managers /\ m.pos = mgr.pos /\ m.next = 0 /\ m.to = 0 /\ ~m.gone
    BY <1>1, Idled
  <2>2. mgr' = [m EXCEPT !.pc = "ended"]
    BY <1>2
  <2> QED
    BY <2>1, <2>2 DEF Managers
<1>4. RelayTyped'
  <2>1. calls' \in [Conns -> Seq(Nat)]
    <3>1. \A c \in Conns : calls[c] \in Seq(Nat) /\ Append(calls[c], 0) \in Seq(Nat)
      BY <1>1, AppendedTo DEF RelayTyped
    <3> QED
      BY <1>2, <3>1
  <2>2. list' \in [Users -> Seq(Conns)]
    BY <1>2
  <2>3. reg' \in SUBSET Conns /\ IsFiniteSet(reg')
    BY <1>2, FS_EmptySet
  <2> QED
    BY <1>1, <1>2, <1>3, <2>1, <2>2, <2>3 DEF RelayTyped
<1>5. Positioned'
  BY <1>1, <1>2, <1>3 DEF RelayTyped, Positioned, Working, Handling
<1>6. TimesOK'
  BY <1>1, <1>2, <1>3, TimesQuiet DEF RelayInv, Handling
<1>7. ListsOK'
  <2>1. IsInjective(<<>>) /\ ToSet(<<>>) = {}
    BY DEF IsInjective, ToSet
  <2> QED
    BY <1>2, <2>1 DEF ListsOK, InList
<1>8. RegOK' /\ WalkOK' /\ SendOK'
  BY <1>2, <1>3 DEF RegOK, WalkOK, SendOK, Walking, Handling
<1> QED
  BY <1>4, <1>5, <1>6, <1>7, <1>8 DEF RelayInv

-----------------------------------------------------------------------------
(* The manager at a message *)

\* Past the message, whatever it came to.
LEMMA AdvancePosition ==
  ASSUME RelayTyped, Positioned, mgr.pc \in Working, NEW raised, Advance(mgr, raised)
  PROVE  /\ UNCHANGED <<stream, sock, reg, list, proc, sd>>
         /\ mgr' \in Managers /\ mgr'.pos = mgr.next /\ mgr'.pc \in {"wait", "work"} /\ ~mgr'.gone
         /\ Positioned'
<1> PICK m : m = Idle([mgr EXCEPT !.pos = mgr.next])
  OBVIOUS
<1>1. mgr \in Managers /\ mgr.next \in 1..mgr.to /\ mgr.to \in 0..Len(stream) /\ Len(stream) \in Nat /\ mgr.next \in Nat
  BY DEF RelayTyped, Positioned, Managers
<1>2. m \in Managers /\ m.pos = mgr.next /\ m.pc = "wait" /\ m.next = 0 /\ m.to = 0 /\ ~m.gone
  <2>1. [mgr EXCEPT !.pos = mgr.next] \in Managers /\ [mgr EXCEPT !.pos = mgr.next].pos = mgr.next
    BY <1>1 DEF Managers
  <2> QED
    BY <2>1, Idled
<1>3. UNCHANGED <<stream, sock, reg, list, proc, sd>>
  BY DEF Advance, Manages, web
<1>4. CASE mgr.next = mgr.to
  <2>1. mgr' = m
    BY <1>4 DEF Advance, Manages
  <2>2. Positioned'
    BY <1>1, <1>2, <1>3, <2>1 DEF Positioned, Working, Handling
  <2> QED
    BY <1>2, <1>3, <2>1, <2>2
<1>5. CASE mgr.next # mgr.to
  <2>1. mgr' = [m EXCEPT !.pc = "work", !.next = mgr.next + 1, !.to = mgr.to]
    BY <1>5 DEF Advance, Manages
  <2>2. mgr' \in Managers /\ mgr'.pos = mgr.next /\ mgr'.pc = "work" /\ mgr'.next = mgr.next + 1 /\ mgr'.to = mgr.to
        /\ ~mgr'.gone
    <3> PICK n \in Nat : n = mgr.next + 1
      BY <1>1
    <3> PICK t \in Nat : t = mgr.to
      BY <1>1 DEF Managers
    <3>1. mgr' = [m EXCEPT !.pc = "work", !.next = n, !.to = t]
      BY <2>1
    <3>2. [m EXCEPT !.pc = "work", !.next = n, !.to = t] \in Managers
      BY <1>2 DEF Managers
    <3>3. mgr'.pos = m.pos /\ mgr'.pc = "work" /\ mgr'.next = n /\ mgr'.to = t /\ mgr'.gone = m.gone
      BY <1>2, <3>1 DEF Managers
    <3> QED
      BY <1>2, <3>1, <3>2, <3>3
  <2>3. Positioned'
    BY <1>1, <1>3, <1>5, <2>2 DEF Positioned, Follows, Working, Handling
  <2> QED
    BY <1>3, <2>2, <2>3
<1> QED
  BY <1>4, <1>5

LEMMA AdvanceTimes ==
  ASSUME RelayTyped, Positioned, TimesOK, mgr.pc \in Working, mgr'.pos = mgr.next, mgr'.pc \in {"wait", "work"},
         \A i \in 1..MaxMessages : times'[i] = IF i = mgr.next THEN 1 ELSE times[i]
  PROVE  TimesOK'
<1>1. mgr.next \in 1..MaxMessages /\ MaxMessages \in Nat /\ Follows /\ mgr.pos \in Int
  BY MessageAtHand, RelayAssumption DEF Positioned, RelayAssumption, RelayTyped, Managers
<1>2. mgr'.pc \notin Handling
  BY DEF Handling
<1>3. \A i \in 1..MaxMessages : times'[i] = 1 => i <= mgr.next
  BY <1>1 DEF TimesOK, Follows
<1>4. ASSUME NEW i \in 1..MaxMessages, NEW j \in 1..MaxMessages, i < j, times'[i] = 1, j <= mgr.next
      PROVE  times'[j] = 1
  <2>1. CASE j = mgr.next
    BY <2>1
  <2>2. CASE j # mgr.next
    <3>1. i # mgr.next /\ times[i] = 1 /\ i <= mgr.pos
      BY <1>1, <1>4, <2>2 DEF TimesOK
    <3>2. j <= mgr.pos
      BY <1>1, <1>4, <2>2, <3>1 DEF Follows
    <3> QED
      BY <1>4, <2>2, <3>1, <3>2 DEF TimesOK
  <2> QED
    BY <2>1, <2>2
<1> QED
  BY <1>2, <1>3, <1>4 DEF TimesOK

\* A step that ends the work on a message.
LEMMA AdvanceKeeps ==
  ASSUME RelayInv, mgr.pc \in Working, NEW raised, Advance(mgr, raised), calls' = calls,
         times' \in [1..MaxMessages -> {0, 1}],
         \A i \in 1..MaxMessages : times'[i] = IF i = mgr.next THEN 1 ELSE times[i]
  PROVE  RelayInv'
<1>1. RelayTyped /\ Positioned /\ TimesOK /\ ~sd.event
  BY DEF RelayInv, RegOK, Working, Handling
<1>2. /\ UNCHANGED <<stream, sock, reg, list, proc, sd>>
      /\ mgr' \in Managers /\ mgr'.pos = mgr.next /\ mgr'.pc \in {"wait", "work"} /\ ~mgr'.gone
      /\ Positioned'
  BY <1>1, AdvancePosition
<1>3. TimesOK'
  BY <1>1, <1>2, AdvanceTimes
<1>4. RelayTyped'
  BY <1>1, <1>2 DEF RelayTyped
<1>5. ListsOK' /\ RegOK'
  BY <1>1, <1>2 DEF RelayInv, ListsOK, InList, RegOK
<1>6. WalkOK' /\ SendOK'
  BY <1>2 DEF WalkOK, SendOK, Walking, Handling
<1> QED
  BY <1>2, <1>3, <1>4, <1>5, <1>6 DEF RelayInv

\* A step that goes on with the message it handles.
LEMMA HandleKeeps ==
  ASSUME RelayInv, mgr.pc \in Handling, UNCHANGED <<stream, sock, reg, list, proc, sd, times>>,
         calls' \in [Conns -> Seq(Nat)], mgr' \in Managers, mgr'.pc \in Handling,
         mgr'.pos = mgr.pos, mgr'.next = mgr.next, mgr'.to = mgr.to, WalkOK', SendOK'
  PROVE  RelayInv'
<1>1. RelayTyped'
  BY DEF RelayInv, RelayTyped
<1>2. TimesOK'
  BY TimesQuiet DEF RelayInv
<1>3. Positioned'
  BY DEF RelayInv, Positioned, Follows, Working, Handling
<1>4. ~sd.event
  BY DEF RelayInv, RegOK, Handling
<1>5. ListsOK' /\ RegOK'
  BY <1>4 DEF RelayInv, ListsOK, InList, RegOK
<1> QED
  BY <1>1, <1>2, <1>3, <1>5 DEF RelayInv

LEMMA WorkKeeps ==
  ASSUME RelayInv, Work
  PROVE  RelayInv'
<1> PICK msg : msg = stream[mgr.next]
  OBVIOUS
<1>1. RelayTyped /\ Positioned /\ TimesOK /\ ~sd.event /\ ~mgr.gone /\ mgr.pc = "work" /\ mgr.pc \in Working
      /\ mgr.pc \notin Handling /\ mgr \in Managers
  BY DEF RelayInv, RelayTyped, RegOK, WalkOK, Work, Working, Handling
<1>2. /\ mgr.next \in 1..Len(stream) /\ mgr.next \in 1..MaxMessages /\ msg \in Messages
      /\ msg.type \in {"revoke", "user"} => msg.user \in Users
      /\ msg.type \in {"revoke", "user", "all", "bad"}
  BY <1>1, MessageAtHand
<1>3. times' = [times EXCEPT ![mgr.next] = @ + 1] /\ calls' = calls
  BY DEF Work
<1>4. times[mgr.next] = 0
  <2>1. times[mgr.next] \in {0, 1}
    BY <1>1, <1>2 DEF RelayTyped
  <2>2. ~ (mgr.next <= mgr.pos)
    BY <1>1, <1>2 DEF Positioned, Follows
  <2> QED
    BY <1>1, <1>2, <2>1, <2>2 DEF TimesOK
<1>5. /\ times' \in [1..MaxMessages -> {0, 1}]
      /\ \A i \in 1..MaxMessages : times'[i] = IF i = mgr.next THEN 1 ELSE times[i]
  BY <1>1, <1>2, <1>3, <1>4 DEF RelayTyped
<1>6. CASE Advance(mgr, FALSE)
  BY <1>1, <1>3, <1>5, <1>6, AdvanceKeeps
<1>7. ASSUME Manages(mgr'), mgr' \in Managers, mgr'.pc \in Handling, mgr'.pos = mgr.pos, mgr'.next = mgr.next,
             mgr'.to = mgr.to, WalkOK', SendOK'
      PROVE  RelayInv'
  <2>1. UNCHANGED <<stream, sock, reg, list, proc, sd>>
    BY <1>7 DEF Manages, web
  <2>2. RelayTyped'
    BY <1>1, <1>3, <1>5, <1>7, <2>1 DEF RelayTyped
  <2>3. Positioned'
    BY <1>1, <1>7, <2>1 DEF Positioned, Follows, Working, Handling
  <2>4. TimesOK'
    <3>1. \A i \in 1..MaxMessages : times'[i] = 1 => i <= mgr.pos \/ i = mgr.next
      BY <1>1, <1>5 DEF TimesOK
    <3>2. ASSUME NEW i \in 1..MaxMessages, NEW j \in 1..MaxMessages, i < j, times'[i] = 1, j <= mgr.pos
          PROVE  times'[j] = 1
      <4>1. i # mgr.next
        BY <1>1, <1>2, <3>2 DEF Positioned, Follows
      <4> QED
        BY <1>1, <1>5, <3>2, <4>1 DEF TimesOK
    <3> QED
      BY <1>2, <1>5, <1>7, <3>1, <3>2 DEF TimesOK
  <2>5. ListsOK' /\ RegOK'
    BY <1>1, <2>1 DEF RelayInv, ListsOK, InList, RegOK
  <2> QED
    BY <1>7, <2>2, <2>3, <2>4, <2>5 DEF RelayInv
<1>8. CASE msg.type = "all"
  <2> PICK f : f = SetToSeq(reg)
    OBVIOUS
  <2>1. f \in Seq(Conns)
    <3>1. f \in Seq(reg)
      BY <1>1, SetAsSequence DEF RelayTyped
    <3> QED
      BY <1>1, <3>1 DEF RelayTyped
  <2>2. mgr' = [mgr EXCEPT !.pc = "send", !.found = f] /\ Manages(mgr')
    BY <1>8 DEF Work, Manages
  <2>3. mgr' \in Managers /\ mgr'.pc = "send" /\ mgr'.pos = mgr.pos /\ mgr'.next = mgr.next /\ mgr'.to = mgr.to
    BY <1>1, <2>1, <2>2 DEF Managers
  <2>4. WalkOK'
    BY <2>3 DEF WalkOK, Walking, Handling
  <2>5. stream' = stream
    BY <2>2 DEF Manages
  <2>6. SendOK'
    BY <1>8, <2>3, <2>5 DEF SendOK
  <2> QED
    BY <1>7, <2>2, <2>3, <2>4, <2>6 DEF Handling
<1>9. CASE msg.type # "all" /\ ~ (msg.type = "bad" \/ list[msg.user] = <<>>)
  <2> PICK u : u = msg.user
    OBVIOUS
  <2> PICK l : l = list[u]
    OBVIOUS
  <2> PICK h : h = ToSet(l)
    OBVIOUS
  <2>1. u \in Users /\ l # <<>> /\ l \in Seq(Conns)
    BY <1>1, <1>2, <1>9 DEF RelayTyped
  <2>2. h \in SUBSET Conns
    BY <2>1, EntryOf
  <2>3. mgr' = [mgr EXCEPT !.pc = "collect", !.at = 1, !.held = h] /\ Manages(mgr')
    BY <1>9 DEF Work, Manages
  <2>4. /\ mgr' \in Managers /\ mgr'.pc = "collect" /\ mgr'.pos = mgr.pos /\ mgr'.next = mgr.next /\ mgr'.to = mgr.to
        /\ mgr'.at = 1 /\ mgr'.held = h /\ mgr'.gone = mgr.gone
    BY <1>1, <2>2, <2>3 DEF Managers
  <2>5. stream' = stream /\ list' = list
    BY <2>3 DEF Manages, web
  <2>6. WalkedUpTo(l)'
    BY <1>1, <2>1, <2>4 DEF WalkedUpTo
  <2>7. WalkOK'
    BY <1>1, <2>1, <2>4, <2>5, <2>6 DEF WalkOK, Handling
  <2>8. SendOK'
    BY <2>4 DEF SendOK
  <2> QED
    BY <1>7, <2>3, <2>4, <2>7, <2>8 DEF Handling
<1> QED
  BY <1>6, <1>8, <1>9 DEF Work

LEMMA CollectKeeps ==
  ASSUME RelayInv, Collect
  PROVE  RelayInv'
<1> PICK u : u = stream[mgr.next].user
  OBVIOUS
<1> PICK l : l = list[u]
  OBVIOUS
<1>1. /\ mgr \in Managers /\ mgr.pc = "collect" /\ RelayTyped /\ ListsOK /\ ~sd.event
      /\ u \in Users /\ mgr.at >= 1 /\ mgr.held \subseteq ToSet(l) /\ WalkedUpTo(l) /\ (mgr.gone => mgr.held = {})
  BY DEF RelayInv, RelayTyped, RegOK, WalkOK, Walking, Collect
<1>2. l \in Seq(Conns) /\ mgr.at \in Nat /\ calls \in [Conns -> Seq(Nat)]
  BY <1>1 DEF RelayTyped, Managers
<1>3. \A k \in 1..Len(l) : l[k] \in Conns /\ sock[l[k]] \in {"open", "closing"}
  BY <1>1, ListEntries
<1>4. UNCHANGED <<stream, sock, reg, list, calls, proc, sd, times>>
  BY DEF Collect, Manages, Quiet, web
<1>5. ASSUME NEW k \in 1..Len(l), k < mgr.at, l[k] \in mgr.held
      PROVE  l[k] \in ToSet(mgr.found) \/ sock[l[k]] # "open" \/ l[k] \in mgr.skipped
  BY <1>1, <1>5 DEF WalkedUpTo, Passed
<1>6. CASE mgr.gone \/ mgr.at > Len(l)
  <2>1. mgr' = [mgr EXCEPT !.pc = "send"]
    BY <1>6 DEF Collect, Manages
  <2>2. /\ mgr' \in Managers /\ mgr'.pc = "send" /\ mgr'.pos = mgr.pos /\ mgr'.next = mgr.next /\ mgr'.to = mgr.to
        /\ mgr'.skipped = mgr.skipped /\ mgr'.held = mgr.held /\ mgr'.found = mgr.found
    BY <1>1, <2>1 DEF Managers
  <2>3. ASSUME NEW c \in mgr.held PROVE sock[c] # "new" /\ (Told(c) \/ c \in ToSet(mgr.found) \/ c \in mgr.skipped)
    <3>0. l \in Seq(Conns)
      BY <1>2
    <3>1. \A d \in ToSet(l) : \E k \in 1..Len(l) : d = l[k]
      BY <3>0, EntryOf
    <3>2. PICK k \in 1..Len(l) : c = l[k]
      BY <1>1, <3>1
    <3>3. mgr.at > Len(l)
      BY <1>1, <1>6, <2>3
    <3>4. k < mgr.at
      BY <1>2, <3>2, <3>3
    <3> QED
      BY <1>3, <1>5, <2>3, <3>2, <3>4 DEF Told
  <2>4. SendOK'
    BY <1>4, <2>2, <2>3 DEF SendOK, ToBeTold, Told
  <2>5. WalkOK'
    BY <2>2 DEF WalkOK, Walking, Handling
  <2> QED
    BY <1>1, <1>2, <1>4, <2>2, <2>4, <2>5, HandleKeeps DEF Handling
<1>7. CASE ~ (mgr.gone \/ mgr.at > Len(l))
  <2> PICK a : a = mgr.at + 1
    OBVIOUS
  <2> PICK c : c = l[mgr.at]
    OBVIOUS
  <2>1. mgr.at \in 1..Len(l) /\ a \in Nat /\ c \in Conns
    BY <1>1, <1>2, <1>3, <1>7
  <2>2. /\ mgr' \in Managers /\ mgr'.pos = mgr.pos /\ mgr'.next = mgr.next /\ mgr'.to = mgr.to
        /\ mgr'.skipped = mgr.skipped /\ mgr'.held = mgr.held /\ mgr'.found = mgr.found /\ mgr'.gone = mgr.gone
        /\ mgr'.at = a
        /\ \/ mgr'.pc = "fetch" /\ mgr'.conn = c
           \/ mgr'.pc = "collect" /\ c \notin reg
    <3>1. CASE c \in reg
      <4>1. mgr' = [mgr EXCEPT !.pc = "fetch", !.conn = c, !.at = a]
        BY <1>7, <3>1 DEF Collect, Manages
      <4> QED
        BY <1>1, <2>1, <4>1 DEF Managers
    <3>2. CASE c \notin reg
      <4>1. mgr' = [mgr EXCEPT !.at = a]
        BY <1>7, <3>2 DEF Collect, Manages
      <4> QED
        BY <1>1, <2>1, <3>2, <4>1 DEF Managers
    <3> QED
      BY <3>1, <3>2
  <2>3. WalkedUpTo(l)'
    <3> SUFFICES ASSUME NEW k \in 1..Len(l), k < mgr'.at, l[k] \in mgr.held
                 PROVE  Passed(l[k])' \/ l[k] \in mgr'.skipped
      BY <2>2 DEF WalkedUpTo
    <3>1. CASE k = mgr.at
      <4>1. mgr'.pc = "fetch" \/ sock[c] # "open"
        BY <1>1, <2>1, <2>2 DEF RelayInv, RegOK
      <4> QED
        BY <1>4, <2>2, <3>1, <4>1 DEF Passed
    <3>2. CASE k # mgr.at
      <4>1. k < mgr.at
        BY <1>2, <2>2, <3>2
      <4> QED
        BY <1>4, <1>5, <2>2, <4>1 DEF Passed
    <3> QED
      BY <3>1, <3>2
  <2>4. a >= 1
    BY <1>1, <1>2
  <2>5. WalkOK'
    BY <1>1, <1>4, <2>2, <2>3, <2>4 DEF WalkOK, Handling
  <2>6. SendOK'
    BY <2>2 DEF SendOK
  <2> QED
    BY <1>1, <1>2, <1>4, <2>2, <2>5, <2>6, HandleKeeps DEF Handling
<1> QED
  BY <1>6, <1>7

LEMMA FetchKeeps ==
  ASSUME RelayInv, Fetch
  PROVE  RelayInv'
<1> PICK u : u = stream[mgr.next].user
  OBVIOUS
<1> PICK l : l = list[u]
  OBVIOUS
<1> PICK c : c = mgr.conn
  OBVIOUS
<1>1. /\ mgr \in Managers /\ mgr.pc = "fetch" /\ RelayTyped /\ TimesOK /\ Positioned
      /\ u \in Users /\ mgr.at >= 1 /\ mgr.held \subseteq ToSet(l) /\ WalkedUpTo(l) /\ (mgr.gone => mgr.held = {})
  BY DEF RelayInv, RelayTyped, WalkOK, Walking, Fetch
<1>2. calls' = calls /\ times' = times /\ calls \in [Conns -> Seq(Nat)]
  BY <1>1 DEF Fetch, Quiet, RelayTyped
<1>3. CASE c \in reg
  <2> PICK f : f = Append(mgr.found, c)
    OBVIOUS
  <2>1. f \in Seq(Conns) /\ ToSet(f) = ToSet(mgr.found) \cup {c}
    <3>1. c \in Conns /\ mgr.found \in Seq(Conns)
      BY <1>1, <1>3 DEF RelayTyped, Managers
    <3> QED
      BY <3>1, AppendedTo
  <2>2. mgr' = [mgr EXCEPT !.pc = "collect", !.found = f, !.conn = None]
        /\ UNCHANGED <<stream, sock, reg, list, proc, sd>>
    BY <1>3 DEF Fetch, Manages, web
  <2>3. /\ mgr' \in Managers /\ mgr'.pc = "collect" /\ mgr'.pos = mgr.pos /\ mgr'.next = mgr.next /\ mgr'.to = mgr.to
        /\ mgr'.skipped = mgr.skipped /\ mgr'.held = mgr.held /\ mgr'.gone = mgr.gone /\ mgr'.at = mgr.at /\ mgr'.found = f
    BY <1>1, <2>1, <2>2 DEF Managers
  <2>4. \A d : Passed(d) => Passed(d)'
    BY <2>1, <2>2, <2>3 DEF Passed
  <2>5. WalkedUpTo(l)'
    BY <1>1, <2>3, <2>4 DEF WalkedUpTo
  <2>6. WalkOK'
    BY <1>1, <2>2, <2>3, <2>5 DEF WalkOK, Handling
  <2>7. SendOK'
    BY <2>3 DEF SendOK
  <2> QED
    BY <1>1, <1>2, <2>2, <2>3, <2>6, <2>7, HandleKeeps DEF Handling
<1>4. CASE c \notin reg
  <2>1. Advance(mgr, TRUE)
    BY <1>4 DEF Fetch
  <2>2. times \in [1..MaxMessages -> {0, 1}] /\ times[mgr.next] = 1
    BY <1>1 DEF RelayTyped, TimesOK, Handling
  <2> QED
    BY <1>1, <1>2, <2>1, <2>2, AdvanceKeeps DEF Working, Handling
<1> QED
  BY <1>3, <1>4

LEMMA SendKeeps ==
  ASSUME RelayInv, Send
  PROVE  RelayInv'
<1>1. /\ mgr \in Managers /\ mgr.pc = "send" /\ RelayTyped /\ TimesOK /\ Positioned /\ times' = times
      /\ mgr.found \in Seq(Conns) /\ mgr.next \in Nat
  BY DEF RelayInv, RelayTyped, Send, Managers
<1>2. CASE mgr.found = <<>>
  <2>1. Advance(mgr, FALSE) /\ calls' = calls
    BY <1>2 DEF Send
  <2>2. times \in [1..MaxMessages -> {0, 1}] /\ times[mgr.next] = 1
    BY <1>1 DEF RelayTyped, TimesOK, Handling
  <2> QED
    BY <1>1, <2>1, <2>2, AdvanceKeeps DEF Working, Handling
<1>3. CASE mgr.found # <<>>
  <2> PICK msg : msg = stream[mgr.next]
    OBVIOUS
  <2> PICK c : c = Head(mgr.found)
    OBVIOUS
  <2> PICK t : t = Tail(mgr.found)
    OBVIOUS
  <2> PICK n : n = IF msg.type = "revoke" THEN 0 ELSE mgr.next
    OBVIOUS
  <2>1. c \in Conns /\ t \in Seq(Conns) /\ \A d \in ToSet(mgr.found) : d = c \/ d \in ToSet(t)
    BY <1>1, <1>3, HeadAndTail
  <2>2. /\ mgr' = [mgr EXCEPT !.found = t] /\ UNCHANGED <<stream, sock, reg, list, proc, sd>>
        /\ calls' = IF c = msg.source /\ sock[c] # "closed" THEN calls ELSE [calls EXCEPT ![c] = Append(@, n)]
    BY <1>3 DEF Send, Manages, web
  <2>3. /\ mgr' \in Managers /\ mgr'.pc = "send" /\ mgr'.pos = mgr.pos /\ mgr'.next = mgr.next /\ mgr'.to = mgr.to
        /\ mgr'.skipped = mgr.skipped /\ mgr'.held = mgr.held /\ mgr'.found = t
    BY <1>1, <2>1, <2>2 DEF Managers
  <2>4. n \in Nat /\ calls \in [Conns -> Seq(Nat)]
    BY <1>1 DEF RelayTyped
  <2>5. Append(calls[c], n) \in Seq(Nat) /\ ToSet(Append(calls[c], n)) = ToSet(calls[c]) \cup {n}
    <3>1. calls[c] \in Seq(Nat)
      BY <2>1, <2>4
    <3> QED
      BY <2>4, <3>1, AppendedTo
  <2>6. calls' \in [Conns -> Seq(Nat)]
    BY <2>1, <2>2, <2>4, <2>5
  <2>7. \A d \in Conns : /\ ToSet(calls[d]) \subseteq ToSet(calls'[d])
                         /\ d = c => c = msg.source \/ n \in ToSet(calls'[c])
    BY <2>1, <2>2, <2>4, <2>5
  <2>8. SendOK'
    <3> SUFFICES ASSUME msg.type = "revoke", NEW d \in mgr.held PROVE (sock[d] # "new" /\ ToBeTold(d))'
      BY <2>2, <2>3 DEF SendOK
    <3>1. sock[d] # "new" /\ ToBeTold(d) /\ d \in Conns
      BY <1>1 DEF RelayInv, SendOK, Managers
    <3>2. n = 0
      OBVIOUS
    <3>3. CASE d = msg.source
      BY <2>2, <2>3, <3>1, <3>3 DEF ToBeTold
    <3>4. CASE Told(d)
      <4>1. Told(d)'
        BY <2>2, <2>7, <3>1, <3>4 DEF Told
      <4> QED
        BY <2>2, <3>1, <4>1 DEF ToBeTold
    <3>5. CASE d \in ToSet(mgr.found) /\ d # msg.source
      <4>1. d \in ToSet(t) \/ 0 \in ToSet(calls'[d])
        BY <2>1, <2>7, <3>1, <3>2, <3>5
      <4> QED
        BY <2>2, <2>3, <3>1, <4>1 DEF ToBeTold, Told
    <3>6. CASE d \in mgr.skipped
      BY <2>2, <2>3, <3>1, <3>6 DEF ToBeTold
    <3> QED
      BY <3>1, <3>3, <3>4, <3>5, <3>6 DEF ToBeTold
  <2>9. WalkOK'
    BY <2>3 DEF WalkOK, Walking, Handling
  <2> QED
    BY <1>1, <2>2, <2>3, <2>6, <2>8, <2>9, HandleKeeps DEF Handling
<1> QED
  BY <1>2, <1>3

-----------------------------------------------------------------------------
LEMMA RelayStep ==
  ASSUME RelayInv, RelayNext
  PROVE  RelayInv'
<1>1. CASE \E msg \in Messages : Publish(msg)
  BY <1>1, PublishKeeps
<1>2. CASE \E c \in Conns : AddConnection(c) \/ ClearUser(c) \/ OnClose(c) \/ RunCall(c)
  BY <1>2, AddConnectionKeeps, ClosesKeep, RunCallKeeps
<1>3. CASE \E c \in Conns, u \in Users : AssignUserId(c, u)
  BY <1>3, AssignKeeps
<1>4. CASE Manager
  BY <1>4, LoopsKeeps, ReadStartsKeeps, ReadReturnsKeeps, ReadEndsKeeps, WorkKeeps, CollectKeeps, FetchKeeps, SendKeeps
     DEF Manager
<1>5. CASE ReadFails
  BY <1>5, ReadEndsKeeps
<1>6. CASE StopLoop \/ Process
  BY <1>6, ShutdownKeeps, ProcessEndsKeep DEF Process
<1> QED
  BY <1>1, <1>2, <1>3, <1>4, <1>5, <1>6 DEF RelayNext

LEMMA RelayStutter ==
  ASSUME RelayInv, UNCHANGED relayVars
  PROVE  RelayInv'
<1>1. UNCHANGED <<stream, sock, reg, list, calls, mgr, proc, sd, faults, times>>
  BY DEF relayVars
<1>2. proc \in {"up", "stop", "join", "closed", "raised"}
      /\ sd \in [event : BOOLEAN, pc : {"none", "called", "gather", "done", "cancelled"}]
  BY DEF RelayInv, RelayTyped
<1> QED
  BY <1>1, <1>2, EndsKeeps

LEMMA RelayInvariance == RelaySpec => []RelayInv
<1>1. RelayInv /\ [RelayNext]_relayVars => RelayInv'
  BY RelayStep, RelayStutter
<1> QED
  BY RelayInitInv, <1>1, PTL DEF RelaySpec

\* process_messages: whatever raises, times out or fails in between, the manager works on
\* every message from the first one it read up to its position, once each, and skips none.
THEOREM NoMessageTwiceOrSkipped == RelaySpec => []WorkedOnce
<1>1. RelayInv => WorkedOnce
  <2> SUFFICES ASSUME RelayInv PROVE WorkedOnce
    OBVIOUS
  <2>1. \A i \in 1..MaxMessages : times[i] <= 1
    <3>1. \A i \in 1..MaxMessages : times[i] \in {0, 1}
      BY DEF RelayInv, RelayTyped
    <3> QED
      BY <3>1
  <2> QED
    BY <2>1 DEF RelayInv, TimesOK, WorkedOnce
<1> QED
  BY RelayInvariance, <1>1, PTL

\* assign_user_id, unassign_connection and close_sessions: whatever the web server's thread
\* does to the lists while the manager walks them, a connection is in one list, once, and
\* of those who stayed in the list a revocation that sends misses only whom a departure
\* moved behind the walk.
THEOREM ListsServeTheirPurpose == RelaySpec => []ListsServe
<1>1. RelayInv => ListsServe
  <2> SUFFICES ASSUME RelayInv PROVE ListsServe
    OBVIOUS
  <2>1. RelayTypeOK
    <3>1. \A u \in Users : ToSet(list[u]) \subseteq Conns
      BY EntryOf DEF RelayInv, RelayTyped
    <3>2. mgr.pc \in {"off", "tick", "read", "work", "collect", "fetch", "send", "wait", "ended"}
      BY DEF RelayInv, RelayTyped, Managers
    <3> QED
      BY <3>1, <3>2 DEF RelayInv, RelayTyped, Positioned, Working, RelayTypeOK
  <2>2. OneList
    BY DEF RelayInv, ListsOK, InList, OneList
  <2>3. RevokeCloses
    <3>1. ToSet(<<>>) = {}
      BY DEF ToSet
    <3> QED
      BY <3>1 DEF RelayInv, SendOK, ToBeTold, RevokeCloses, Sent
  <2> QED
    BY <2>1, <2>2, <2>3 DEF ListsServe
<1> QED
  BY RelayInvariance, <1>1, PTL
=============================================================================
