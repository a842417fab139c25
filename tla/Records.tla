------------------------------- MODULE Records -------------------------------
(***************************************************************************)
(* A table of the application under everything that writes it: audited     *)
(* transactions (audit/), the re-encryption of a column (crypto rotate)    *)
(* and, on the trail the transactions leave, the pruning of old events     *)
(* (audit prune).  PostgreSQL under READ COMMITTED: a statement sees what  *)
(* was committed when it began, waits for rows that another transaction    *)
(* locked, and a transaction's writes are seen when it commits.  The       *)
(* rotation and the pruning are one statement per step, each a transaction *)
(* of its own.  Texts are numbers, a new one for every write; a group is   *)
(* the column that the conditions of the audited changes test.             *)
(***************************************************************************)
EXTENDS Integers, FiniteSets

CONSTANTS
  Ids,           \* ids of the table, in order
  Groups,        \* values of the column in the WHERE clauses
  Txns,          \* connections of the application
  Pruners,       \* `audit prune` processes
  NoOne,         \* no transaction
  Tables,        \* the tables that a behaviour may start with
  MaxRows,       \* config["audit"]["max_rows"]
  Strict,        \* config["audit"]["strict"]: a limit that is exceeded raises, and is logged otherwise
  RotateBatch, PruneBatch,
  MaxOps         \* audited changes

\* The key of a value: the current one, a listed one, one that is not listed; no key at all;
\* the marker of the format with something else behind it.
KeyKinds == {"new", "old", "lost", "plain", "broken"}
Absent == [key |-> "none", txt |-> 0, grp |-> 0]

ASSUME RecordsAssumption ==
  /\ Ids \subseteq Nat \ {0} /\ Groups \subseteq Nat \ {0} /\ IsFiniteSet(Ids)
  /\ NoOne \notin Txns
  /\ Tables \subseteq [Ids -> [key : KeyKinds \cup {"none"}, txt : {0}, grp : Groups \cup {0}]]
  /\ Strict \in BOOLEAN
  /\ MaxRows \in Nat /\ RotateBatch \in Nat \ {0} /\ PruneBatch \in Nat \ {0} /\ MaxOps \in Nat

VARIABLES
  row,      \* row[i]: the committed row, or Absent
  lock,     \* lock[i]: the transaction that holds the row
  txn,      \* txn[t]: the audited change in progress
  trail,    \* committed events that were not pruned: [id, day] by number
  number,   \* the sequence of the trail's ids
  day,      \* created_at of an event: before the date of the prune (0) or after it (1)
  rot,      \* crypto rotate
  prune,    \* prune[p]: audit prune
  ops,
  said,     \* history: said[i]: the row as the last event about it left it
  silent    \* history: rows that an audited change wrote and did not record

recordsVars == <<row, lock, txn, trail, number, day, rot, prune, ops, said, silent>>

NoChange == [pc |-> "idle", op |-> "none", grp |-> 0, to |-> 0, txt |-> 0, read |-> {}, wrote |-> {}, event |-> 0, day |-> 0]

RecordsInit ==
  /\ row \in Tables /\ said = row
  /\ lock = [i \in Ids |-> NoOne] /\ txn = [t \in Txns |-> NoChange]
  /\ trail = {} /\ number = 0 /\ day = 0
  /\ \E rotates \in BOOLEAN :   \* one command or the other: they touch different tables
       /\ rot = [pc |-> IF rotates THEN "off" ELSE "never", dry |-> FALSE, cursor |-> 0, page |-> {}, full |-> FALSE]
       /\ prune = [p \in Pruners |-> [pc |-> IF rotates THEN "never" ELSE "off", total |-> 0, deleted |-> 0]]
  /\ ops = 0 /\ silent = {}

Rows == {i \in Ids : row[i] # Absent}
Matching(g) == {i \in Rows : row[i].grp = g}
Free(t, S) == \A i \in S : lock[i] \in {NoOne, t}
Locked(t, S) == [i \in Ids |-> IF i \in S THEN t ELSE lock[i]]
Tools == <<trail, day, rot, prune>>

-----------------------------------------------------------------------------
(* Audit.insert, update and delete, on the caller's cursor *)

Begins(t, x) == ops < MaxOps /\ txn[t].pc = "idle" /\ ops' = ops + 1 /\ txn' = [txn EXCEPT ![t] = x]

\* _assert_within_limit: a max_rows of 0 sets no limit.
WithinLimit(n) == MaxRows < 1 \/ n <= MaxRows

ToWrite(op, g, to) ==
  [NoChange EXCEPT !.pc = IF WithinLimit(Cardinality(Matching(g))) \/ ~Strict THEN "write" ELSE "refused",
                   !.op = op, !.grp = g, !.to = to, !.txt = ops + 1, !.read = {<<i, row[i]>> : i \in Matching(g)}]

\* Mutant: the rows are read without FOR UPDATE.
ReadRowsUnlocked(t, op, g, to) ==
  /\ Begins(t, ToWrite(op, g, to)) /\ Free(t, Matching(g))
  /\ UNCHANGED <<row, lock, number, Tools, said, silent>>

\* _rows: SELECT ... FOR UPDATE; what is beyond the limit is refused before the write.
ReadRows(t, op, g, to) ==
  /\ Begins(t, ToWrite(op, g, to)) /\ Free(t, Matching(g))
  /\ lock' = Locked(t, Matching(g))
  /\ UNCHANGED <<row, number, Tools, said, silent>>

\* The UPDATE or DELETE with the same condition, evaluated again, then one event for every
\* row that was read: Store.write, in the same transaction.
WriteRows(t) ==
  LET m == Matching(txn[t].grp)
  IN  /\ txn[t].pc = "write" /\ Free(t, m)
      /\ lock' = Locked(t, m)
      /\ number' = number + Cardinality(txn[t].read)
      /\ txn' = [txn EXCEPT ![t].pc = "commit", ![t].wrote = m, ![t].event = number + 1, ![t].day = day]
      /\ UNCHANGED <<row, Tools, ops, said, silent>>

\* Audit.insert: the row and its event.
InsertRow(t, i, g) ==
  /\ row[i] = Absent /\ lock[i] = NoOne
  /\ Begins(t, [NoChange EXCEPT !.pc = "commit", !.op = "insert", !.to = g, !.txt = ops + 1,
                                !.read = {<<i, Absent>>}, !.wrote = {i}, !.event = number + 1, !.day = day])
  /\ lock' = Locked(t, {i}) /\ number' = number + 1
  /\ UNCHANGED <<row, Tools, said, silent>>

\* What the change leaves in a row: a new text under the current key, another group, nothing.
After(x, r) ==
  CASE x.op = "insert" -> [key |-> "new", txt |-> x.txt, grp |-> x.to]
    [] x.op = "text" -> [r EXCEPT !.key = "new", !.txt = x.txt]
    [] x.op = "move" -> [r EXCEPT !.grp = x.to]
    [] x.op = "delete" -> Absent

Unlocked(t) == [i \in Ids |-> IF lock[i] = t THEN NoOne ELSE lock[i]]

\* Mutant: the rows stay locked.
RollbackKeepsLocks(t) ==
  /\ txn[t].pc # "idle"
  /\ txn' = [txn EXCEPT ![t] = NoChange]
  /\ UNCHANGED <<row, lock, number, Tools, ops, said, silent>>

\* An error, in the change or in its event (strict or not, PostgreSQL aborts the
\* transaction): nothing of it is seen.
Rollback(t) ==
  /\ txn[t].pc # "idle"
  /\ txn' = [txn EXCEPT ![t] = NoChange] /\ lock' = Unlocked(t)
  /\ UNCHANGED <<row, number, Tools, ops, said, silent>>

Commit(t) ==
  LET x == txn[t]
      read == {p[1] : p \in x.read}
  IN  /\ x.pc = "commit"
      /\ row' = [i \in Ids |-> IF i \in x.wrote THEN After(x, row[i]) ELSE row[i]]
      /\ said' = [i \in Ids |-> IF i \in read THEN After(x, row[i]) ELSE said[i]]
      /\ silent' = silent \cup (x.wrote \ read)
      /\ trail' = trail \cup {[n |-> x.event + k - 1, day |-> x.day] : k \in 1..Cardinality(read)}
      /\ txn' = [txn EXCEPT ![t] = NoChange] /\ lock' = Unlocked(t)
      /\ UNCHANGED <<number, day, rot, prune, ops>>

NextDay == day = 0 /\ rot.pc = "never" /\ day' = 1 /\ UNCHANGED <<row, lock, txn, trail, number, rot, prune, ops, said, silent>>

-----------------------------------------------------------------------------
(* cmd_rotate *)

\* (cursor and page of a run that is over are forgotten)
Rotates(r) ==
  /\ rot' = IF r.pc \in {"ok", "failed"} THEN [r EXCEPT !.cursor = 0, !.page = {}, !.full = FALSE] ELSE r
  /\ UNCHANGED <<lock, txn, trail, number, day, prune, ops, said, silent>>

RotateStart(dry) == rot.pc = "off" /\ Rotates([rot EXCEPT !.pc = "page", !.dry = dry]) /\ UNCHANGED row

\* What ORDER BY ... LIMIT n takes of the numbers S.
IsFirst(P, S, n) ==
  /\ \A i \in P, j \in S \ P : i < j
  /\ IF Cardinality(S) < n THEN P = S ELSE Cardinality(P) = n

PageRead(ids) ==
  /\ rot.pc = "page"
  /\ Rotates(IF ids = {} THEN [rot EXCEPT !.pc = "ok"]
             ELSE [rot EXCEPT !.pc = "rows", !.full = Cardinality(ids) = RotateBatch,
                              !.page = {[id |-> i, key |-> row[i].key, txt |-> row[i].txt] : i \in ids}])
  /\ UNCHANGED row

\* Mutant: the pages are counted with OFFSET (ids are 1, 2, ..., so a cursor is a number of rows).
ReadPageOffset ==
  LET rest == {i \in Rows : Cardinality({j \in Rows : j <= i}) > rot.cursor}
  IN  \E ids \in SUBSET rest : IsFirst(ids, rest, RotateBatch) /\ PageRead(ids)

\* SELECT ... WHERE id > cursor ORDER BY id LIMIT batch
ReadPage ==
  LET rest == {i \in Rows : i > rot.cursor}
  IN  \E ids \in SUBSET rest : IsFirst(ids, rest, RotateBatch) /\ PageRead(ids)

\* The row of the page whose turn it is.
IsNext(v) == rot.pc = "rows" /\ v \in rot.page /\ \A w \in rot.page : v.id <= w.id

\* The row is done; after the last of a page that was not full, so is the run.
RowDone(v) ==
  LET next == [rot EXCEPT !.cursor = v.id, !.page = @ \ {v}]
  IN  Rotates(IF next.page # {} THEN next
              ELSE IF rot.full THEN [next EXCEPT !.pc = "page"] ELSE [next EXCEPT !.pc = "ok"])

\* Plain and empty values, values under the current key and a dry run are left alone.
SkipRow(v) ==
  /\ IsNext(v)
  /\ v.key \in {"plain", "new"} \cup (IF rot.dry THEN {"old", "lost"} ELSE {})
  /\ RowDone(v) /\ UNCHANGED row

RotateFails == Rotates([rot EXCEPT !.pc = "failed"]) /\ UNCHANGED row

\* key_id_of or decrypt raises: exit 1.
RowUnreadable(v) ==
  IsNext(v) /\ v.key \in {"broken"} \cup (IF rot.dry THEN {} ELSE {"lost"}) /\ RotateFails

\* psycopg.Error
StatementFails == rot.pc \in {"page", "rows"} /\ RotateFails

\* Mutant: the value is written whatever the row holds by now.
RotateRowAlways(v) ==
  /\ IsNext(v) /\ v.key = "old" /\ ~rot.dry /\ lock[v.id] = NoOne
  /\ row' = [row EXCEPT ![v.id] = IF @ = Absent THEN @ ELSE [@ EXCEPT !.key = "new", !.txt = v.txt]]
  /\ RowDone(v)

\* UPDATE ... WHERE id = and col = the value read; waits for a lock and then looks again.
RotateRow(v) ==
  /\ IsNext(v) /\ v.key = "old" /\ ~rot.dry /\ lock[v.id] = NoOne
  /\ row' = [row EXCEPT ![v.id] = IF @.key = v.key /\ @.txt = v.txt THEN [@ EXCEPT !.key = "new"] ELSE @]
  /\ RowDone(v)

-----------------------------------------------------------------------------
(* cmd_prune *)

\* Events before the date.
Aged == {e.n : e \in {x \in trail : x.day = 0}}
Prunes(p, r) ==
  /\ prune' = [prune EXCEPT ![p] = IF r.pc = "done" THEN [r EXCEPT !.total = 0, !.deleted = 0] ELSE r]
  /\ UNCHANGED <<row, lock, txn, number, day, rot, ops, said, silent>>

\* The count, once the date lies in the past.
CountRows(p, dry) ==
  /\ prune[p].pc = "off" /\ day = 1
  /\ Prunes(p, [prune[p] EXCEPT !.total = Cardinality(Aged), !.pc = IF Aged = {} \/ dry THEN "done" ELSE "delete"])
  /\ UNCHANGED trail

PruneFails(p) == prune[p].pc = "delete" /\ Prunes(p, [prune[p] EXCEPT !.pc = "done"]) /\ UNCHANGED trail

\* DELETE ... WHERE id IN (SELECT ... ORDER BY id LIMIT batch)
Deletes(p, taken) == prune[p].pc = "delete" /\ IsFirst(taken, Aged, PruneBatch) /\ trail' = {e \in trail : e.n \notin taken}

\* Mutant: goes on until it removed what it counted.
DeleteBatchAgain(p) ==
  \E taken \in SUBSET Aged :
    LET deleted == prune[p].deleted + Cardinality(taken)
    IN  /\ Deletes(p, taken)
        /\ Prunes(p, [prune[p] EXCEPT !.deleted = deleted, !.pc = IF deleted >= prune[p].total THEN "done" ELSE @])

\* One batch; the end when there was nothing to take or the count is reached.
DeleteBatch(p) ==
  \E taken \in SUBSET Aged :
    LET deleted == prune[p].deleted + Cardinality(taken)
    IN  /\ Deletes(p, taken)
        /\ Prunes(p, [prune[p] EXCEPT !.deleted = deleted,
                                      !.pc = IF taken = {} \/ deleted >= prune[p].total THEN "done" ELSE @])

Rotation == ReadPage \/ \E v \in rot.page : SkipRow(v) \/ RowUnreadable(v) \/ RotateRow(v)

RecordsNext ==
  \/ \E t \in Txns, g \in Groups, to \in Groups :
       \/ g # to /\ ReadRows(t, "move", g, to)
       \/ g = to /\ ReadRows(t, "text", g, g)
       \/ g = to /\ ReadRows(t, "delete", g, g)
  \/ \E t \in Txns, i \in Ids, g \in Groups : InsertRow(t, i, g)
  \/ \E t \in Txns : WriteRows(t) \/ Commit(t) \/ Rollback(t)
  \/ NextDay
  \/ \E dry \in BOOLEAN : RotateStart(dry)
  \/ Rotation \/ StatementFails
  \/ \E p \in Pruners : DeleteBatch(p) \/ PruneFails(p) \/ \E dry \in BOOLEAN : CountRows(p, dry)

RecordsSpec == RecordsInit /\ [][RecordsNext]_recordsVars

\* The commands go on once started, and transactions come to an end.
RecordsFairSpec ==
  /\ RecordsSpec
  /\ WF_recordsVars(Rotation)
  /\ \A t \in Txns : WF_recordsVars(Rollback(t) \/ Commit(t))
  /\ \A p \in Pruners : WF_recordsVars(DeleteBatch(p))

-----------------------------------------------------------------------------
(* Properties *)

\* The shape of the state; a lock is held by a transaction in progress.
RecordsTypeOK ==
  /\ row \in [Ids -> [key : KeyKinds \cup {"none"}, txt : 0..MaxOps, grp : Groups \cup {0}]]
  /\ \A i \in Ids : lock[i] # NoOne => txn[lock[i]].pc # "idle"
  /\ \A e \in trail : e.n \in 1..number
  /\ rot.pc \in {"never", "off", "page", "rows", "ok", "failed"} /\ (rot.pc = "rows" <=> rot.page # {})
  /\ ops <= MaxOps

\* Audit._rows: "a concurrent writer cannot change a row between this read and the write it
\* precedes - the old values recorded are the ones the write replaced": until a change is
\* committed, the rows it read and is going to record are what the table holds.
OldValuesTrue == \A t \in Txns : \A p \in txn[t].read : row[p[1]] = p[2]

\* A row is what the last event about it says, its key apart, unless a change wrote it
\* without recording it: neither a transaction that failed, nor a rotation that races with a
\* write of the application leaves anything else behind.
TrailExplains ==
  \A i \in Ids \ silent : row[i].txt = said[i].txt /\ row[i].grp = said[i].grp

\* The trail tells the truth about the table, before a commit and after it.
TrailTrue == RecordsTypeOK /\ OldValuesTrue /\ TrailExplains

\* cmd_rotate: once it exits 0, no value is left under the old key, whatever was inserted,
\* changed or moved while it went through the table.
NothingLeft == rot.pc = "ok" /\ ~rot.dry => \A i \in Ids : row[i].key # "old"

\* cmd_rotate and cmd_prune come to an end, also when another prune takes the rows that this
\* one counted ("keeps a miscounted total from spinning forever").
CommandsEnd ==
  /\ rot.pc = "page" ~> rot.pc \in {"ok", "failed"}
  /\ \A p \in Pruners : prune[p].pc = "delete" ~> prune[p].pc = "done"

\* Audit.update: "record one event per row that actually changed".
RecordsEveryChange == silent = {}
=============================================================================
