---------------------------- MODULE PgQueueRefines ----------------------------
(***************************************************************************)
(* The PostgreSQL driver implements JobQueue, as long as one operator at a *)
(* time retries and forgets (with two, a job can be copied: see OneCopy).  *)
(***************************************************************************)
EXTENDS PgQueue

RowsOf(p) == {id \in DOMAIN jobs : jobs[id].payload = p}
FailedRowsOf(p) == {f \in DOMAIN failed : failed[f].payload = p}
HoldersOf(p) == {w \in Workers : \E id \in RowsOf(p) : HasToken(w, id)}

StateOf(p) ==
  CASE p \notin pushed -> "new"
    [] \E id \in RowsOf(p) : jobs[id].by = NoOne -> "waiting"
    [] \E id \in RowsOf(p) : jobs[id].by # NoOne -> "held"
    [] FailedRowsOf(p) # {} -> "failed"
    [] p \in forgotten -> "gone"
    [] OTHER -> "done"

HolderOf(p) == IF HoldersOf(p) = {} THEN NoOne ELSE CHOOSE w \in HoldersOf(p) : TRUE

LeftOf(p) ==
  IF RowsOf(p) = {} THEN 0
  ELSE LET id == CHOOSE i \in RowsOf(p) : TRUE IN jobs[id].max - jobs[id].attempts

JQ == INSTANCE JobQueue WITH
        AttemptBudgets <- {AtLeast(1, b) : b \in Budgets \cup {Tries}},
        state <- [p \in Payloads |-> StateOf(p)],
        holder <- [p \in Payloads |-> HolderOf(p)],
        left <- [p \in Payloads |-> LeftOf(p)]

\* Every behaviour of the tables and the workers is one JobQueue allows: a
\* worker that was taken over can no longer end the job, and no attempt is
\* handed out beyond the budget.
ImplementsJobQueue == JQ!Spec

=============================================================================
