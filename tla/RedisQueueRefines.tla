-------------------------- MODULE RedisQueueRefines --------------------------
(***************************************************************************)
(* The redis driver implements JobQueue, while worker ids tell the workers *)
(* apart or nobody retries (REQUEUE starts attempts again at 0, so with a  *)
(* shared id a worker would end somebody else's claim: see OneHolder).     *)
(***************************************************************************)
EXTENDS RedisQueue

HashesOf(p) == {id \in DOMAIN hash : hash[id].payload = p}
\* A failed job is nobody's, also while an undecodable one is claimed to be failed again.
HoldersOf(p) == {w \in Workers : \E id \in HashesOf(p) \ DOMAIN failedSet : HasToken(w, id)}

StateOf(p) ==
  CASE p \notin pushed -> "new"
    [] \E id \in HashesOf(p) : id \in DOMAIN failedSet -> "failed"
    [] \E id \in HashesOf(p) \ DOMAIN failedSet : hash[id].by = NoOne -> "waiting"
    [] \E id \in HashesOf(p) \ DOMAIN failedSet : hash[id].by # NoOne -> "held"
    [] p \in forgotten -> "gone"
    [] OTHER -> "done"

HolderOf(p) == IF HoldersOf(p) = {} THEN NoOne ELSE CHOOSE w \in HoldersOf(p) : TRUE

LeftOf(p) ==
  IF StateOf(p) \notin {"waiting", "held"} THEN 0
  ELSE LET id == CHOOSE i \in HashesOf(p) : TRUE IN hash[id].max - hash[id].attempts

JQ == INSTANCE JobQueue WITH
        AttemptBudgets <- {AtLeast(1, b) : b \in Budgets \cup {Tries}},
        state <- [p \in Payloads |-> StateOf(p)],
        holder <- [p \in Payloads |-> HolderOf(p)],
        left <- [p \in Payloads |-> LeftOf(p)]

\* Promotion, parking, takeover and the tombstones they leave behind never show:
\* seen through hashes and the failed set, every behaviour of the scripts is one
\* JobQueue allows.
ImplementsJobQueue == JQ!Spec

=============================================================================
