-------------------------------- MODULE PgPush --------------------------------
(***************************************************************************)
(* push() of the PostgreSQL driver with a unique key (driver_pg.py:126-197) *)
(* as its callers run it: on an autocommit connection, or joined to the     *)
(* transaction that caused the job.                                         *)
(*                                                                         *)
(* A call is up to three statements - SELECT, INSERT, SELECT again after    *)
(* a unique violation - and other callers and workers run in between.       *)
(* PostgreSQL itself is external: READ COMMITTED visibility, a unique index *)
(* that makes an INSERT wait for an undecided duplicate, and a transaction  *)
(* that refuses every statement after an error.                             *)
(***************************************************************************)
EXTENDS Naturals, FiniteSets

CONSTANTS
  Clients,     \* application code calling push
  InTx,        \* the ones that call it inside a transaction
  Keys,        \* values of `unique`
  MaxIds       \* bound: no push starts once this many ids are used

ASSUME PushAssumption == InTx \subseteq Clients /\ MaxIds \in Nat

VARIABLES
  rows,     \* committed rows of the jobs table: id -> unique_key
  mine,     \* the row a client has inserted and not committed, 0 for none
  nextId,   \* the serial, which never goes back
  pc,       \* where each client's push is
  key,      \* the unique key it asked for
  result,   \* the id its push returned
  queued    \* history: ids that were ever visible to a worker

pushVars == <<rows, mine, nextId, pc, key, result, queued>>

Drop(f, x) == [y \in DOMAIN f \ {x} |-> f[y]]
Put(f, x, v) == [y \in DOMAIN f \cup {x} |-> IF y = x THEN v ELSE f[y]]

PushInit ==
  /\ rows = <<>> /\ nextId = 1
  /\ mine = [c \in Clients |-> 0]
  /\ pc = [c \in Clients |-> "idle"]
  /\ key \in [Clients -> Keys]
  /\ result = [c \in Clients |-> 0]
  /\ queued = {}

Goto(c, place) == pc' = [pc EXCEPT ![c] = place]

\* The caller pushes under some key.
CallPush(c) ==
  /\ pc[c] = "idle" /\ nextId <= MaxIds
  /\ \E k \in Keys : key' = [key EXCEPT ![c] = k]
  /\ Goto(c, "lookup")
  /\ UNCHANGED <<rows, mine, nextId, result, queued>>

Holders(c) == {id \in DOMAIN rows : rows[id] = key[c]}

\* _id_for_unique
Found(c) ==
  /\ \E id \in Holders(c) : result' = [result EXCEPT ![c] = id]
  /\ Goto(c, "returned")

Lookup(c) ==
  /\ pc[c] = "lookup"
  /\ Found(c) \/ (Holders(c) = {} /\ Goto(c, "insert") /\ UNCHANGED result)
  /\ UNCHANGED <<rows, mine, nextId, key, queued>>

\* Mutant: the jobs table without its unique index.
InsertUnindexed(c) ==
  /\ pc[c] = "insert"
  /\ nextId' = nextId + 1
  /\ result' = [result EXCEPT ![c] = nextId]
  /\ Goto(c, "returned")
  /\ IF c \in InTx
       THEN mine' = [mine EXCEPT ![c] = nextId] /\ UNCHANGED <<rows, queued>>
       ELSE /\ rows' = Put(rows, nextId, key[c])
            /\ queued' = queued \cup {nextId}
            /\ UNCHANGED mine
  /\ UNCHANGED key

\* Another client's uncommitted row with this key: the INSERT waits for it.
Undecided(c) == \E d \in Clients \ {c} : mine[d] # 0 /\ key[d] = key[c]

Insert(c) ==
  /\ pc[c] = "insert" /\ ~Undecided(c) /\ Holders(c) = {}
  /\ nextId' = nextId + 1
  /\ result' = [result EXCEPT ![c] = nextId]
  /\ Goto(c, "returned")
  /\ IF c \in InTx
       THEN mine' = [mine EXCEPT ![c] = nextId] /\ UNCHANGED <<rows, queued>>
       ELSE /\ rows' = Put(rows, nextId, key[c])
            /\ queued' = queued \cup {nextId}
            /\ UNCHANGED mine
  /\ UNCHANGED key

\* The unique index refuses; the serial has moved on all the same.
UniqueViolation(c) ==
  /\ pc[c] = "insert" /\ ~Undecided(c) /\ Holders(c) # {}
  /\ nextId' = nextId + 1
  /\ Goto(c, "reselect")
  /\ UNCHANGED <<rows, mine, key, result, queued>>

\* Mutant: the answer of the second SELECT is returned unchecked.
ReselectUnchecked(c) ==
  /\ pc[c] = "reselect"
  /\ \/ c \notin InTx /\ Found(c)
     \/ c \notin InTx /\ Holders(c) = {} /\ Goto(c, "returned") /\ result' = [result EXCEPT ![c] = 0]
     \/ c \in InTx /\ Goto(c, "raised") /\ UNCHANGED result
  /\ UNCHANGED <<rows, mine, nextId, key, queued>>

\* _id_for_unique in the except branch.  In a transaction the INSERT has
\* aborted it, and this SELECT raises InFailedSqlTransaction.
Reselect(c) ==
  /\ pc[c] = "reselect"
  /\ \/ c \notin InTx /\ Found(c)
     \/ (c \in InTx \/ Holders(c) = {}) /\ Goto(c, "raised") /\ UNCHANGED result
  /\ UNCHANGED <<rows, mine, nextId, key, queued>>

\* The caller's transaction ends, and the row with it.
CommitPush(c) ==
  /\ c \in InTx /\ pc[c] = "returned"
  /\ IF mine[c] = 0 THEN UNCHANGED <<rows, queued>>
     ELSE /\ rows' = Put(rows, mine[c], key[c])
          /\ queued' = queued \cup {mine[c]}
  /\ mine' = [mine EXCEPT ![c] = 0]
  /\ Goto(c, "idle")
  /\ UNCHANGED <<nextId, key, result>>

RollbackPush(c) ==
  /\ c \in InTx /\ pc[c] \in {"returned", "raised"}
  /\ mine' = [mine EXCEPT ![c] = 0]
  /\ Goto(c, "idle")
  /\ UNCHANGED <<rows, nextId, key, result, queued>>

\* An autocommit caller simply goes on.
Return(c) ==
  /\ c \notin InTx /\ pc[c] \in {"returned", "raised"}
  /\ Goto(c, "idle")
  /\ UNCHANGED <<rows, mine, nextId, key, result, queued>>

\* A worker ends the job - delete or _move_to_failed - and its key is free again.
JobEnds ==
  /\ \E id \in DOMAIN rows : rows' = Drop(rows, id)
  /\ UNCHANGED <<mine, nextId, pc, key, result, queued>>

PushNext ==
  \/ JobEnds
  \/ \E c \in Clients :
       \/ CallPush(c) \/ Lookup(c) \/ Insert(c) \/ UniqueViolation(c) \/ Reselect(c)
       \/ CommitPush(c) \/ RollbackPush(c) \/ Return(c)

PushSpec == PushInit /\ [][PushNext]_pushVars

-----------------------------------------------------------------------------
\* A key names one job at a time, rows not yet committed included, although
\* lookup and insert are separate statements (driver_pg.py:145-187).
OneJobPerKey ==
  /\ \A i, j \in DOMAIN rows : rows[i] = rows[j] => i = j
  /\ \A c, d \in Clients : mine[c] # 0 /\ mine[d] # 0 /\ key[c] = key[d] => c = d
  /\ \A c \in Clients : mine[c] # 0 => Holders(c) = {}

\* push "Returns its id, or the id of the job already holding `unique`"
\* (driver_pg.py:136): the id a caller goes on with is its own new row or one
\* a worker could already see, never that of an insert that was rolled back.
ReturnedIdIsReal ==
  \A c \in Clients : pc[c] = "returned" => result[c] # 0 /\ result[c] \in queued \cup {mine[c]}

\* What `unique` is for: whoever pushes under a key, in whatever order the
\* statements of the callers and the ends of jobs come, one job goes by it and
\* every caller that gets an id gets that of a job.
PushesOnce == OneJobPerKey /\ ReturnedIdIsReal

\* "reporting the winner's id is still the honest answer to 'what is queued
\* under this key'" (driver_pg.py:183-184): who lost the race for a key is
\* told the winner's id as long as the winner is queued.  False for a caller
\* inside a transaction, whose second SELECT raises whoever won.
LoserGetsWinner ==
  [][\A c \in Clients : pc[c] = "reselect" /\ pc'[c] = "raised" => Holders(c) = {}]_pushVars

=============================================================================
