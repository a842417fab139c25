------------------------------- MODULE JobQueue -------------------------------
(***************************************************************************)
(* What a queue driver promises, whichever it is (queue/interface.py): a   *)
(* job is waiting, held, failed or done; a claim costs one attempt of its  *)
(* budget; whoever holds the job last is the only one who may end it; a    *)
(* job out of attempts fails instead of being handed out; only an operator *)
(* brings a failed job back or forgets it.  Time, order, locks and storage *)
(* are left to the drivers that implement this.                            *)
(***************************************************************************)
EXTENDS Naturals

CONSTANTS
  Workers, Payloads, NoOne,
  AttemptBudgets   \* the max_attempts a job may be given

VARIABLES
  state,    \* of each job
  holder,   \* the live worker a held job will listen to
  left      \* attempts left in its budget

vars == <<state, holder, left>>

States == {"new", "waiting", "held", "failed", "done", "gone"}

Init ==
  /\ state = [p \in Payloads |-> "new"]
  /\ holder = [p \in Payloads |-> NoOne]
  /\ left = [p \in Payloads |-> 0]

\* Job p moves to state s, held by h, with n attempts left.
Set(p, s, h, n) ==
  /\ state' = [state EXCEPT ![p] = s]
  /\ holder' = [holder EXCEPT ![p] = h]
  /\ left' = [left EXCEPT ![p] = n]

\* push
Push(p) == state[p] = "new" /\ \E n \in AttemptBudgets : Set(p, "waiting", NoOne, n)

\* reserve: a waiting job, or one whose claim has run out.
Claim(p, w) ==
  /\ state[p] \in {"waiting", "held"} /\ left[p] > 0
  /\ Set(p, "held", w, left[p] - 1)

\* reserve, finding a job that has no attempt left.
Exhaust(p) ==
  /\ state[p] \in {"waiting", "held"} /\ left[p] = 0
  /\ Set(p, "failed", NoOne, 0)

\* delete, release and fail of the worker that holds the job.
Delete(p, w)  == holder[p] = w /\ Set(p, "done", NoOne, 0)
Release(p, w) == holder[p] = w /\ Set(p, "waiting", NoOne, left[p])
Fail(p, w)    == holder[p] = w /\ Set(p, "failed", NoOne, 0)

\* The holder dies; the job waits for its claim to run out.
Abandon(p, w) == holder[p] = w /\ Set(p, "held", NoOne, left[p])

\* retry_failed puts one job back with a new budget.
Retry(p) == state[p] = "failed" /\ \E n \in AttemptBudgets : Set(p, "waiting", NoOne, n)

\* forget_failed removes some of the failed jobs.
Forget(S) ==
  /\ \A p \in S : state[p] = "failed"
  /\ state' = [p \in Payloads |-> IF p \in S THEN "gone" ELSE state[p]]
  /\ UNCHANGED <<holder, left>>

Next ==
  \/ \E p \in Payloads :
       \/ Push(p) \/ Exhaust(p) \/ Retry(p)
       \/ \E w \in Workers : Claim(p, w) \/ Delete(p, w) \/ Release(p, w) \/ Fail(p, w) \/ Abandon(p, w)
  \/ \E S \in SUBSET Payloads : Forget(S)

Spec == Init /\ [][Next]_vars

=============================================================================
