------------------------------ MODULE MCPgQueue ------------------------------
(* Small instances of PgQueue. *)
EXTENDS PgQueueRefines, TLC

CONSTANTS w1, w2, p1, p2, p3

Workers2 == {w1, w2}
\* Both processes cut their host name to the same 64 characters.
SharedId == [w \in Workers |-> "host"]
OwnIds == [w \in Workers |-> IF w = w1 THEN "host:1" ELSE "host:2"]
NoSkew == [w \in Workers |-> 0]
FastW2 == [w \in Workers |-> IF w = w2 THEN 1 ELSE 0]
Backoff1 == <<1>>
Backoff0 == <<0>>
OneQueue == <<"default">>
TwoQueues == <<"high", "default">>

=============================================================================
