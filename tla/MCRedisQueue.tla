----------------------------- MODULE MCRedisQueue -----------------------------
(* Small instances of RedisQueue. *)
EXTENDS RedisQueueRefines, TLC

CONSTANTS w1, w2, p1, p2, k1

OwnIds == [w \in Workers |-> IF w = w1 THEN "host:1" ELSE "host:2"]
\* Two containers with one host name, each running its worker as pid 1.
SharedId == [w \in Workers |-> "host:1"]
NoSkew == [w \in Workers |-> 0]
FastW2 == [w \in Workers |-> IF w = w2 THEN 1 ELSE 0]
Backoff1 == <<1>>
Backoff0 == <<0>>
OneQueue == <<"default">>
TwoQueues == <<"high", "default">>

=============================================================================
