----------------------------- MODULE MCThrottle -----------------------------
(***************************************************************************)
(* The throttle with two processes, one of them a second ahead, a client   *)
(* with an address next to one without, a proxy that appends to            *)
(* X-Forwarded-For and one that sets X-Real-IP.                            *)
(***************************************************************************)
EXTENDS Throttle

CONSTANTS p1, p2, c1, c2, x1, x2

MCSkew == p1 :> 0 @@ p2 :> 1
=============================================================================
