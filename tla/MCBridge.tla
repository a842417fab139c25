------------------------------ MODULE MCBridge ------------------------------
EXTENDS Bridge, TLC

CONSTANTS u1, u2, t1, t2

\* t1 is the token of u1; t2 lets u1 act as u2.
MCSubject == t1 :> u1 @@ t2 :> u2
MCImpersonator == t1 :> None @@ t2 :> u1
=============================================================================
