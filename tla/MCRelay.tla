------------------------------ MODULE MCRelay ------------------------------
EXTENDS Relay

CONSTANTS u1, c1

\* A message for one user takes the steps of a revocation, with a write in place of the close.
MCMessages == {[type |-> "revoke", user |-> u1, source |-> c1],
               [type |-> "all", user |-> None, source |-> None]}
=============================================================================
