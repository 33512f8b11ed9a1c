------------------------------ MODULE MCSSEPool ------------------------------
(* Model checking of the Linux adapter: two connections that compete for one   *)
(* slot of the pool, one of them through a second attempt.                     *)
EXTENDS SSEPool, TLC

CONSTANTS c1, c2

MCAttempts == c1 :> 2 @@ c2 :> 1
MCOneAttempt == c1 :> 1
=============================================================================
