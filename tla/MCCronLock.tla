----------------------------- MODULE MCCronLock -----------------------------
(* Two instances of the backend, one with two calls in flight.              *)
EXTENDS CronLock, TLC

CONSTANTS a, b, a1, a2, b1

MCOn == (a1 :> a) @@ (a2 :> a) @@ (b1 :> b)
=============================================================================
