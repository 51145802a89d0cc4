----------------------- MODULE MCConnectionRateLimiter -----------------------
(* The instance of ConnectionRateLimiter TLC checks: no symmetry, the run  *)
(* checks a liveness property too.                                         *)
EXTENDS ConnectionRateLimiter, TLC
=============================================================================
