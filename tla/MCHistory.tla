------------------------------- MODULE MCHistory -------------------------------
(* The instance of History TLC checks.                                     *)
EXTENDS History
=============================================================================
