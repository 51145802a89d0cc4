--------------------------- MODULE MCWebSocketServer ---------------------------
(* The instance of WebSocketServer TLC checks: no symmetry, the runs of its *)
(* liveness properties are the same runs.                                  *)
EXTENDS WebSocketServer, TLC
=============================================================================
