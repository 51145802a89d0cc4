------------------------------- MODULE MCDeploy -------------------------------
(* The instance of Deploy TLC checks: this commit and a later one with one *)
(* more schema file; a gated configuration, one on another database without*)
(* a gate, and one with half a gate.                                       *)
EXTENDS Deploy, TLC

CONSTANTS d1, d2

Shipped == 1 :> {0, 1} @@ 2 :> {0, 1, 2}

Required == {"DATABASE_URL", "JWT_SECRET", "CORS_ORIGIN", "ORIGINS"}
Configs == {[set |-> Required \cup GatePair, database |-> d1],
            [set |-> Required, database |-> d2],
            [set |-> Required \cup {"CONVERSATION_GATE_URL"}, database |-> d1]}
=============================================================================
