----------------------------- MODULE Configuration -----------------------------
(***************************************************************************)
(* The environment the process reads (src/main.ts, parseEnv) and what run()*)
(* wires from it.  An environment is the set of variables that have a value*)
(* the code can use, with the database DATABASE_URL names; values do not   *)
(* matter beyond that.                                                     *)
(***************************************************************************)
CONSTANTS Database, Null

Name == {"DATABASE_URL", "JWT_SECRET", "JWT_JWKS_URI", "REDIS_URL", "CORS_ORIGIN",
         "ORIGINS",       \* CORS_ORIGIN lists at least one origin, not just commas
         "INVALID_PORT",  \* PORT is set, and not to a positive integer
         "CONVERSATION_GATE_URL", "CONVERSATION_GATE_SECRET",
         "MESSAGE_NOTIFY_URL", "MESSAGE_NOTIFY_SECRET"}

Environment == [set : SUBSET Name, database : Database]

GatePair == {"CONVERSATION_GATE_URL", "CONVERSATION_GATE_SECRET"}
NotifyPair == {"MESSAGE_NOTIFY_URL", "MESSAGE_NOTIFY_SECRET"}

\* Mutant: a half-set pair counts as unset.
NeverHalf(env, pair) == FALSE

\* One of a pair without the other: most likely a typo, so it is refused.
Half(env, pair) == env.set \cap pair \notin {{}, pair}

HasOrigins(env) == {"CORS_ORIGIN", "ORIGINS"} \subseteq env.set

\* parseEnv throws for anything else, before it opens a port.
Parses(env) ==
  /\ "DATABASE_URL" \in env.set /\ "INVALID_PORT" \notin env.set
  /\ ~Half(env, GatePair) /\ ~Half(env, NotifyPair)
  /\ env.set \cap {"JWT_SECRET", "JWT_JWKS_URI"} # {}
  /\ HasOrigins(env)

\* A JWKS endpoint wins over a secret.
TokenKind(env) == IF "JWT_JWKS_URI" \in env.set THEN "jwks" ELSE "secret"

\* No adapter is built for a pair that is unset, and the core's defaults take over:
\* anyone may talk to anyone, and no one is notified.
Gate(env) == IF GatePair \subseteq env.set THEN "host" ELSE "open"
Notifier(env) == IF NotifyPair \subseteq env.set THEN "host" ELSE "none"

\* What run() starts.
Wired(env) ==
  [database |-> env.database, jwt |-> TokenKind(env), gate |-> Gate(env),
   notifier |-> Notifier(env),
   bus |-> IF "REDIS_URL" \in env.set THEN "redis" ELSE "in-process"]
=============================================================================
