-------------------------------- MODULE Deploy --------------------------------
(***************************************************************************)
(* A release on the host: the workflow that resets the checkout and writes *)
(* .env.incoming (.github/workflows/deploy.yml), the script that promotes, *)
(* installs, migrates, builds, restarts, probes and rolls back             *)
(* (scripts/deploy.ps1), and nssm, which keeps the service running.        *)
(*                                                                         *)
(* One action per command.  A command that talks to something else may     *)
(* fail: that the database or a registry is down is that choice.           *)
(***************************************************************************)
EXTENDS Schema, Configuration

CONSTANT Config   \* what the repository's secrets and variables may hold

ASSUME DeployAssumption ==
  /\ Config \subseteq Environment
  /\ Null \notin Version /\ Null \notin Environment
  /\ Null \notin [version : Version, wired : {Wired(c) : c \in Config}]

VARIABLES
  head,                        \* the commit checked out
  dist,                        \* the version built in dist/, or Null
  dotenv, incoming, previous,  \* .env, .env.incoming, .env.previous
  schema,                      \* database -> files it has the columns of
  service,                     \* nssm: "started" or "stopped"
  running,                     \* the process: what it was started on, or Null
  step,                        \* the command the script is at, or "idle"
  todo,                        \* apply-schema.mjs: files still to apply
  prev, promoted,              \* $PreviousCommit, $script:EnvPromoted
  verdict,                     \* how the script ended; "none" if it was not its to say
  target, before,              \* history: what this run deploys, until it fails; and
                               \* what ran at its start, until it is over
  trusted                      \* history: no run was cut short and no rollback was
                               \* incomplete since the last DEPLOY_OK

files  == <<dotenv, incoming, previous>>
host   == <<service, running>>
run    == <<prev, promoted, target, before>>
vars   == <<head, dist, files, schema, host, step, todo, run, verdict, trusted>>

Started(v, env) == [version |-> v, wired |-> Wired(env)]
Process == [version : Version, wired : {Wired(c) : c \in Config}]

\* A host set up by hand: a clone, a registered service, nothing built or running.
Init ==
  /\ head \in Version /\ dist = Null
  /\ dotenv = Null /\ incoming = Null /\ previous = Null
  /\ schema = [d \in Database |-> {}]
  /\ service = "stopped" /\ running = Null
  /\ step = "idle" /\ todo = {} /\ prev = Null /\ promoted = FALSE
  /\ verdict = "none" /\ target = Null /\ before = Null /\ trusted = TRUE

-----------------------------------------------------------------------------
(* nssm and the process.                                                   *)

\* nssm starts the process, and again whenever it ends; a process that finds no
\* dist/main.js, no .env, or a configuration it refuses, ends at once.
Spawn ==
  /\ service = "started" /\ running = Null
  /\ dist # Null /\ dotenv # Null /\ Parses(dotenv)
  /\ running' = Started(dist, dotenv)
  /\ UNCHANGED <<head, dist, files, schema, service, step, todo, run, verdict, trusted>>

Crash ==
  /\ running # Null /\ running' = Null
  /\ UNCHANGED <<head, dist, files, schema, service, step, todo, run, verdict, trusted>>

\* The script ends, and its variables with it.
End(line) ==
  /\ step' = "idle" /\ verdict' = line
  /\ prev' = Null /\ promoted' = FALSE
  /\ target' = IF line = "DEPLOY_OK" THEN target ELSE Null
  /\ before' = IF line = "ROLLBACK_OK" THEN before ELSE Null

\* The session is dropped, and the script with it.
Cut == End("none") /\ trusted' = FALSE /\ todo' = {}

Dropped ==
  /\ step # "idle" /\ Cut
  /\ UNCHANGED <<head, dist, files, schema, host>>

\* The service is SERVICE_AUTO_START.
Reboot ==
  /\ running' = Null /\ service' = "started"
  /\ IF step = "idle" THEN UNCHANGED <<step, todo, run, verdict, trusted>> ELSE Cut
  /\ UNCHANGED <<head, dist, files, schema>>

-----------------------------------------------------------------------------
(* The workflow, one run at a time.                                        *)

\* What the runner assembles: three names are required, half a pair is not noticed.
Assembled(c) == {"DATABASE_URL", "JWT_SECRET", "CORS_ORIGIN"} \subseteq c.set

\* A write that fails leaves the file of an earlier run, which is then used.
WriteIncoming(c) == incoming' \in {incoming, c}

\* No .env.incoming, or git fetch or reset failed: exit 90, 91, 92.
Refused(c) ==
  /\ step = "idle" /\ Assembled(c) /\ WriteIncoming(c)
  /\ verdict' = "none"
  /\ UNCHANGED <<head, dist, dotenv, previous, schema, host, step, todo, run, trusted>>

\* HEAD is read before the reset, if it can be.
Begin(c, v) ==
  /\ step = "idle" /\ Assembled(c) /\ WriteIncoming(c) /\ incoming' # Null
  /\ prev' \in {head, Null} /\ head' = v
  /\ promoted' = FALSE /\ verdict' = "none" /\ step' = "backup"
  /\ target' = Started(v, incoming') /\ before' = running
  /\ UNCHANGED <<dist, dotenv, previous, schema, host, todo, trusted>>

-----------------------------------------------------------------------------
(* The script's try block.                                                 *)

\* Preflight, then .env is kept, or an older copy removed.
Backup ==
  /\ step = "backup" /\ previous' = dotenv /\ step' = "promote"
  /\ UNCHANGED <<head, dist, dotenv, incoming, schema, host, todo, run, verdict, trusted>>

Promote ==
  /\ step = "promote" /\ dotenv' = incoming /\ incoming' = Null
  /\ promoted' = TRUE /\ step' = "install"
  /\ UNCHANGED <<head, dist, previous, schema, host, todo, prev, target, before,
                 verdict, trusted>>

Install ==
  /\ step = "install"
  /\ "DATABASE_URL" \in dotenv.set /\ dotenv.set \cap {"JWT_SECRET", "JWT_JWKS_URI"} # {}
  /\ step' = "schema" /\ todo' = Files(head)
  /\ UNCHANGED <<head, dist, files, schema, host, run, verdict, trusted>>

ApplyFile ==
  /\ step = "schema" /\ todo # {} /\ Applies(schema[dotenv.database], FirstOf(todo))
  /\ schema' = [schema EXCEPT ![dotenv.database] = Applied(@, FirstOf(todo))]
  /\ todo' = todo \ {FirstOf(todo)}
  /\ UNCHANGED <<head, dist, files, host, step, run, verdict, trusted>>

CheckSchema ==
  /\ step = "schema" /\ todo = {} /\ Reachable(schema[dotenv.database])
  /\ step' = "build"
  /\ UNCHANGED <<head, dist, files, schema, host, todo, run, verdict, trusted>>

Build ==
  /\ step = "build" /\ dist' = head /\ step' = "stop"
  /\ UNCHANGED <<head, files, schema, host, todo, run, verdict, trusted>>

\* nssm may or may not do as it is told: its exit code is only logged.
NssmStop ==
  \/ service' = "stopped" /\ running' = Null
  \/ UNCHANGED host

\* Mutant: the port is not watched after the stop.
Unwatched(r) == TRUE

\* /health decides, and it answers as long as a process runs.
Quiet(r) == r = Null

Stop ==
  /\ step = "stop" /\ NssmStop
  /\ IF Quiet(running') THEN step' = "start" /\ UNCHANGED target
                        ELSE step' = "restore" /\ target' = Null
  /\ UNCHANGED <<head, dist, files, schema, todo, prev, promoted, before, verdict, trusted>>

\* Mutant: the process is started by hand, beside the service.
ByHand ==
  /\ UNCHANGED service
  /\ running' = IF dist # Null /\ dotenv # Null /\ Parses(dotenv)
                THEN Started(dist, dotenv) ELSE running

NssmStart == service' \in {service, "started"} /\ UNCHANGED running

Start ==
  /\ step = "start" /\ NssmStart /\ step' = "probe"
  /\ UNCHANGED <<head, dist, files, schema, todo, run, verdict, trusted>>

\* /ready is SELECT 1: an empty database answers it, and any version does.
Ready == running # Null

Probe ==
  /\ step = "probe" /\ Ready
  /\ End("DEPLOY_OK") /\ trusted' = TRUE
  /\ UNCHANGED <<head, dist, files, schema, host, todo>>

\* A build cleans dist/ before it writes it.
HalfBuilt == dist' \in {dist, head, Null}

\* Anything but the stop and the start may throw, having done nothing; a build may
\* have begun.
Throw ==
  /\ step \in {"backup", "promote", "install", "schema", "build", "probe"}
  /\ step' = "restore" /\ todo' = {} /\ target' = Null
  /\ IF step = "build" THEN HalfBuilt ELSE UNCHANGED dist
  /\ UNCHANGED <<head, files, schema, host, prev, promoted, before, verdict, trusted>>

-----------------------------------------------------------------------------
(* Invoke-Rollback: failures are reported and the next command runs.       *)

\* Mutant: .env.previous goes back whether or not .env was replaced.
Always == previous # Null

\* Before the promotion .env.previous is an earlier run's.
Replaced == promoted /\ previous # Null

Restore ==
  /\ step = "restore" /\ step' = "checkout"
  /\ dotenv' = IF Replaced THEN previous ELSE dotenv
  /\ trusted' = (trusted /\ (promoted => previous # Null))
  /\ UNCHANGED <<head, dist, incoming, previous, schema, host, todo, run, verdict>>

\* Copy-Item throws, and no one catches what the catch block throws.
RestoreThrows ==
  /\ step = "restore" /\ Replaced
  /\ End("none") /\ trusted' = FALSE
  /\ UNCHANGED <<head, dist, files, schema, host, todo>>

Checkout ==
  /\ step = "checkout" /\ prev # Null /\ step' = "rebuild"
  /\ \/ head' = prev /\ UNCHANGED trusted
     \/ UNCHANGED head /\ trusted' = FALSE
  /\ UNCHANGED <<dist, files, schema, host, todo, run, verdict>>

NoCheckout ==
  /\ step = "checkout" /\ prev = Null /\ step' = "restop" /\ trusted' = FALSE
  /\ UNCHANGED <<head, dist, files, schema, host, todo, run, verdict>>

Rebuild ==
  /\ step = "rebuild" /\ step' = "restop"
  /\ \/ dist' = head /\ UNCHANGED trusted
     \/ HalfBuilt /\ trusted' = FALSE
  /\ UNCHANGED <<head, files, schema, host, todo, run, verdict>>

\* Nothing watches the port here.
Restop ==
  /\ step = "restop" /\ NssmStop /\ step' = "restart"
  /\ trusted' = (trusted /\ service' = "stopped")
  /\ UNCHANGED <<head, dist, files, schema, todo, run, verdict>>

Restart ==
  /\ step = "restart" /\ NssmStart /\ step' = "reprobe"
  /\ UNCHANGED <<head, dist, files, schema, todo, run, verdict, trusted>>

Reprobe ==
  /\ step = "reprobe"
  /\ \/ Ready /\ End("ROLLBACK_OK")
     \/ End("ROLLBACK_FAILED")
  /\ UNCHANGED <<head, dist, files, schema, host, todo, trusted>>

-----------------------------------------------------------------------------
Next ==
  \/ Spawn \/ Crash \/ Dropped \/ Reboot
  \/ \E c \in Config : Refused(c) \/ \E v \in Version : Begin(c, v)
  \/ Backup \/ Promote \/ Install \/ ApplyFile \/ CheckSchema \/ Build
  \/ Stop \/ Start \/ Probe \/ Throw
  \/ Restore \/ RestoreThrows \/ Checkout \/ NoCheckout \/ Rebuild
  \/ Restop \/ Restart \/ Reprobe

Spec == Init /\ [][Next]_vars

\* nssm does restart what ended.
FairSpec == Spec /\ WF_vars(Spawn)

-----------------------------------------------------------------------------
(* Properties.                                                             *)

Step == {"idle", "backup", "promote", "install", "schema", "build", "stop", "start",
         "probe", "restore", "checkout", "rebuild", "restop", "restart", "reprobe"}
Verdict == {"none", "DEPLOY_OK", "ROLLBACK_OK", "ROLLBACK_FAILED"}

\* Every variable has its type, and what the script is about to read is there.
TypeOK ==
  /\ head \in Version /\ {dist, prev} \subseteq Version \cup {Null}
  /\ {dotenv, incoming, previous} \subseteq Config \cup {Null}
  /\ schema \in [Database -> SUBSET File]
  /\ service \in {"started", "stopped"}
  /\ {running, before, target} \subseteq Process \cup {Null}
  /\ step \in Step /\ verdict \in Verdict
  /\ todo \in SUBSET File /\ (todo # {} => step = "schema")
  /\ promoted \in BOOLEAN /\ trusted \in BOOLEAN
  /\ step \in {"backup", "promote"} => incoming # Null
  /\ step \in {"install", "schema", "build", "stop", "start", "probe"} => dotenv # Null

\* DEPLOY_OK is about this run: what answers afterwards is the version and the
\* configuration it was given, with the columns its queries name, and it leaves
\* conversations unguarded only if the configuration names no gate at all, however
\* often processes crashed, respawned or outlived a stop on the way.
OkMeansServing ==
  verdict = "DEPLOY_OK" =>
    /\ running \in {target, Null}
    /\ target.wired.gate = "open" => dotenv.set \cap GatePair = {}
    /\ Suits(schema[target.wired.database], target.version)

\* A rollback whose commands all worked puts back what was serving, configuration
\* included, wherever the run failed.
RollbackRestores ==
  verdict = "ROLLBACK_OK" /\ trusted /\ before # Null => running \in {before, Null}

\* Between runs, the version that serves finds its columns in the database it was
\* given, whichever runs failed before and whatever they had migrated.
SettledOnSchema ==
  step = "idle" /\ trusted /\ running # Null =>
    Suits(schema[running.wired.database], running.version)

\* A version the script called good comes back from every crash and reboot.
ComesBack == verdict = "DEPLOY_OK" ~> (running # Null \/ verdict # "DEPLOY_OK")

\* The message of ROLLBACK_OK, as it stands: "the previous version is serving again".
RollbackOkIsTrue ==
  verdict = "ROLLBACK_OK" /\ before # Null => running \in {before, Null}
=============================================================================
