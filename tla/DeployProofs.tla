------------------------------ MODULE DeployProofs ------------------------------
(***************************************************************************)
(* Proofs about Deploy, for any versions, schema files, configurations and *)
(* databases: its types, what DEPLOY_OK says, what a trusted rollback puts *)
(* back, and that what serves between runs finds its columns.              *)
(***************************************************************************)
EXTENDS Deploy, LeastElement

Late == {"install", "schema", "build", "stop", "start", "probe"}
Rebuilt == {"restop", "restart", "reprobe"}

\* What runs, if anything does, was started from dist/ and .env as they are.
OnDisk ==
  running # Null =>
    dist # Null /\ dotenv # Null /\ Parses(dotenv) /\ running = Started(dist, dotenv)

\* A stopped service has no process; a verdict is given at the end.
HostOK ==
  /\ service = "stopped" => running = Null
  /\ verdict # "none" => step = "idle"

\* How far the try block has come with the version and the .env it was given.
ForwardOK ==
  /\ step \in {"backup", "promote"} => target = Started(head, incoming) /\ ~promoted
  /\ step = "promote" => previous = dotenv
  /\ step \in Late => target = Started(head, dotenv)
  /\ step = "schema" => Files(head) \ todo \subseteq schema[dotenv.database]
  /\ step \in {"build", "stop", "start", "probe"} => Suits(schema[dotenv.database], head)
  /\ step \in {"stop", "start", "probe"} => dist = head
  /\ step \in {"start", "probe"} => OnDisk
  /\ verdict = "DEPLOY_OK" =>
       /\ target = Started(dist, dotenv) /\ dist = head
       /\ dotenv # Null /\ Parses(dotenv) /\ Suits(schema[dotenv.database], dist)
       /\ OnDisk

\* The .env of before the run, wherever the run has put it.
OldEnv == IF promoted THEN previous ELSE dotenv

\* While trusted: between runs, what is on disk is what runs and has its columns;
\* during one, prev and OldEnv are what ran before, and had theirs; and a rollback has
\* put back what it is past.
Settled ==
  /\ OnDisk
  /\ dotenv # Null => dist = head /\ Suits(schema[dotenv.database], head)
  /\ verdict = "ROLLBACK_OK" /\ before # Null => before = Started(dist, dotenv)

Remembered ==
  prev # Null =>
    /\ before # Null => OldEnv # Null /\ before = Started(prev, OldEnv)
    /\ OldEnv # Null => Suits(schema[OldEnv.database], prev)

PutBack ==
  /\ step \in {"checkout", "rebuild"} \cup Rebuilt => dotenv = OldEnv
  /\ step \in {"rebuild"} \cup Rebuilt => prev # Null /\ head = prev
  /\ step \in Rebuilt => dist = head
  /\ step \in {"restart", "reprobe"} => OnDisk

TrustedOK ==
  trusted => /\ step = "idle" => Settled
             /\ step # "idle" => Remembered /\ PutBack

Inv == TypeOK /\ HostOK /\ ForwardOK /\ TrustedOK

-----------------------------------------------------------------------------
(* Versions, files and configurations.                                     *)

\* The next file to apply is one of those left.
LEMMA FirstOfType ==
  ASSUME NEW todo_ \in SUBSET File, todo_ # {}
  PROVE  FirstOf(todo_) \in todo_
<1>1. todo_ \in SUBSET Nat
  BY SchemaAssumption DEF File
<1>2. \E f \in todo_ : \A g \in todo_ : f <= g
  BY <1>1, MinExists
<1> QED BY <1>2 DEF FirstOf

\* What a process is started on.
LEMMA StartedType ==
  ASSUME NEW v \in Version, NEW c \in Config
  PROVE  Started(v, c) \in Process /\ Started(v, c) # Null /\ c # Null /\ v # Null
         /\ c.database \in Database
BY DeployAssumption DEF Started, Process, Environment

\* Files a version ships are files.
LEMMA FilesType == ASSUME NEW v \in Version PROVE Files(v) \in SUBSET File
BY DEF Files, File

-----------------------------------------------------------------------------
(* Types.                                                                  *)

\* A host set up by hand has nothing to betray.
LEMMA InitInv == Init => Inv
<1> SUFFICES ASSUME Init PROVE Inv
  OBVIOUS
<1>1. TypeOK
  BY DEF Init, TypeOK, Step, Verdict
<1>2. HostOK /\ ForwardOK /\ TrustedOK
  BY DEF Init, HostOK, ForwardOK, TrustedOK, Settled, OnDisk, Late
<1> QED BY <1>1, <1>2 DEF Inv

\* Every command keeps the types.
LEMMA StepType == TypeOK /\ [Next]_vars => TypeOK'
<1> SUFFICES ASSUME TypeOK, [Next]_vars PROVE TypeOK'
  OBVIOUS
<1> USE DEF TypeOK, files, host, run, Step, Verdict
<1>1. CASE Spawn
  <2>1. dist \in Version /\ dotenv \in Config
    BY <1>1 DEF Spawn
  <2> QED BY <1>1, <2>1, StartedType DEF Spawn
<1>2. CASE Crash
  BY <1>2 DEF Crash
<1>3. CASE Dropped \/ Reboot
  BY <1>3 DEF Dropped, Reboot, Cut, End
<1>4. ASSUME NEW c \in Config, Refused(c) PROVE TypeOK'
  BY <1>4 DEF Refused, WriteIncoming
<1>5. ASSUME NEW c \in Config, NEW v \in Version, Begin(c, v) PROVE TypeOK'
  <2>1. incoming' \in Config
    BY <1>5 DEF Begin, WriteIncoming
  <2> QED BY <1>5, <2>1, StartedType DEF Begin
<1>6. CASE Backup
  BY <1>6 DEF Backup
<1>7. CASE Promote
  BY <1>7 DEF Promote
<1>8. CASE Install
  BY <1>8, FilesType DEF Install
<1>9. CASE ApplyFile
  <2>1. FirstOf(todo) \in todo /\ FirstOf(todo) \in File
    BY <1>9, FirstOfType DEF ApplyFile
  <2>2. dotenv \in Config /\ dotenv.database \in Database
    BY <1>9, StartedType DEF ApplyFile
  <2>3. schema' \in [Database -> SUBSET File]
    BY <1>9, <2>1, <2>2 DEF ApplyFile, Applied
  <2> QED BY <1>9, <2>3 DEF ApplyFile
<1>10. CASE CheckSchema
  BY <1>10 DEF CheckSchema
<1>11. CASE Build
  BY <1>11 DEF Build
<1>12. CASE Stop
  BY <1>12 DEF Stop, NssmStop
<1>13. CASE Start
  BY <1>13 DEF Start, NssmStart
<1>14. CASE Probe
  BY <1>14 DEF Probe, End
<1>15. CASE Throw
  BY <1>15 DEF Throw, HalfBuilt
<1>16. CASE Restore
  BY <1>16 DEF Restore, Replaced
<1>17. CASE RestoreThrows
  BY <1>17 DEF RestoreThrows, End
<1>18. CASE Checkout \/ NoCheckout
  BY <1>18 DEF Checkout, NoCheckout
<1>19. CASE Rebuild
  BY <1>19 DEF Rebuild, HalfBuilt
<1>20. CASE Restop
  BY <1>20 DEF Restop, NssmStop
<1>21. CASE Restart
  BY <1>21 DEF Restart, NssmStart
<1>22. CASE Reprobe
  BY <1>22 DEF Reprobe, End
<1>23. CASE UNCHANGED vars
  BY <1>23 DEF vars
<1> QED
  BY <1>1, <1>2, <1>3, <1>4, <1>5, <1>6, <1>7, <1>8, <1>9, <1>10, <1>11, <1>12, <1>13,
     <1>14, <1>15, <1>16, <1>17, <1>18, <1>19, <1>20, <1>21, <1>22, <1>23 DEF Next

\* No command takes a column away.
LEMMA SchemaGrows ==
  ASSUME TypeOK, [Next]_vars, NEW d \in Database
  PROVE  schema[d] \subseteq schema'[d]
<1>1. CASE ApplyFile
  BY <1>1 DEF ApplyFile, Applied, TypeOK
<1>2. CASE schema' = schema
  BY <1>2
<1> QED
  BY <1>1, <1>2
     DEF Next, vars, Spawn, Crash, Dropped, Reboot, Refused, Begin, Backup, Promote,
         Install, CheckSchema, Build, Stop, Start, Probe, Throw, Restore, RestoreThrows,
         Checkout, NoCheckout, Rebuild, Restop, Restart, Reprobe

\* So a version that suits a schema goes on suiting it.
LEMMA SuitsStays ==
  ASSUME TypeOK, [Next]_vars, NEW d \in Database, NEW v, Suits(schema[d], v)
  PROVE  Suits(schema'[d], v)
BY SchemaGrows DEF Suits

-----------------------------------------------------------------------------
(* What runs.                                                              *)

\* nssm has no process of a service it stopped.
LEMMA StepHost == TypeOK /\ HostOK /\ [Next]_vars => HostOK'
<1> SUFFICES ASSUME TypeOK, HostOK, [Next]_vars PROVE HostOK'
  OBVIOUS
<1> USE DEF HostOK, host, run
<1>1. CASE Spawn \/ Crash
  BY <1>1 DEF Spawn, Crash
<1>2. CASE Dropped \/ Reboot
  BY <1>2 DEF Dropped, Reboot, Cut, End
<1>3. ASSUME NEW c \in Config, Refused(c) PROVE HostOK'
  BY <1>3 DEF Refused
<1>4. ASSUME NEW c \in Config, NEW v \in Version, Begin(c, v) PROVE HostOK'
  BY <1>4 DEF Begin
<1>5. CASE Backup \/ Promote \/ Install \/ ApplyFile \/ CheckSchema \/ Build
  BY <1>5 DEF Backup, Promote, Install, ApplyFile, CheckSchema, Build
<1>6. CASE Stop \/ Restop
  BY <1>6 DEF Stop, Restop, NssmStop
<1>7. CASE Start \/ Restart
  BY <1>7 DEF Start, Restart, NssmStart, TypeOK
<1>8. CASE Probe \/ RestoreThrows \/ Reprobe
  BY <1>8 DEF Probe, RestoreThrows, Reprobe, End
<1>9. CASE Throw \/ Restore \/ Checkout \/ NoCheckout \/ Rebuild
  BY <1>9 DEF Throw, Restore, Checkout, NoCheckout, Rebuild
<1>10. CASE UNCHANGED vars
  BY <1>10 DEF vars
<1> QED
  BY <1>1, <1>2, <1>3, <1>4, <1>5, <1>6, <1>7, <1>8, <1>9, <1>10 DEF Next

\* What runs goes on being what is on disk while the disk stays as it is.
LEMMA OnDiskStays ==
  ASSUME OnDisk, dist' = dist, dotenv' = dotenv,
         running' = running \/ running' = Null \/ Spawn
  PROVE  OnDisk'
BY DEF OnDisk, Spawn

-----------------------------------------------------------------------------
(* The try block.                                                          *)

\* Every command keeps to the version and the .env of its run.
LEMMA StepForward == Inv /\ TypeOK' /\ [Next]_vars => ForwardOK'
<1> SUFFICES ASSUME Inv, TypeOK', [Next]_vars PROVE ForwardOK'
  OBVIOUS
<1> USE DEF Inv, files, host, run, Late
<1>1. CASE Spawn \/ Crash \/ UNCHANGED vars
  <2>1. /\ UNCHANGED <<head, dist, files, schema, step, todo, run, verdict, trusted>>
        /\ running' = running \/ running' = Null \/ Spawn
    BY <1>1 DEF Spawn, Crash, vars
  <2>2. OnDisk => OnDisk'
    BY <2>1, OnDiskStays
  <2> QED BY <2>1, <2>2 DEF ForwardOK
<1>2. CASE Dropped
  BY <1>2 DEF Dropped, Cut, End, ForwardOK
<1>3. CASE Reboot
  <2>1. OnDisk => OnDisk'
    BY <1>3, OnDiskStays DEF Reboot
  <2>2. CASE step = "idle"
    BY <1>3, <2>1, <2>2 DEF Reboot, ForwardOK
  <2>3. CASE step # "idle"
    BY <1>3, <2>3 DEF Reboot, Cut, End, ForwardOK
  <2> QED BY <2>2, <2>3
<1>4. ASSUME NEW c \in Config, Refused(c) PROVE ForwardOK'
  BY <1>4 DEF Refused, ForwardOK
<1>5. ASSUME NEW c \in Config, NEW v \in Version, Begin(c, v) PROVE ForwardOK'
  BY <1>5 DEF Begin, ForwardOK
<1>6. CASE Backup
  BY <1>6 DEF Backup, ForwardOK, HostOK
<1>7. CASE Promote
  BY <1>7 DEF Promote, ForwardOK, HostOK
<1>8. CASE Install
  BY <1>8 DEF Install, ForwardOK, HostOK
<1>9. CASE ApplyFile
  <2>1. dotenv.database \in Database
    BY <1>9, StartedType DEF ApplyFile, TypeOK
  <2>2. Files(head) \ todo' \subseteq schema'[dotenv.database]
    BY <1>9, <2>1 DEF ApplyFile, Applied, ForwardOK, TypeOK
  <2> QED BY <1>9, <2>2 DEF ApplyFile, ForwardOK, HostOK
<1>10. CASE CheckSchema
  BY <1>10 DEF CheckSchema, ForwardOK, HostOK, Files, Suits
<1>11. CASE Build
  BY <1>11 DEF Build, ForwardOK, HostOK
<1>12. CASE Stop
  <2>1. step' = "start" => running' = Null
    BY <1>12 DEF Stop, Quiet
  <2> QED BY <1>12, <2>1 DEF Stop, ForwardOK, HostOK, OnDisk
<1>13. CASE Start
  <2>1. OnDisk'
    BY <1>13, OnDiskStays DEF Start, NssmStart, ForwardOK
  <2> QED BY <1>13, <2>1 DEF Start, ForwardOK, HostOK
<1>14. CASE Probe
  <2>1. OnDisk /\ OnDisk'
    BY <1>14, OnDiskStays DEF Probe, ForwardOK
  <2>2. dotenv # Null /\ Parses(dotenv)
    BY <1>14, <2>1 DEF Probe, Ready, OnDisk
  <2> QED BY <1>14, <2>1, <2>2 DEF Probe, End, ForwardOK
<1>15. CASE Throw
  BY <1>15 DEF Throw, ForwardOK, HostOK
<1>16. CASE RestoreThrows \/ Reprobe
  BY <1>16 DEF RestoreThrows, Reprobe, End, ForwardOK
<1>17. CASE Restore \/ Checkout \/ NoCheckout \/ Rebuild \/ Restop \/ Restart
  BY <1>17
     DEF Restore, Checkout, NoCheckout, Rebuild, Restop, Restart, ForwardOK, HostOK
<1> QED
  BY <1>1, <1>2, <1>3, <1>4, <1>5, <1>6, <1>7, <1>8, <1>9, <1>10, <1>11, <1>12, <1>13,
     <1>14, <1>15, <1>16, <1>17 DEF Next

-----------------------------------------------------------------------------
(* What a rollback can put back.                                           *)

\* A step within a run that leaves prev, before and OldEnv alone.
LEMMA RememberedStays ==
  ASSUME Inv, [Next]_vars, Remembered, OldEnv \in Config \cup {Null},
         prev' = prev, before' = before, OldEnv' = OldEnv
  PROVE  Remembered'
<1>1. OldEnv # Null => OldEnv.database \in Database
  BY DeployAssumption DEF Environment
<1>2. OldEnv # Null /\ Suits(schema[OldEnv.database], prev) =>
        Suits(schema'[OldEnv.database], prev)
  BY <1>1, SuitsStays DEF Inv
<1> QED BY <1>2 DEF Remembered

\* Every command keeps, while trusted, what a rollback needs.
LEMMA StepTrusted == Inv /\ TypeOK' /\ ForwardOK' /\ [Next]_vars => TrustedOK'
<1> SUFFICES ASSUME Inv, TypeOK', ForwardOK', [Next]_vars, trusted' PROVE TrustedOK'
  BY DEF TrustedOK
<1> USE DEF Inv, files, host, run
<1>0. OldEnv \in Config \cup {Null}
  BY DEF OldEnv, TypeOK
<1>1. CASE Spawn \/ Crash \/ UNCHANGED vars
  <2>1. /\ UNCHANGED <<head, dist, files, schema, step, todo, run, verdict, trusted>>
        /\ running' = running \/ running' = Null \/ Spawn
    BY <1>1 DEF Spawn, Crash, vars
  <2>2. OnDisk => OnDisk'
    BY <2>1, OnDiskStays
  <2> QED BY <2>1, <2>2 DEF TrustedOK, Settled, Remembered, PutBack, OldEnv, Rebuilt
<1>2. CASE Dropped \/ RestoreThrows
  BY <1>2 DEF Dropped, RestoreThrows, Cut
<1>3. CASE Reboot
  <2>1. step = "idle" /\ UNCHANGED <<head, dist, files, schema, step, todo, run, verdict, trusted>>
    BY <1>3 DEF Reboot, Cut
  <2>2. OnDisk => OnDisk'
    BY <1>3, <2>1, OnDiskStays DEF Reboot
  <2> QED BY <2>1, <2>2 DEF TrustedOK, Settled
<1>4. ASSUME NEW c \in Config, Refused(c) PROVE TrustedOK'
  BY <1>4 DEF Refused, TrustedOK, Settled, OnDisk
<1>5. ASSUME NEW c \in Config, NEW v \in Version, Begin(c, v) PROVE TrustedOK'
  <2>1. step = "idle" /\ trusted /\ step' = "backup" /\ ~promoted' /\ before' = running
        /\ prev' \in {head, Null} /\ dotenv' = dotenv /\ schema' = schema
    BY <1>5 DEF Begin
  <2>2. Settled
    BY <2>1 DEF TrustedOK
  <2>3. OldEnv' = dotenv
    BY <2>1 DEF OldEnv
  <2>4. Remembered'
    BY <2>1, <2>2, <2>3 DEF Remembered, Settled, OnDisk
  <2>5. PutBack'
    BY <2>1 DEF PutBack, Rebuilt
  <2> QED BY <2>1, <2>4, <2>5 DEF TrustedOK
<1>6. CASE Backup \/ Promote
  <2>1. OldEnv' = OldEnv
    BY <1>6 DEF Backup, Promote, OldEnv, ForwardOK
  <2>2. trusted /\ step # "idle" /\ step' \in {"promote", "install"}
        /\ prev' = prev /\ before' = before
    BY <1>6 DEF Backup, Promote
  <2>3. Remembered'
    BY <1>0, <2>1, <2>2, RememberedStays DEF TrustedOK
  <2>4. PutBack'
    BY <2>2 DEF PutBack, Rebuilt
  <2> QED BY <2>2, <2>3, <2>4 DEF TrustedOK
<1>7. CASE Install \/ ApplyFile \/ CheckSchema \/ Build \/ Stop \/ Start \/ Throw
  <2>1. /\ promoted' = promoted /\ previous' = previous /\ dotenv' = dotenv
        /\ prev' = prev /\ before' = before
    BY <1>7 DEF Install, ApplyFile, CheckSchema, Build, Stop, Start, Throw
  <2>2. OldEnv' = OldEnv
    BY <2>1 DEF OldEnv
  <2>3. trusted' = trusted
    BY <1>7 DEF Install, ApplyFile, CheckSchema, Build, Stop, Start, Throw
  <2>4. step # "idle" /\ step' \in Late \cup {"restore"}
    <3>1. CASE Install \/ ApplyFile \/ CheckSchema \/ Build
      BY <3>1 DEF Install, ApplyFile, CheckSchema, Build, Late
    <3>2. CASE Stop \/ Start \/ Throw
      BY <3>2 DEF Stop, Start, Throw, Late
    <3> QED BY <1>7, <3>1, <3>2
  <2>5. Remembered'
    BY <1>0, <2>1, <2>2, <2>3, <2>4, RememberedStays DEF TrustedOK
  <2>6. PutBack'
    BY <2>4 DEF PutBack, Rebuilt, Late
  <2> QED BY <2>4, <2>5, <2>6 DEF TrustedOK, Late
<1>8. CASE Probe
  <2>1. step' = "idle" /\ verdict' = "DEPLOY_OK" /\ head' = head /\ dist' = dist
    BY <1>8 DEF Probe, End
  <2> QED BY <2>1 DEF TrustedOK, Settled, ForwardOK
<1>9. CASE Restore
  <2>1. /\ trusted /\ promoted => previous # Null
        /\ step = "restore" /\ step' = "checkout"
        /\ UNCHANGED <<head, dist, incoming, previous, schema, host, todo, run, verdict>>
        /\ dotenv' = IF promoted /\ previous # Null THEN previous ELSE dotenv
    BY <1>9 DEF Restore, Replaced
  <2>2. trusted
    BY <1>9 DEF Restore
  <2>3. OldEnv' = OldEnv /\ dotenv' = OldEnv'
    BY <1>9, <2>1, <2>2 DEF OldEnv, Restore
  <2>4. Remembered'
    BY <1>0, <2>1, <2>2, <2>3, RememberedStays DEF TrustedOK
  <2>5. PutBack'
    BY <2>1, <2>3 DEF PutBack, Rebuilt
  <2> QED BY <2>1, <2>4, <2>5 DEF TrustedOK
<1>10. CASE Checkout \/ Rebuild \/ Restop \/ Restart
  <2>1. /\ promoted' = promoted /\ previous' = previous /\ dotenv' = dotenv
        /\ prev' = prev /\ before' = before
    BY <1>10 DEF Checkout, Rebuild, Restop, Restart
  <2>2. OldEnv' = OldEnv
    BY <2>1 DEF OldEnv
  <2>3. trusted
    <3>1. CASE Checkout \/ Rebuild
      BY <3>1 DEF Checkout, Rebuild
    <3>2. CASE Restop \/ Restart
      BY <3>2 DEF Restop, Restart
    <3> QED BY <1>10, <3>1, <3>2
  <2>4. step \in {"checkout", "rebuild"} \cup Rebuilt /\ step' \in {"rebuild"} \cup Rebuilt
    BY <1>10 DEF Checkout, Rebuild, Restop, Restart, Rebuilt
  <2>5. Remembered /\ PutBack
    BY <2>3, <2>4 DEF TrustedOK, Rebuilt
  <2>6. Remembered'
    BY <1>0, <2>1, <2>2, <2>5, RememberedStays
  <2>7. dotenv' = OldEnv'
    BY <2>1, <2>2, <2>4, <2>5 DEF PutBack
  <2>8. ASSUME Checkout PROVE PutBack'
    <3>1. step' = "rebuild" /\ prev # Null /\ head' = prev
      BY <2>8 DEF Checkout
    <3> QED BY <2>1, <2>7, <3>1 DEF PutBack, Rebuilt
  <2>9. ASSUME Rebuild PROVE PutBack'
    <3>1. step = "rebuild" /\ step' = "restop" /\ head' = head /\ dist' = head
      BY <2>9 DEF Rebuild
    <3>2. prev # Null /\ head = prev
      BY <2>5, <3>1 DEF PutBack
    <3> QED BY <2>1, <2>7, <3>1, <3>2 DEF PutBack, Rebuilt
  <2>10. ASSUME Restop PROVE PutBack'
    <3>1. step = "restop" /\ step' = "restart" /\ head' = head /\ dist' = dist
          /\ service' = "stopped"
      BY <2>10 DEF Restop
    <3>2. running' = Null
      BY <2>10, <3>1 DEF Restop, NssmStop, HostOK
    <3>3. OnDisk'
      BY <3>2 DEF OnDisk
    <3>4. prev # Null /\ head = prev /\ dist = head
      BY <2>5, <3>1 DEF PutBack, Rebuilt
    <3> QED BY <2>1, <2>7, <3>1, <3>3, <3>4 DEF PutBack, Rebuilt
  <2>11. ASSUME Restart PROVE PutBack'
    <3>1. step = "restart" /\ step' = "reprobe" /\ head' = head /\ dist' = dist
          /\ running' = running
      BY <2>11 DEF Restart, NssmStart
    <3>2. OnDisk /\ prev # Null /\ head = prev /\ dist = head
      BY <2>5, <3>1 DEF PutBack, Rebuilt
    <3>3. OnDisk'
      BY <2>1, <3>1, <3>2, OnDiskStays
    <3> QED BY <2>1, <2>7, <3>1, <3>2, <3>3 DEF PutBack, Rebuilt
  <2>12. PutBack'
    BY <1>10, <2>8, <2>9, <2>10, <2>11
  <2>13. step' # "idle"
    BY <2>4 DEF Rebuilt
  <2> QED BY <2>6, <2>12, <2>13 DEF TrustedOK
<1>11. CASE NoCheckout
  BY <1>11 DEF NoCheckout
<1>12. CASE Reprobe
  <2>1. /\ trusted /\ step = "reprobe" /\ step' = "idle"
        /\ UNCHANGED <<head, dist, files, schema, host, todo>>
        /\ verdict' = "ROLLBACK_OK" => before' = before
    BY <1>12 DEF Reprobe, End
  <2>2. Remembered /\ PutBack
    BY <2>1 DEF TrustedOK
  <2>3. prev # Null /\ head = prev /\ dist = head /\ dotenv = OldEnv /\ OnDisk
    BY <2>1, <2>2 DEF PutBack, Rebuilt
  <2>4. OnDisk'
    BY <2>1, <2>3, OnDiskStays
  <2> QED BY <2>1, <2>2, <2>3, <2>4 DEF TrustedOK, Settled, Remembered
<1> QED
  BY <1>1, <1>2, <1>3, <1>4, <1>5, <1>6, <1>7, <1>8, <1>9, <1>10, <1>11, <1>12 DEF Next

-----------------------------------------------------------------------------
(* Theorems.                                                               *)

\* The inductive invariant of a host holds of every behaviour.
THEOREM Invariance == Spec => []Inv
<1>1. Init => Inv
  BY InitInv
<1>2. Inv /\ [Next]_vars => Inv'
  <2> SUFFICES ASSUME Inv, [Next]_vars PROVE Inv'
    OBVIOUS
  <2>1. TypeOK' /\ HostOK'
    BY StepType, StepHost DEF Inv
  <2>2. ForwardOK'
    BY <2>1, StepForward
  <2>3. TrustedOK'
    BY <2>1, <2>2, StepTrusted
  <2> QED BY <2>1, <2>2, <2>3 DEF Inv
<1> QED BY <1>1, <1>2, PTL DEF Spec

\* Types, and that no command reads a file that is not there.
THEOREM TypeCorrectness == Spec => []TypeOK
<1>1. Inv => TypeOK
  BY DEF Inv
<1> QED BY <1>1, Invariance, PTL

\* DEPLOY_OK is true of the version, the gate and the columns.
THEOREM OkIsTrue == Spec => []OkMeansServing
<1>1. Inv => OkMeansServing
  <2> SUFFICES ASSUME Inv, verdict = "DEPLOY_OK"
               PROVE  /\ running \in {target, Null}
                      /\ target.wired.gate = "open" => dotenv.set \cap GatePair = {}
                      /\ Suits(schema[target.wired.database], target.version)
    BY DEF OkMeansServing
  <2>1. /\ target = Started(dist, dotenv) /\ Parses(dotenv)
        /\ Suits(schema[dotenv.database], dist) /\ OnDisk
    BY DEF Inv, ForwardOK
  <2>2. /\ target.version = dist /\ target.wired.database = dotenv.database
        /\ target.wired.gate = Gate(dotenv)
    BY <2>1 DEF Started, Wired
  <2>3. Gate(dotenv) = "open" => ~(GatePair \subseteq dotenv.set)
    BY DEF Gate
  <2>4. dotenv.set \cap GatePair \in {{}, GatePair}
    BY <2>1 DEF Parses, Half
  <2> QED BY <2>1, <2>2, <2>3, <2>4 DEF OnDisk
<1> QED BY <1>1, Invariance, PTL

\* A rollback all of whose commands worked puts back what was serving.
THEOREM RollbackIsTrue == Spec => []RollbackRestores
<1>1. Inv => RollbackRestores
  BY DEF Inv, HostOK, TrustedOK, Settled, OnDisk, RollbackRestores
<1> QED BY <1>1, Invariance, PTL

\* What serves between runs finds its columns.
THEOREM ColumnsAreThere == Spec => []SettledOnSchema
<1>1. Inv => SettledOnSchema
  <2> SUFFICES ASSUME Inv, step = "idle", trusted, running # Null
               PROVE  Suits(schema[running.wired.database], running.version)
    BY DEF SettledOnSchema
  <2>1. /\ dotenv # Null /\ running = Started(dist, dotenv) /\ dist = head
        /\ Suits(schema[dotenv.database], head)
    BY DEF Inv, TrustedOK, Settled, OnDisk
  <2>2. running.version = dist /\ running.wired.database = dotenv.database
    BY <2>1 DEF Started, Wired
  <2> QED BY <2>1, <2>2
<1> QED BY <1>1, Invariance, PTL
================================================================================
