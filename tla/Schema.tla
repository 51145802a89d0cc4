-------------------------------- MODULE Schema --------------------------------
(***************************************************************************)
(* The schema and its application (src/scripts/apply-schema.mjs): no table *)
(* of migrations, every file idempotent and run again on every deploy.     *)
(*                                                                         *)
(* File 0 is schema.sql, the others are the dated ones in filename order.  *)
(* A database's schema is the set of files whose columns it has: IF NOT    *)
(* EXISTS makes running one again no change.                               *)
(***************************************************************************)
EXTENDS Integers

CONSTANTS
  Version,  \* commits that may be deployed
  Ships     \* version -> the schema files in its checkout

ASSUME SchemaAssumption ==
  \A v \in Version : Ships[v] \subseteq Nat /\ 0 \in Ships[v]

File == UNION {Ships[v] : v \in Version}

\* Mutants: the dated files are not read, or one more than there is.
OnlyBase(v) == {0, 1}
OneMore(v) == Ships[v] \cup {1 + CHOOSE f \in Ships[v] : \A g \in Ships[v] : g <= f}

Files(v) == Ships[v]
FirstOf(todo) == CHOOSE f \in todo : \A g \in todo : f <= g

\* The dated files alter what schema.sql creates.
Applies(schema, f) == f = 0 \/ 0 \in schema
Applied(schema, f) == schema \cup {f}

\* The last check: the three tables, and the two columns of the first dated file.
Reachable(schema) == {0, 1} \subseteq schema

\* A version's queries name the columns of every file it ships.
Suits(schema, v) == Ships[v] \subseteq schema
=============================================================================
