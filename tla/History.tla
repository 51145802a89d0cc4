-------------------------------- MODULE History --------------------------------
(***************************************************************************)
(* Reading a conversation back, page by page: listByConversation of both   *)
(* stores (src/adapters/postgres and in-memory message-store.ts), the route*)
(* and the core call above it, and a client that scrolls up with the       *)
(* created_at of the oldest message it was shown.                          *)
(*                                                                         *)
(* One conversation and one reader, while others send.  A page is a set:   *)
(* created_at orders it, and which of two equal instants Postgres puts     *)
(* first is its choice.                                                    *)
(* Deletes keep their rows, so they change no page.  The reader's own      *)
(* cleared_at may move either way while a scroll goes on: the instant is   *)
(* read on a host before the UPDATE that stores it.                        *)
(***************************************************************************)
EXTENDS Integers, Sequences, FiniteSets

CONSTANTS
  Null,
  DefaultLimit, MaxLimit,  \* DEFAULT_LIMIT and MAX_LIMIT of the Postgres store
  Limit,                   \* what a client may ask for, Null for no limit
  TicksPerMs,              \* ticks of the database's clock in a millisecond
  MaxTime, MaxSent         \* bounds on the clock and on what is sent

ASSUME HistoryAssumption ==
  /\ Null \notin Nat
  /\ {DefaultLimit, MaxLimit, TicksPerMs} \subseteq Nat \ {0} /\ DefaultLimit <= MaxLimit
  /\ Limit \subseteq (Nat \ {0}) \cup {Null}
  /\ {MaxTime, MaxSent} \subseteq Nat

VARIABLES
  store,    \* which one is configured: "postgres" or "memory"
  now,      \* the database's clock, or the service's own in memory
  at,       \* when each message was stamped; a message is its index here
  stored,   \* messages whose INSERT has committed
  cleared,  \* the reader's cleared_at, or Null
  phase,    \* of the scroll: "new", "asking", "looked", "reading" or "done"
  limit,    \* what it asks for
  cursor,   \* its `before`, Null on the first page
  after,    \* the clearedAt its request has looked up
  page,     \* the last page it got
  shown,    \* what earlier pages showed
  asOf,     \* history: what was stored when it began
  hidden    \* history: of that, what the reader's cleared_at has hidden since

rows == <<store, at, stored>>
scroll == <<phase, limit, cursor, after, page, shown, asOf, hidden>>
vars == <<rows, now, cleared, scroll>>

\* What a Date keeps of an instant.
Ms(t) == t - (t % TicksPerMs)

Init ==
  /\ store \in {"postgres", "memory"}
  /\ now = 0 /\ at = <<>> /\ stored = {} /\ cleared = Null
  /\ phase = "new" /\ limit = Null /\ cursor = Null /\ after = Null
  /\ page = {} /\ shown = {} /\ asOf = {} /\ hidden = {}

Tick ==
  /\ now < MaxTime /\ now' = now + 1
  /\ UNCHANGED <<rows, cleared, scroll>>

-----------------------------------------------------------------------------
(* Writing.                                                                *)

\* created_at is now(), the start of the INSERT's transaction; it shows once that
\* has committed.  In memory both are one step.
Stamp ==
  /\ Len(at) < MaxSent /\ at' = Append(at, now)
  /\ stored' = IF store = "memory" THEN stored \cup {Len(at')} ELSE stored
  /\ UNCHANGED <<store, now, cleared, scroll>>

Commit(m) ==
  /\ m \notin stored /\ stored' = stored \cup {m}
  /\ UNCHANGED <<store, at, now, cleared, scroll>>

-----------------------------------------------------------------------------
(* What a request matches.                                                 *)

\* Mutant: `created_at <= before`.
AtOrBefore(t, b) == b = Null \/ t <= b

Earlier(t, b) == b = Null \/ t < b
Later(t, a) == a = Null \/ t > a

\* created_at: a column of microseconds, or a Date.
Created(m, s) == IF s = "postgres" THEN at[m] ELSE Ms(at[m])

Matching(s, b, a) ==
  {m \in stored : Earlier(Created(m, s), b) /\ Later(Created(m, s), a)}

-----------------------------------------------------------------------------
(* Clearing.                                                               *)

\* The instant a DELETE of the conversation clears up to is the host's `new Date()`.
\* Its UPDATE is a later step of Postgres, so it may bring an instant older than the
\* one already there; hosts' clocks may differ from the database's, too.  In memory
\* the instant is read and stored in one turn.
Instant(s) == IF s = "postgres" THEN 0..MaxTime ELSE {now}

\* The messages of ms that a cleared_at of a hides.
Hides(a, ms) == {m \in ms : ~Later(Created(m, store), a)}

\* The reader deletes the conversation, from another tab.
Clear ==
  /\ \E t \in Instant(store) : cleared # Ms(t) /\ cleared' = Ms(t)
  /\ hidden' = hidden \cup Hides(cleared', asOf)
  /\ UNCHANGED <<rows, now, phase, limit, cursor, after, page, shown, asOf>>

-----------------------------------------------------------------------------
(* listByConversation.                                                     *)

\* Mutant: the first n of ORDER BY created_at ASC.
IsOldest(p, ms, n) ==
  /\ p \subseteq ms /\ Cardinality(p) = IF Cardinality(ms) < n THEN Cardinality(ms) ELSE n
  /\ \A m \in p, k \in ms \ p : at[m] <= at[k]

\* ORDER BY created_at DESC LIMIT n, and slice(-n): the n newest of ms.  The sort
\* in memory is stable, so within a millisecond the latest pushed are the newest.
IsNewest(p, ms, n) ==
  /\ p \subseteq ms /\ Cardinality(p) = IF Cardinality(ms) < n THEN Cardinality(ms) ELSE n
  /\ \A m \in p, k \in ms \ p : at[k] <= at[m]

\* Mutant: the cap is applied to the default only.
DefaultOnly(n) == IF n = Null THEN DefaultLimit ELSE n

Clamped(n) ==
  LET m == IF n = Null THEN DefaultLimit ELSE n IN IF m > MaxLimit THEN MaxLimit ELSE m

PagePostgres(p, b, a, n) == IsNewest(p, Matching("postgres", b, a), Clamped(n))

\* No default and no cap in memory.
PageMemory(p, b, a, n) ==
  LET ms == Matching("memory", b, a)
  IN  IF n = Null THEN p = ms ELSE IsNewest(p, ms, n)

-----------------------------------------------------------------------------
(* The scroll.                                                             *)

Open ==
  /\ phase = "new" /\ phase' = "asking" /\ limit' \in Limit /\ asOf' = stored
  /\ hidden' = Hides(cleared, stored)
  /\ UNCHANGED <<rows, now, cleared, cursor, after, page, shown>>

\* requireParticipant reads the clearedAt the SELECT will use.
LookUp ==
  /\ phase = "asking" /\ phase' = "looked" /\ after' = cleared
  /\ UNCHANGED <<rows, now, cleared, limit, cursor, page, shown, asOf, hidden>>

Select ==
  /\ phase = "looked" /\ phase' = "reading"
  /\ \E p \in SUBSET stored :
       /\ IF store = "postgres" THEN PagePostgres(p, cursor, after, limit)
                                ELSE PageMemory(p, cursor, after, limit)
       /\ page' = p
  /\ UNCHANGED <<rows, now, cleared, limit, cursor, after, shown, asOf, hidden>>

Oldest(m) == \A k \in page : at[m] <= at[k]

\* The client has created_at as JSON, in milliseconds; it stops at an empty page.
ScrollUp ==
  /\ phase = "reading" /\ phase' = "asking"
  /\ \E m \in page : Oldest(m) /\ cursor' = Ms(at[m])
  /\ shown' = shown \cup page /\ page' = {}
  /\ UNCHANGED <<rows, now, cleared, limit, after, asOf, hidden>>

Finish ==
  /\ phase = "reading" /\ page = {} /\ phase' = "done"
  /\ UNCHANGED <<rows, now, cleared, limit, cursor, after, page, shown, asOf, hidden>>

Next ==
  \/ Tick \/ Stamp \/ (\E m \in 1..Len(at) : Commit(m)) \/ Clear
  \/ Open \/ LookUp \/ Select \/ ScrollUp \/ Finish

Spec == Init /\ [][Next]_vars

\* Both the service and the client go on with a scroll.
FairSpec == Spec /\ WF_vars(LookUp \/ Select \/ ScrollUp \/ Finish)

-----------------------------------------------------------------------------
(* Properties.                                                             *)

\* Every variable has its type, and no answer of Postgres is unbounded.
TypeOK ==
  /\ store \in {"postgres", "memory"} /\ now \in 0..MaxTime
  /\ at \in Seq(0..MaxTime) /\ stored \subseteq 1..Len(at)
  /\ {cleared, cursor, after} \subseteq (0..MaxTime) \cup {Null}
  /\ phase \in {"new", "asking", "looked", "reading", "done"}
  /\ limit \in Limit \cup {Null}
  /\ page \cup shown \cup asOf \subseteq stored /\ hidden \subseteq asOf
  /\ store = "postgres" => Cardinality(page) <= MaxLimit

\* A scroll shows nothing twice, although rows keep arriving, some stamped before
\* the cursor, and the cursor has lost the microseconds of the row it came from.
NeverTwice == page \cap shown = {}

\* A scroll that reached the end showed everything stored when it began that no
\* cleared_at has hidden meanwhile, one moved back since included; only a message of
\* a millisecond it has shown another one of may be missing.
NothingSkipped ==
  phase = "done" =>
    \A m \in asOf \ hidden :
      m \in shown \/ \E k \in shown : Ms(at[k]) = Ms(at[m])

\* A scroll ends, whatever is sent meanwhile.
ScrollEnds == phase = "asking" ~> phase = "done"

\* The same rows under either store give the same page, whatever the cursor and the
\* limit, unless no limit or one above the cap is asked for, or a message shares
\* the millisecond of the clear.
StoresAgree ==
  (\A m \in stored : Ms(at[m]) # cleared) =>
    \A b \in {Ms(t) : t \in 0..MaxTime} \cup {Null}, n \in 1..MaxLimit, p \in SUBSET stored :
      PagePostgres(p, b, cleared, n) <=> PageMemory(p, b, cleared, n)
=============================================================================
