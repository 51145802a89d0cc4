----------------------------- MODULE HistoryProofs -----------------------------
(***************************************************************************)
(* Proofs about History: the types, the cap on a page of Postgres, and that*)
(* a scroll shows nothing twice and skips nothing, for any clock           *)
(* granularity, any limits, either store and clears of any instant.        *)
(***************************************************************************)
EXTENDS History, FiniteSetTheorems, SequenceTheorems, TLAPS

\* What was shown is not before the cursor, and what the last page shows is.
CursorInv ==
  /\ cursor = Null => shown = {}
  /\ cursor # Null =>
       /\ \A m \in shown : Created(m, store) >= cursor
       /\ \A m \in page : Created(m, store) < cursor

Inv == TypeOK /\ CursorInv

-----------------------------------------------------------------------------
(* Instants.                                                               *)

\* Truncating to milliseconds gives an earlier instant.
LEMMA MsType == ASSUME NEW t \in Nat PROVE Ms(t) \in Nat /\ Ms(t) <= t
<1>1. TicksPerMs \in Nat \ {0}
  BY HistoryAssumption
<1>2. t % TicksPerMs \in 0..(TicksPerMs - 1)
  BY <1>1
<1>3. t = TicksPerMs * (t \div TicksPerMs) + (t % TicksPerMs) /\ t \div TicksPerMs \in Nat
  BY <1>1
<1>4. TicksPerMs * (t \div TicksPerMs) \in Nat
  BY <1>1, <1>3
<1> QED BY <1>2, <1>3, <1>4 DEF Ms

\* It keeps the order of instants.
LEMMA MsMonotone == ASSUME NEW t \in Nat, NEW u \in Nat, t <= u PROVE Ms(t) <= Ms(u)
<1> DEFINE T == TicksPerMs  qt == t \div T  qu == u \div T
<1>1. T \in Nat /\ T > 0
  BY HistoryAssumption
<1>2. /\ t % T \in 0..(T - 1) /\ u % T \in 0..(T - 1)
      /\ qt \in Nat /\ qu \in Nat
      /\ t = T * qt + (t % T) /\ u = T * qu + (u % T)
  BY <1>1
<1>3. Ms(t) = T * qt /\ Ms(u) = T * qu
  <2>1. T * qt \in Int /\ T * qu \in Int
    BY <1>1, <1>2
  <2> HIDE DEF T, qt, qu
  <2> QED BY <1>2, <2>1 DEF Ms, T
<1> HIDE DEF qt, qu, T
<1>4. SUFFICES ASSUME qu < qt PROVE FALSE
  <2> SUFFICES qt <= qu => T * qt <= T * qu
    BY <1>2, <1>3
  <2> QED BY <1>1, <1>2
<1>5. T * (qu + 1) <= T * qt /\ T * (qu + 1) = T * qu + T
  BY <1>1, <1>2, <1>4
<1>6. T * qu \in Int /\ T * qt \in Int
  BY <1>1, <1>2
<1> QED BY <1>1, <1>2, <1>5, <1>6

\* A page of Postgres is bounded, whatever limit is asked for.
LEMMA PageBounded ==
  ASSUME NEW n \in Nat \cup {Null}, NEW ms, IsFiniteSet(ms), NEW p,
         IsNewest(p, ms, Clamped(n))
  PROVE  Cardinality(p) <= MaxLimit
<1>1. Cardinality(ms) \in Nat
  BY FS_CardinalityType
<1>2. Clamped(n) \in Nat /\ Clamped(n) <= MaxLimit
  BY HistoryAssumption DEF Clamped
<1> QED BY <1>1, <1>2, HistoryAssumption DEF IsNewest

-----------------------------------------------------------------------------
(* The invariant.                                                          *)

\* The invariant holds of the program's first state.
LEMMA InitInv == Init => Inv
<1> SUFFICES ASSUME Init PROVE Inv
  OBVIOUS
<1>1. Cardinality(page) <= MaxLimit
  BY FS_EmptySet, HistoryAssumption DEF Init
<1>2. TypeOK
  BY <1>1, HistoryAssumption DEF Init, TypeOK
<1> QED BY <1>2 DEF Init, Inv, CursorInv

\* An instant that was stamped is a natural number, and so is its created_at.
LEMMA Instants ==
  ASSUME TypeOK, NEW m \in stored
  PROVE  at[m] \in 0..MaxTime /\ at[m] \in Nat /\ Created(m, store) \in Nat
<1>1. at[m] \in 0..MaxTime
  <2>1. at \in Seq(0..MaxTime) /\ m \in 1..Len(at)
    BY DEF TypeOK
  <2> QED BY <2>1, ElementOfSeq
<1>2. at[m] \in Nat
  BY <1>1
<1> QED BY <1>1, <1>2, MsType DEF Created

\* Sending disturbs no row that is there.
LEMMA Kept ==
  ASSUME TypeOK, store' = store, NEW t \in Nat, at' = Append(at, t), NEW m \in stored
  PROVE  Created(m, store)' = Created(m, store)
<1>1. m \in 1..Len(at)
  BY DEF TypeOK
<1>2. at'[m] = at[m]
  BY <1>1 DEF TypeOK
<1> QED BY <1>2 DEF Created, Ms

\* Every step of the clock, of the senders and of the scroll keeps it.
LEMMA StepInv == Inv /\ [Next]_vars => Inv'
<1> SUFFICES ASSUME Inv, [Next]_vars PROVE Inv'
  OBVIOUS
<1> USE DEF Inv
<1>1. CASE Tick
  <2>1. TypeOK'
    BY <1>1, HistoryAssumption DEF Tick, rows, scroll, TypeOK
  <2> QED BY <1>1, <2>1 DEF Tick, rows, scroll, CursorInv, Created, Ms
<1>2. CASE Stamp
  <2>1. now \in 0..MaxTime /\ at' = Append(at, now) /\ Len(at') = Len(at) + 1 /\ store' = store
    BY <1>2 DEF Stamp, TypeOK
  <2>2. stored \subseteq stored' /\ stored' \subseteq 1..Len(at')
    <3>1. Len(at) \in Nat /\ stored \subseteq 1..Len(at)
      BY DEF TypeOK
    <3>2. stored' = stored \/ stored' = stored \cup {Len(at')}
      BY <1>2 DEF Stamp
    <3>3. 1..Len(at) \subseteq 1..Len(at') /\ Len(at') \in 1..Len(at')
      BY <2>1, <3>1
    <3> QED BY <3>1, <3>2, <3>3
  <2>3. at' \in Seq(0..MaxTime)
    BY <2>1 DEF TypeOK
  <2>4. TypeOK'
    BY <1>2, <2>2, <2>3 DEF Stamp, scroll, TypeOK
  <2>5. \A m \in stored : Created(m, store)' = Created(m, store)
    BY <2>1, Kept
  <2> QED BY <1>2, <2>4, <2>5 DEF Stamp, scroll, CursorInv, TypeOK
<1>3. ASSUME NEW m \in 1..Len(at), Commit(m) PROVE Inv'
  <2>1. TypeOK'
    BY <1>3 DEF Commit, scroll, TypeOK
  <2> QED BY <1>3, <2>1 DEF Commit, scroll, CursorInv, Created, Ms
<1>4. CASE Clear
  <2>1. PICK t \in Instant(store) : cleared' = Ms(t)
    BY <1>4 DEF Clear
  <2>2. cleared' \in 0..MaxTime
    <3>1. t \in Nat /\ t <= MaxTime
      BY HistoryAssumption DEF Instant, TypeOK
    <3>2. Ms(t) \in Nat /\ Ms(t) <= t
      BY <3>1, MsType
    <3> QED BY <2>1, <3>1, <3>2, HistoryAssumption
  <2>3. hidden' \subseteq asOf'
    BY <1>4 DEF Clear, Hides, TypeOK
  <2>4. TypeOK'
    BY <1>4, <2>2, <2>3 DEF Clear, rows, TypeOK
  <2> QED BY <1>4, <2>4 DEF Clear, rows, CursorInv, Created, Ms
<1>5. CASE Open
  <2>1. TypeOK'
    BY <1>5 DEF Open, Hides, rows, TypeOK
  <2> QED BY <1>5, <2>1 DEF Open, rows, CursorInv, Created, Ms
<1>6. CASE LookUp
  <2>1. TypeOK'
    BY <1>6 DEF LookUp, rows, TypeOK
  <2> QED BY <1>6, <2>1 DEF LookUp, rows, CursorInv, Created, Ms
<1>7. CASE Select
  <2>1. PICK p \in SUBSET stored :
          /\ IF store = "postgres" THEN PagePostgres(p, cursor, after, limit)
                                   ELSE PageMemory(p, cursor, after, limit)
          /\ page' = p
    BY <1>7 DEF Select
  <2>2. p \subseteq Matching(store, cursor, after)
    BY <2>1 DEF TypeOK, PagePostgres, PageMemory, IsNewest
  <2>3. cursor # Null => \A m \in p : Created(m, store) < cursor
    BY <2>2 DEF Matching, Earlier
  <2>4. store = "postgres" => Cardinality(p) <= MaxLimit
    <3> SUFFICES ASSUME store = "postgres" PROVE Cardinality(p) <= MaxLimit
      OBVIOUS
    <3> DEFINE ms == Matching("postgres", cursor, after)
    <3>1. ms \subseteq 1..Len(at) /\ Len(at) \in Nat
      <4>1. Len(at) \in Nat /\ stored \subseteq 1..Len(at)
        BY DEF TypeOK
      <4> QED BY <4>1 DEF Matching
    <3>2. IsFiniteSet(1..Len(at))
      BY <3>1, FS_Interval
    <3>3. IsFiniteSet(ms)
      BY <3>1, <3>2, FS_Subset
    <3>4. limit \in Nat \cup {Null}
      BY HistoryAssumption DEF TypeOK
    <3> QED BY <2>1, <3>3, <3>4, PageBounded DEF PagePostgres
  <2>5. TypeOK'
    BY <1>7, <2>1, <2>4 DEF Select, rows, TypeOK
  <2> QED BY <1>7, <2>1, <2>3, <2>5 DEF Select, rows, CursorInv, Created, Ms
<1>8. CASE ScrollUp
  <2>1. PICK o \in page : Oldest(o) /\ cursor' = Ms(at[o])
    BY <1>8 DEF ScrollUp
  <2>2. o \in stored /\ at[o] \in Nat /\ Created(o, store) \in Nat
    BY Instants DEF TypeOK
  <2>3. Ms(at[o]) \in Nat /\ Ms(at[o]) <= at[o] /\ Ms(at[o]) <= Created(o, store)
    BY <2>2, MsType DEF Created
  <2>4. cursor' \in 0..MaxTime
    <3>1. at[o] \in 0..MaxTime
      BY <2>2, Instants
    <3> QED BY <2>1, <2>3, <3>1, HistoryAssumption
  <2>5. TypeOK'
    <3>1. Cardinality(page') <= MaxLimit
      BY <1>8, FS_EmptySet, HistoryAssumption DEF ScrollUp
    <3> QED BY <1>8, <2>4, <3>1 DEF ScrollUp, rows, TypeOK
  <2>6. \A m \in page : Created(m, store) >= cursor'
    <3> SUFFICES ASSUME NEW m \in page PROVE Created(m, store) >= Ms(at[o])
      BY <2>1
    <3>1. m \in stored /\ at[m] \in Nat /\ at[o] <= at[m]
      BY <2>1, Instants DEF TypeOK, Oldest
    <3>2. Ms(at[o]) <= Ms(at[m]) /\ Ms(at[m]) \in Nat /\ Ms(at[m]) <= at[m]
      BY <2>2, <3>1, MsType, MsMonotone
    <3> QED BY <2>3, <3>1, <3>2 DEF Created
  <2>7. \A m \in shown : Created(m, store) >= cursor'
    <3> SUFFICES ASSUME NEW m \in shown PROVE Created(m, store) >= Ms(at[o])
      BY <2>1
    <3>1. cursor # Null /\ cursor \in Nat
      BY DEF CursorInv, TypeOK
    <3>2. Created(m, store) >= cursor /\ Created(o, store) < cursor
      BY <3>1 DEF CursorInv
    <3>3. Created(m, store) \in Nat
      BY Instants DEF TypeOK
    <3> QED BY <2>2, <2>3, <3>1, <3>2, <3>3
  <2>8. cursor' # Null
    BY <2>4, HistoryAssumption
  <2> QED BY <1>8, <2>5, <2>6, <2>7, <2>8 DEF ScrollUp, rows, CursorInv, Created, Ms
<1>9. CASE Finish
  <2>1. TypeOK'
    BY <1>9 DEF Finish, rows, TypeOK
  <2> QED BY <1>9, <2>1 DEF Finish, rows, CursorInv, Created, Ms
<1>10. CASE UNCHANGED vars
  <2>1. TypeOK'
    BY <1>10 DEF vars, rows, scroll, TypeOK
  <2> QED BY <1>10, <2>1 DEF vars, rows, scroll, CursorInv, Created, Ms
<1> QED
  BY <1>1, <1>2, <1>3, <1>4, <1>5, <1>6, <1>7, <1>8, <1>9, <1>10 DEF Next

\* The inductive invariant holds of every behaviour.
THEOREM Invariance == Spec => []Inv
<1>1. Init => Inv
  BY InitInv
<1>2. Inv /\ [Next]_vars => Inv'
  BY StepInv
<1> QED BY <1>1, <1>2, PTL DEF Spec

\* Types, and the cap on what one GET of a conversation's messages answers.
THEOREM TypeCorrectness == Spec => []TypeOK
<1>1. Inv => TypeOK
  BY DEF Inv
<1> QED BY <1>1, Invariance, PTL

\* A client that scrolls up with `before` sees no message twice.
THEOREM NothingTwice == Spec => []NeverTwice
<1>1. Inv => NeverTwice
  <2> SUFFICES ASSUME Inv, NEW m \in page, m \in shown PROVE FALSE
    BY DEF NeverTwice
  <2>1. cursor # Null /\ cursor \in Nat
    BY DEF Inv, CursorInv, TypeOK
  <2>2. Created(m, store) \in Nat
    BY Instants DEF Inv, TypeOK
  <2> QED BY <2>1, <2>2 DEF Inv, CursorInv
<1> QED BY <1>1, Invariance, PTL

-----------------------------------------------------------------------------
(* The two stores.                                                         *)

\* Truncating twice is truncating once.
LEMMA MsIdempotent == ASSUME NEW t \in Nat PROVE Ms(Ms(t)) = Ms(t)
<1> DEFINE T == TicksPerMs  q == t \div T
<1>1. T \in Nat /\ T > 0
  BY HistoryAssumption
<1>2. t % T \in 0..(T - 1) /\ q \in Nat /\ t = T * q + (t % T)
  BY <1>1
<1>3. Ms(t) = T * q /\ T * q \in Nat
  <2>1. T * q \in Nat
    BY <1>1, <1>2
  <2> HIDE DEF T, q
  <2> QED BY <1>2, <2>1 DEF Ms, T
<1>4. (T * q) % T = 0
  <2> DEFINE u == T * q  r == u % T  v == u \div T
  <2>1. u \in Nat /\ r \in 0..(T - 1) /\ v \in Nat /\ u = T * v + r
    BY <1>1, <1>3
  <2>2. r = T * (q - v) /\ T * (q - v) = T * q - T * v
    BY <1>1, <1>2, <2>1
  <2>3. q - v < 1
    <3> SUFFICES ASSUME q - v >= 1 PROVE FALSE
      BY <1>2, <2>1
    <3>1. T * (q - v) >= T * 1
      BY <1>1, <1>2, <2>1
    <3> QED BY <1>1, <2>1, <2>2, <3>1
  <2>4. q - v > -1
    <3> SUFFICES ASSUME q - v <= -1 PROVE FALSE
      BY <1>2, <2>1
    <3>1. T * (q - v) <= T * (-1)
      BY <1>1, <1>2, <2>1
    <3> QED BY <1>1, <2>1, <2>2, <3>1
  <2>5. q - v = 0
    BY <1>2, <2>1, <2>3, <2>4
  <2> QED BY <1>1, <2>2, <2>5
<1> HIDE DEF q, T
<1> QED BY <1>3, <1>4 DEF Ms, T

\* Against an instant of whole milliseconds, an instant and its truncation are on the
\* same side, but for being after it within its millisecond.
LEMMA MsSides ==
  ASSUME NEW t \in Nat, NEW u \in Nat, Ms(u) = u
  PROVE  /\ t < u <=> Ms(t) < u
         /\ Ms(t) # u => (t > u <=> Ms(t) > u)
<1>1. Ms(t) \in Nat /\ Ms(t) <= t
  BY MsType
<1>2. u <= t => u <= Ms(t)
  BY MsMonotone
<1> QED BY <1>1, <1>2

\* cleared_at is in whole milliseconds.
ClearsOK == cleared # Null => cleared = Ms(cleared)

\* Every step keeps it so.
LEMMA StepClears == Inv /\ ClearsOK /\ [Next]_vars => ClearsOK'
<1> SUFFICES ASSUME Inv, ClearsOK, [Next]_vars PROVE ClearsOK'
  OBVIOUS
<1>1. CASE Clear
  <2>1. PICK t \in Instant(store) : cleared' = Ms(t)
    BY <1>1 DEF Clear
  <2>2. t \in Nat
    BY HistoryAssumption DEF Instant, Inv, TypeOK
  <2>3. Ms(cleared)' = Ms(cleared')
    BY DEF Ms
  <2> QED BY <2>1, <2>2, <2>3, MsIdempotent DEF ClearsOK
<1>2. CASE cleared' = cleared
  BY <1>2 DEF ClearsOK, Ms
<1> QED
  BY <1>1, <1>2
     DEF Next, vars, rows, scroll, Tick, Stamp, Commit, Open, LookUp, Select, ScrollUp, Finish

\* The same of a run.
LEMMA ClearsInvariance == Spec => [](Inv /\ ClearsOK)
<1>1. Init => ClearsOK
  BY DEF Init, ClearsOK
<1>2. Inv /\ ClearsOK /\ [Next]_vars => ClearsOK'
  BY StepClears
<1> QED BY <1>1, <1>2, Invariance, PTL DEF Spec

\* The stores match the same rows, unless one shares the millisecond of the clear.
LEMMA SameRows ==
  ASSUME Inv, ClearsOK, \A m \in stored : Ms(at[m]) # cleared,
         NEW b, b \in {Ms(t) : t \in 0..MaxTime} \cup {Null}
  PROVE  Matching("postgres", b, cleared) = Matching("memory", b, cleared)
<1> SUFFICES ASSUME NEW m \in stored
             PROVE  /\ Earlier(at[m], b) <=> Earlier(Ms(at[m]), b)
                    /\ Later(at[m], cleared) <=> Later(Ms(at[m]), cleared)
  BY DEF Matching, Created
<1>1. at[m] \in Nat
  BY Instants DEF Inv
<1>2. Earlier(at[m], b) <=> Earlier(Ms(at[m]), b)
  <2>1. CASE b = Null
    BY <2>1 DEF Earlier
  <2>2. CASE b # Null
    <3>1. PICK t \in 0..MaxTime : b = Ms(t)
      BY <2>2
    <3>2. t \in Nat
      BY HistoryAssumption
    <3>3. b \in Nat /\ Ms(b) = b
      BY <3>1, <3>2, MsType, MsIdempotent
    <3> QED BY <1>1, <2>2, <3>3, MsSides DEF Earlier
  <2> QED BY <2>1, <2>2
<1>3. Later(at[m], cleared) <=> Later(Ms(at[m]), cleared)
  <2>1. CASE cleared = Null
    BY <2>1 DEF Later
  <2>2. CASE cleared # Null
    <3>1. cleared \in Nat /\ Ms(cleared) = cleared
      BY <2>2, HistoryAssumption DEF Inv, TypeOK, ClearsOK
    <3> QED BY <1>1, <2>2, <3>1, MsSides DEF Later
  <2> QED BY <2>1, <2>2
<1> QED BY <1>2, <1>3

\* The same rows give the same pages under either store, for every cursor a client
\* can hold and every limit up to the cap.
THEOREM StoresAlike == Spec => []StoresAgree
<1>1. Inv /\ ClearsOK => StoresAgree
  <2> SUFFICES ASSUME Inv, ClearsOK, \A m \in stored : Ms(at[m]) # cleared,
                      NEW b \in {Ms(t) : t \in 0..MaxTime} \cup {Null},
                      NEW n \in 1..MaxLimit, NEW p \in SUBSET stored
               PROVE  PagePostgres(p, b, cleared, n) <=> PageMemory(p, b, cleared, n)
    BY DEF StoresAgree
  <2>1. Matching("postgres", b, cleared) = Matching("memory", b, cleared)
    BY SameRows
  <2>2. n # Null /\ Clamped(n) = n
    BY HistoryAssumption DEF Clamped
  <2> QED BY <2>1, <2>2 DEF PagePostgres, PageMemory
<1> QED BY <1>1, ClearsInvariance, PTL

-----------------------------------------------------------------------------
(* Nothing is skipped.                                                     *)

\* A row of its millisecond has been shown.
Covered(m) == \E k \in shown : Ms(at[k]) = Ms(at[m])

\* What is not hidden: no cleared_at hides it, neither the reader's nor the one a
\* request has looked up.  From the cursor on, all of it is covered; before the
\* cursor, the page has the newest.
SkipInv ==
  /\ phase = "new" => asOf = {} /\ cursor = Null
  /\ \A m \in asOf \ hidden :
       /\ Later(Created(m, store), cleared)
       /\ phase = "looked" => Later(Created(m, store), after)
  /\ cursor # Null =>
       \A m \in asOf \ hidden : Created(m, store) >= cursor => Covered(m)
  /\ phase = "reading" =>
       \A m \in asOf \ hidden : Earlier(Created(m, store), cursor) =>
         m \in page \/ (page # {} /\ \A k \in page : at[m] <= at[k])
  /\ NothingSkipped

\* Steps of others: rows arrive, time passes, the reader clears, the scroll waits.
LEMMA SkipKept ==
  ASSUME Inv, SkipInv, Inv',
         UNCHANGED <<store, cursor, page, shown, asOf>>,
         \A m \in stored : at'[m] = at[m],
         hidden \subseteq hidden',
         phase' = phase \/ phase' = "looked",
         \A m \in asOf \ hidden' :
           /\ Later(Created(m, store), cleared')
           /\ phase' = "looked" => Later(Created(m, store), after')
  PROVE  SkipInv'
<1>1. asOf \subseteq stored /\ shown \subseteq stored /\ page \subseteq stored
  BY DEF Inv, TypeOK
<1>2. \A m \in asOf : /\ Created(m, store)' = Created(m, store)
                      /\ Covered(m) => Covered(m)'
  BY <1>1 DEF Created, Covered, Ms
<1>3. \A m \in asOf : Earlier(Created(m, store), cursor)' <=> Earlier(Created(m, store), cursor)
  BY <1>2 DEF Earlier
<1>4. phase' = "new" => asOf' = {} /\ cursor' = Null
  BY DEF SkipInv
<1>5. \A m \in asOf' \ hidden' :
        /\ Later(Created(m, store), cleared)'
        /\ phase' = "looked" => Later(Created(m, store), after)'
  BY <1>2 DEF Later
<1>6. cursor' # Null =>
        \A m \in asOf' \ hidden' : Created(m, store)' >= cursor' => Covered(m)'
  BY <1>2 DEF SkipInv
<1>7. phase' = "reading" =>
        \A m \in asOf' \ hidden' : Earlier(Created(m, store), cursor)' =>
          m \in page' \/ (page' # {} /\ \A k \in page' : at'[m] <= at'[k])
  BY <1>1, <1>2, <1>3 DEF SkipInv
<1>8. NothingSkipped'
  <2> SUFFICES ASSUME phase = "done", NEW m \in asOf \ hidden
               PROVE  m \in shown \/ \E k \in shown : Ms(at[k])' = Ms(at[m])'
    BY DEF NothingSkipped
  <2>1. m \in shown \/ \E k \in shown : Ms(at[k]) = Ms(at[m])
    BY DEF SkipInv, NothingSkipped
  <2> QED BY <1>1, <2>1 DEF Ms
<1> QED BY <1>4, <1>5, <1>6, <1>7, <1>8 DEF SkipInv

\* A page has the newest of the rows before its cursor, and is not empty if they are
\* not.
LEMMA PageIsNewest ==
  ASSUME Inv, NEW p \in SUBSET stored, limit \in Limit,
         IF store = "postgres" THEN PagePostgres(p, cursor, after, limit)
                               ELSE PageMemory(p, cursor, after, limit),
         NEW m \in Matching(store, cursor, after), m \notin p
  PROVE  p # {} /\ \A k \in p : at[m] <= at[k]
<1> DEFINE ms == Matching(store, cursor, after)
<1>1. PICK n \in Nat \ {0} : IsNewest(p, ms, n)
  <2>1. CASE store = "postgres"
    <3>1. Clamped(limit) \in Nat \ {0}
      BY HistoryAssumption DEF Clamped
    <3> QED BY <2>1, <3>1 DEF PagePostgres
  <2>2. CASE store # "postgres"
    <3>1. store = "memory"
      BY <2>2 DEF Inv, TypeOK
    <3>2. limit # Null /\ IsNewest(p, ms, limit)
      BY <3>1, <2>2 DEF PageMemory
    <3> QED BY <3>2, HistoryAssumption
  <2> QED BY <2>1, <2>2
<1>2. IsFiniteSet(ms)
  <2>1. Len(at) \in Nat /\ ms \subseteq 1..Len(at)
    <3>1. Len(at) \in Nat /\ stored \subseteq 1..Len(at)
      BY DEF Inv, TypeOK
    <3> QED BY <3>1 DEF Matching
  <2>2. IsFiniteSet(1..Len(at))
    BY <2>1, FS_Interval
  <2> QED BY <2>1, <2>2, FS_Subset
<1>3. Cardinality(ms) \in Nat /\ Cardinality(ms) # 0
  BY <1>2, FS_CardinalityType, FS_EmptySet
<1>4. Cardinality(p) # 0
  BY <1>1, <1>3 DEF IsNewest
<1>5. p # {}
  BY <1>4, FS_EmptySet
<1> QED BY <1>1, <1>5 DEF IsNewest

\* What begins a scroll asks for something.
LimitOK == phase # "new" => limit \in Limit

\* Every step of the scroll keeps it from skipping.
LEMMA StepSkip == Inv /\ LimitOK /\ SkipInv /\ Inv' /\ [Next]_vars => SkipInv'
<1> SUFFICES ASSUME Inv, LimitOK, SkipInv, Inv', [Next]_vars PROVE SkipInv'
  OBVIOUS
<1>1. CASE Tick \/ LookUp \/ UNCHANGED vars
  BY <1>1, SkipKept DEF SkipInv, Tick, LookUp, vars, rows, scroll
<1>2. CASE Stamp
  <2>1. at' = Append(at, now) /\ \A m \in stored : at'[m] = at[m]
    BY <1>2 DEF Stamp, Inv, TypeOK
  <2> QED BY <1>2, <2>1, SkipKept DEF SkipInv, Stamp, scroll
<1>3. ASSUME NEW m \in 1..Len(at), Commit(m) PROVE SkipInv'
  BY <1>3, SkipKept DEF SkipInv, Commit, scroll
<1>4. CASE Open
  <2>1. phase' = "asking" /\ cursor' = Null
    BY <1>4 DEF Open, SkipInv
  <2>2. \A m \in asOf' \ hidden' : Later(Created(m, store), cleared)
    BY <1>4 DEF Open, Hides
  <2>3. \A m \in asOf' \ hidden' : Later(Created(m, store), cleared)'
    BY <1>4, <2>2 DEF Open, rows, Later, Created, Ms
  <2> QED BY <2>1, <2>3 DEF SkipInv, NothingSkipped
<1>5. CASE Clear
  <2>1. /\ UNCHANGED <<rows, phase, cursor, after, page, shown, asOf>>
        /\ hidden' = hidden \cup Hides(cleared', asOf)
    BY <1>5 DEF Clear
  <2>2. \A m \in asOf \ hidden' : Later(Created(m, store), cleared')
    BY <2>1 DEF Hides
  <2>3. \A m \in asOf \ hidden' : phase' = "looked" => Later(Created(m, store), after')
    BY <2>1 DEF SkipInv
  <2> QED BY <2>1, <2>2, <2>3, SkipKept DEF rows
<1>6. CASE Select
  <2>1. PICK p \in SUBSET stored :
          /\ IF store = "postgres" THEN PagePostgres(p, cursor, after, limit)
                                   ELSE PageMemory(p, cursor, after, limit)
          /\ page' = p
    BY <1>6 DEF Select
  <2>2. phase = "looked" /\ phase' = "reading"
        /\ UNCHANGED <<rows, now, cleared, limit, cursor, after, shown, asOf, hidden>>
    BY <1>6 DEF Select
  <2>3. limit \in Limit
    BY <2>2 DEF LimitOK
  <2>4. ASSUME NEW m \in asOf \ hidden, Earlier(Created(m, store), cursor)
        PROVE  m \in p \/ (p # {} /\ \A k \in p : at[m] <= at[k])
    <3>1. m \in stored
      BY DEF Inv, TypeOK
    <3>2. Later(Created(m, store), after)
      BY <2>2 DEF SkipInv
    <3>3. m \in Matching(store, cursor, after)
      BY <2>4, <3>1, <3>2 DEF Matching
    <3> QED BY <2>1, <2>3, <3>3, PageIsNewest
  <2> QED BY <2>1, <2>2, <2>4
       DEF SkipInv, NothingSkipped, Covered, Later, Created, Ms, rows
<1>7. CASE ScrollUp
  <2>1. PICK o \in page : Oldest(o) /\ cursor' = Ms(at[o])
    BY <1>7 DEF ScrollUp
  <2>2. /\ phase = "reading" /\ phase' = "asking" /\ shown' = shown \cup page
        /\ UNCHANGED <<rows, now, cleared, limit, after, asOf, hidden>>
    BY <1>7 DEF ScrollUp
  <2>3. o \in stored /\ at[o] \in Nat /\ o \in shown'
    BY <2>2, Instants DEF Inv, TypeOK
  <2>4. ASSUME NEW m \in asOf \ hidden, Created(m, store) >= Ms(at[o])
        PROVE  \E k \in shown \cup page : Ms(at[k]) = Ms(at[m])
    <3>1. m \in stored /\ at[m] \in Nat /\ Created(m, store) \in Nat
      BY Instants DEF Inv, TypeOK
    <3>2. CASE m \in page
      BY <3>2
    <3>3. CASE Earlier(Created(m, store), cursor) /\ m \notin page
      <4>1. at[m] <= at[o]
        BY <2>2, <2>4, <3>3 DEF SkipInv
      <4>2. Ms(at[m]) <= Ms(at[o]) /\ Ms(at[m]) \in Nat /\ Ms(at[o]) \in Nat
        BY <2>3, <3>1, <4>1, MsMonotone, MsType
      <4>3. Ms(at[m]) >= Ms(at[o])
        <5>1. Ms(Ms(at[o])) = Ms(at[o])
          BY <2>3, MsIdempotent
        <5>2. CASE store = "postgres"
          <6>1. at[m] >= Ms(at[o])
            BY <2>4, <5>2 DEF Created
          <6> QED BY <3>1, <4>2, <5>1, <6>1, MsMonotone
        <5>3. CASE store # "postgres"
          BY <2>4, <5>3 DEF Created
        <5> QED BY <5>2, <5>3
      <4>4. Ms(at[m]) = Ms(at[o])
        BY <4>2, <4>3
      <4> QED BY <4>4
    <3>4. CASE ~Earlier(Created(m, store), cursor)
      <4>1. cursor # Null /\ cursor \in Nat
        BY <3>4, HistoryAssumption DEF Earlier, Inv, TypeOK
      <4>2. Created(m, store) >= cursor
        BY <3>1, <3>4, <4>1 DEF Earlier
      <4>3. Covered(m)
        BY <2>4, <4>1, <4>2 DEF SkipInv
      <4> QED BY <4>3 DEF Covered
    <3> QED BY <3>2, <3>3, <3>4
  <2> QED BY <2>1, <2>2, <2>4
       DEF SkipInv, NothingSkipped, Covered, Later, Created, Ms, rows
<1>8. CASE Finish
  <2>1. /\ phase = "reading" /\ page = {} /\ phase' = "done"
        /\ UNCHANGED <<rows, now, cleared, limit, cursor, after, page, shown, asOf, hidden>>
    BY <1>8 DEF Finish
  <2>2. ASSUME NEW m \in asOf \ hidden
        PROVE  \E k \in shown : Ms(at[k]) = Ms(at[m])
    <3>1. ~Earlier(Created(m, store), cursor)
      BY <2>1, <2>2 DEF SkipInv
    <3>2. cursor # Null /\ cursor \in Nat /\ Created(m, store) \in Nat
      <4>1. cursor # Null /\ m \in stored
        BY <3>1 DEF Earlier, Inv, TypeOK
      <4>2. cursor \in Nat
        BY <4>1, HistoryAssumption DEF Inv, TypeOK
      <4> QED BY <4>1, <4>2, Instants DEF Inv
    <3>3. Created(m, store) >= cursor
      BY <3>1, <3>2 DEF Earlier
    <3>4. Covered(m)
      BY <2>2, <3>2, <3>3 DEF SkipInv
    <3> QED BY <3>4 DEF Covered
  <2> QED BY <2>1, <2>2
       DEF SkipInv, NothingSkipped, Covered, Later, Created, Ms, rows
<1> QED BY <1>1, <1>2, <1>3, <1>4, <1>5, <1>6, <1>7, <1>8 DEF Next

\* A scroll that reached its end showed everything it began with, but what a cleared_at
\* has hidden meanwhile and what shares a millisecond with a row it showed.
THEOREM NothingIsSkipped == Spec => []NothingSkipped
<1>1. Init => LimitOK /\ SkipInv
  BY DEF Init, LimitOK, SkipInv, NothingSkipped
<1>2. Inv /\ LimitOK /\ [Next]_vars => LimitOK'
  BY DEF LimitOK, Next, vars, rows, scroll, Tick, Stamp, Commit, Clear, Open, LookUp,
     Select, ScrollUp, Finish
<1>3. Inv /\ LimitOK /\ SkipInv /\ Inv' /\ [Next]_vars => SkipInv'
  BY StepSkip
<1>4. SkipInv => NothingSkipped
  BY DEF SkipInv
<1> QED BY <1>1, <1>2, <1>3, <1>4, Invariance, PTL DEF Spec
================================================================================
