------------------------ MODULE ConnectionRateLimiter ------------------------
(***************************************************************************)
(* The limiter in front of every WebSocket upgrade                         *)
(* (src/websocket/connection-rate-limiter.ts): a Map of windows by source  *)
(* address, and a timer that drops the ones that are over.                 *)
(***************************************************************************)
EXTENDS Integers, Sequences

CONSTANTS
  Key, Limit, Window, Null,
  MaxTime   \* bound on the clock

\* attachWebSocketServer takes 20 attempts per 60 000 ms.
Windows == [count : 1..Limit, windowStart : Nat]

ASSUME LimiterAssumption ==
  /\ Limit \in Nat \ {0} /\ Window \in Nat \ {0} /\ MaxTime \in Nat
  /\ Null \notin Int /\ Null \notin Windows

VARIABLES
  now,      \* Date.now()
  windows,  \* source -> its entry in the Map, Null if it has none
  log,      \* history: when each source's admitted attempts were made
  refused   \* history: when each source was last refused

vars == <<now, windows, log, refused>>

Init ==
  /\ now = 0
  /\ windows = [k \in Key |-> Null]
  /\ log = [k \in Key |-> <<>>]
  /\ refused = [k \in Key |-> Null]

\* Mutants: an entry outlives its window by one millisecond; one attempt too many,
\* one too few.
OverLate(w) == now - w.windowStart > Window
FullLate(w) == w.count > Limit
FullEarly(w) == w.count + 1 >= Limit

Over(w) == now - w.windowStart >= Window
Full(w) == w.count >= Limit

Tick == now < MaxTime /\ now' = now + 1 /\ UNCHANGED <<windows, log, refused>>

Admitted(k) ==
  log' = [log EXCEPT ![k] = Append(@, now)] /\ UNCHANGED <<now, refused>>

\* allow(): no entry, or one whose window is over, starts a new window.
Renew(k) ==
  /\ windows[k] # Null => Over(windows[k])
  /\ windows' = [windows EXCEPT ![k] = [count |-> 1, windowStart |-> now]]
  /\ Admitted(k)

Count(k) ==
  /\ windows[k] # Null /\ ~Over(windows[k]) /\ ~Full(windows[k])
  /\ windows' = [windows EXCEPT ![k].count = @ + 1]
  /\ Admitted(k)

Refuse(k) ==
  /\ windows[k] # Null /\ ~Over(windows[k]) /\ Full(windows[k])
  /\ refused' = [refused EXCEPT ![k] = now]
  /\ UNCHANGED <<now, windows, log>>

\* Mutants: the sweep drops every entry; it drops none.
SweptAll(w) == TRUE
SweptNever(w) == FALSE

Swept(w) == Over(w)

\* The timer's callback, whenever the event loop gets to it.
Sweep ==
  /\ windows' = [k \in Key |->
                  IF windows[k] # Null /\ Swept(windows[k]) THEN Null ELSE windows[k]]
  /\ UNCHANGED <<now, log, refused>>

Next == Tick \/ Sweep \/ \E k \in Key : Renew(k) \/ Count(k) \/ Refuse(k)

Spec == Init /\ [][Next]_vars

\* setInterval keeps firing as long as the process runs.
FairSpec == Spec /\ WF_vars(Sweep)

-----------------------------------------------------------------------------
\* Every variable has its type.
TypeOK ==
  /\ now \in Nat
  /\ windows \in [Key -> Windows \cup {Null}]
  /\ log \in [Key -> Seq(Nat)]
  /\ refused \in [Key -> Nat \cup {Null}]

\* What a source can get out of the limiter at the seam between two windows: of
\* any 2 * Limit attempts it lets in one after the other, the first and the last
\* are at least a window apart, whether or not the sweep ran in between.
BurstBounded ==
  \A k \in Key : \A i \in 1..Len(log[k]) :
    i + 2 * Limit - 1 <= Len(log[k]) =>
      log[k][i + 2 * Limit - 1] - log[k][i] >= Window

\* Nobody is refused without cause: when an attempt is refused, Limit attempts of
\* the same source were let in less than a window ago.
RefusedForCause ==
  \A k \in Key : refused[k] = now =>
    /\ Len(log[k]) >= Limit
    /\ now - log[k][Len(log[k]) - Limit + 1] < Window

\* The Map does not grow for ever: an entry whose window is over is dropped or
\* replaced.
OverEntriesGo ==
  \A k \in Key : (windows[k] # Null /\ Over(windows[k]))
                   ~> ~(windows[k] # Null /\ Over(windows[k]))

\* The sweep cannot be observed: the Map, seen through what allow() makes of an
\* entry, is FixedWindow.
Current(k) ==
  IF windows[k] # Null /\ now - windows[k].windowStart < Window THEN windows[k] ELSE Null
Abstract == INSTANCE FixedWindow WITH open <- [k \in Key |-> Current(k)]
FixedWindowSpec == Abstract!Spec

-----------------------------------------------------------------------------
(* The inductive invariant.  The attempts counted in an entry are the last *)
(* ones in the log; those a window's worth of attempts before them, and    *)
(* those before an entry that was dropped, are at least a window old.      *)

Sorted(s) == \A i, j \in 1..Len(s) : i <= j => s[i] <= s[j]

LogInv(k) ==
  LET s == log[k]  n == Len(log[k])  w == windows[k] IN
  /\ Sorted(s) /\ \A i \in 1..n : s[i] <= now
  /\ w = Null => \A i \in 1..n : i <= n - Limit + 1 => now - s[i] >= Window
  /\ w # Null =>
       /\ w.count <= n /\ s[n - w.count + 1] = w.windowStart
       /\ \A i \in 1..n : i <= n - w.count + 1 - Limit => w.windowStart - s[i] >= Window
  /\ refused[k] # Null => refused[k] <= now
  /\ refused[k] = now => w # Null /\ ~Over(w) /\ Full(w)

Inv == TypeOK /\ BurstBounded /\ RefusedForCause /\ \A k \in Key : LogInv(k)
=============================================================================
