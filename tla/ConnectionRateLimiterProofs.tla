--------------------- MODULE ConnectionRateLimiterProofs ---------------------
(***************************************************************************)
(* Proofs about ConnectionRateLimiter: the burst a source can get, why an  *)
(* attempt is refused, and that the sweep cannot be observed.              *)
(***************************************************************************)
EXTENDS ConnectionRateLimiter, TLAPS

\* Appending to a log of attempts.
LEMMA AppendLog ==
  ASSUME NEW s \in Seq(Nat), NEW t \in Nat
  PROVE  /\ Append(s, t) \in Seq(Nat) /\ Len(Append(s, t)) = Len(s) + 1
         /\ Len(s) \in Nat /\ Append(s, t)[Len(s) + 1] = t
         /\ \A i \in 1..Len(s) : Append(s, t)[i] = s[i] /\ s[i] \in Nat
  OBVIOUS

\* An entry is not Null.
LEMMA NullWindow == Null \notin Windows
  BY LimiterAssumption

\* The limiter starts with every window closed and no attempt made.
LEMMA InitInv == Init => Inv
<1> SUFFICES ASSUME Init PROVE Inv
  OBVIOUS
<1>1. TypeOK
  BY DEF Init, TypeOK
<1>2. \A k \in Key : log[k] = <<>> /\ Len(log[k]) = 0 /\ windows[k] = Null
  BY DEF Init
<1>3. BurstBounded
  BY <1>2 DEF BurstBounded
<1>4. RefusedForCause
  BY LimiterAssumption DEF Init, RefusedForCause
<1>5. \A k \in Key : LogInv(k)
  <2> SUFFICES ASSUME NEW k \in Key PROVE LogInv(k)
    OBVIOUS
  <2>1. Len(log[k]) = 0 /\ windows[k] = Null /\ refused[k] = Null /\ now = 0
    BY <1>2 DEF Init
  <2> QED BY <2>1, LimiterAssumption DEF LogInv, Sorted
<1> QED BY <1>1, <1>3, <1>4, <1>5 DEF Inv

\* What Inv says of one source.
Fine(k) ==
  /\ \A i \in 1..Len(log[k]) :
       i + 2 * Limit - 1 <= Len(log[k]) => log[k][i + 2 * Limit - 1] - log[k][i] >= Window
  /\ refused[k] = now =>
       Len(log[k]) >= Limit /\ now - log[k][Len(log[k]) - Limit + 1] < Window
  /\ LogInv(k)

\* Inv, one source at a time.
LEMMA InvSources == Inv <=> TypeOK /\ \A k \in Key : Fine(k)
  BY DEF Inv, Fine, BurstBounded, RefusedForCause

\* The same, after a step.
LEMMA SourcesInvNext == ASSUME TypeOK', \A k \in Key : Fine(k)' PROVE Inv'
  BY DEF Inv, Fine, BurstBounded, RefusedForCause

\* A source nothing happens to stays fine.
LEMMA Undisturbed ==
  ASSUME NEW k \in Key, Fine(k), now' = now, windows'[k] = windows[k],
         log'[k] = log[k], refused'[k] = refused[k]
  PROVE  Fine(k)'
  BY DEF Fine, LogInv, Sorted, Over, Full

\* When a source has no window, or one that is over, everything that could count
\* against a new window is at least a window old.
LEMMA Settled ==
  ASSUME TypeOK, NEW k \in Key, LogInv(k), windows[k] # Null => Over(windows[k])
  PROVE  \A i \in 1..Len(log[k]) : i <= Len(log[k]) - Limit + 1 => now - log[k][i] >= Window
<1>1. /\ log[k] \in Seq(Nat) /\ Len(log[k]) \in Nat /\ now \in Nat
      /\ \A i \in 1..Len(log[k]) : log[k][i] \in Nat
      /\ windows[k] # Null => windows[k] \in Windows
  BY DEF TypeOK
<1>2. CASE windows[k] = Null
  BY <1>2 DEF LogInv
<1>3. CASE windows[k] # Null
  <2> DEFINE s == log[k]
             n == Len(s)
             w == windows[k]
             p == n - w.count + 1
  <2>1. w.count \in 1..Limit /\ w.windowStart \in Nat /\ now - w.windowStart >= Window
    BY <1>1, <1>3 DEF Windows, Over
  <2>2. p \in 1..n /\ s[p] = w.windowStart /\ n \in Nat
    <3>1. w.count <= n /\ s[p] = w.windowStart
      BY <1>3 DEF LogInv
    <3>2. n \in Nat
      BY <1>1
    <3> HIDE DEF n, w, s
    <3> QED BY <2>1, <3>1, <3>2, LimiterAssumption
  <2>3. ASSUME NEW i \in 1..n, i <= n - Limit + 1 PROVE now - s[i] >= Window
    <3>1. Sorted(s) /\ s[i] \in Nat
      BY <1>1 DEF LogInv
    <3>2. i <= p
      <4> HIDE DEF n, w
      <4> QED BY <2>1, <2>2, <2>3, LimiterAssumption
    <3>3. s[i] <= s[p]
      <4> HIDE DEF s, p
      <4> QED BY <2>2, <2>3, <3>1, <3>2 DEF Sorted
    <3> HIDE DEF s, w, p
    <3> QED BY <1>1, <2>1, <2>2, <3>1, <3>3, LimiterAssumption
  <2> QED BY <2>3
<1> QED BY <1>2, <1>3

\* An attempt that is let in comes at least a window after the one 2 * Limit - 1
\* before it.
LEMMA AdmittedFine ==
  ASSUME TypeOK, NEW k \in Key, Fine(k),
         \A i \in 1..Len(log[k]) : i <= Len(log[k]) + 2 - 2 * Limit => now - log[k][i] >= Window,
         log' = [log EXCEPT ![k] = Append(@, now)], UNCHANGED <<now, refused>>
  PROVE  /\ \A i \in 1..Len(log'[k]) :
              i + 2 * Limit - 1 <= Len(log'[k])
                => log'[k][i + 2 * Limit - 1] - log'[k][i] >= Window
         /\ Sorted(log'[k]) /\ \A i \in 1..Len(log'[k]) : log'[k][i] <= now'
<1> DEFINE s == log[k]
           t == log'[k]
           n == Len(s)
<1>1. s \in Seq(Nat) /\ now \in Nat /\ t = Append(s, now)
  BY DEF TypeOK
<1>2. /\ n \in Nat /\ Len(t) = n + 1 /\ t[n + 1] = now
      /\ \A i \in 1..n : t[i] = s[i] /\ s[i] \in Nat
  BY <1>1, AppendLog
<1>3. Sorted(s) /\ \A i \in 1..n : s[i] <= now
  BY DEF Fine, LogInv
<1> HIDE DEF s, t, n
<1>4. \A i \in 1..Len(t) : t[i] <= now
  BY <1>1, <1>2, <1>3
<1>5. Sorted(t)
  <2> SUFFICES ASSUME NEW i \in 1..Len(t), NEW j \in 1..Len(t), i <= j PROVE t[i] <= t[j]
    BY DEF Sorted
  <2>1. CASE j = n + 1
    BY <1>2, <1>4, <2>1
  <2>2. CASE j # n + 1
    <3>1. i \in 1..n /\ j \in 1..n
      BY <1>2, <2>2
    <3>2. s[i] <= s[j]
      BY <1>3, <3>1 DEF Sorted, n
    <3> QED BY <1>2, <3>1, <3>2
  <2> QED BY <2>1, <2>2
<1>6. ASSUME NEW i \in 1..Len(t), i + 2 * Limit - 1 <= Len(t)
      PROVE  t[i + 2 * Limit - 1] - t[i] >= Window
  <2> DEFINE j == i + 2 * Limit - 1
  <2>1. j \in 1..(n + 1) /\ i \in 1..n /\ i < j
    BY <1>2, <1>6, LimiterAssumption
  <2>2. CASE j = n + 1
    <3>1. i <= n + 2 - 2 * Limit
      BY <1>2, <2>1, <2>2, LimiterAssumption
    <3>2. now - s[i] >= Window
      BY <2>1, <3>1 DEF s, n
    <3> QED BY <1>2, <2>1, <2>2, <3>2
  <2>3. CASE j # n + 1
    <3>1. j \in 1..n
      BY <1>2, <2>1, <2>3
    <3>2. s[j] - s[i] >= Window
      BY <2>1, <3>1, <1>2 DEF Fine, s, n
    <3> QED BY <1>2, <2>1, <3>1, <3>2
  <2> QED BY <2>2, <2>3
<1> QED BY <1>4, <1>5, <1>6 DEF t

\* A new window.
LEMMA RenewStep ==
  ASSUME Inv, NEW k \in Key, Renew(k) PROVE Inv'
<1> DEFINE s == log[k]
           n == Len(s)
           t == log'[k]
<1>1. /\ TypeOK /\ Fine(k) /\ LogInv(k) /\ \A q \in Key : Fine(q)
      /\ log' = [log EXCEPT ![k] = Append(@, now)] /\ UNCHANGED <<now, refused>>
      /\ windows' = [windows EXCEPT ![k] = [count |-> 1, windowStart |-> now]]
      /\ windows[k] # Null => Over(windows[k])
  BY InvSources DEF Renew, Admitted, Fine
<1>2. /\ s \in Seq(Nat) /\ now \in Nat /\ n \in Nat /\ Len(t) = n + 1 /\ t[n + 1] = now
      /\ \A i \in 1..n : t[i] = s[i] /\ s[i] \in Nat
      /\ t \in Seq(Nat) /\ log' \in [Key -> Seq(Nat)]
  BY <1>1, AppendLog DEF TypeOK
<1>3. \A i \in 1..n : i <= n - Limit + 1 => now - s[i] >= Window
  BY <1>1, Settled
<1>4. windows'[k] = [count |-> 1, windowStart |-> now] /\ windows'[k] # Null
  <2>1. windows'[k] = [count |-> 1, windowStart |-> now]
    BY <1>1 DEF TypeOK
  <2>2. [count |-> 1, windowStart |-> now] \in Windows
    BY <1>2, LimiterAssumption DEF Windows
  <2> QED BY <2>1, <2>2, NullWindow
<1>5. TypeOK'
  <2>1. [count |-> 1, windowStart |-> now] \in Windows
    BY <1>2, LimiterAssumption DEF Windows
  <2> QED BY <1>1, <1>2, <2>1 DEF TypeOK
<1>6. refused[k] # now
  BY <1>1 DEF LogInv
<1>7. \A i \in 1..n : i <= n + 2 - 2 * Limit => now - s[i] >= Window
  <2> HIDE DEF s, n
  <2> QED BY <1>2, <1>3, LimiterAssumption
<1>8. /\ \A i \in 1..Len(t) : i + 2 * Limit - 1 <= Len(t)
                               => t[i + 2 * Limit - 1] - t[i] >= Window
      /\ Sorted(t) /\ \A i \in 1..Len(t) : t[i] <= now
  BY <1>1, <1>7, AdmittedFine
<1>9. Fine(k)'
  <2> DEFINE w == [count |-> 1, windowStart |-> now]
  <2> HIDE DEF s, n, t
  <2>1. w.count <= Len(t) /\ t[Len(t) - w.count + 1] = w.windowStart
    BY <1>2
  <2>2. \A i \in 1..Len(t) : i <= Len(t) - w.count + 1 - Limit => w.windowStart - t[i] >= Window
    BY <1>2, <1>3, LimiterAssumption
  <2>3. LogInv(k)'
    BY <1>1, <1>4, <1>6, <1>8, <2>1, <2>2 DEF LogInv, t
  <2> QED BY <1>1, <1>6, <1>8, <2>3 DEF Fine, t
<1>10. ASSUME NEW q \in Key, q # k PROVE Fine(q)'
  <2>1. windows'[q] = windows[q] /\ log'[q] = log[q]
    BY <1>1, <1>10 DEF TypeOK
  <2> QED BY <1>1, <2>1, Undisturbed
<1> QED BY <1>5, <1>9, <1>10, SourcesInvNext

\* Another attempt in a window that is not full.
LEMMA CountStep ==
  ASSUME Inv, NEW k \in Key, Count(k) PROVE Inv'
<1> DEFINE s == log[k]
           n == Len(s)
           t == log'[k]
           w == windows[k]
           v == [w EXCEPT !.count = @ + 1]
<1>1. /\ TypeOK /\ Fine(k) /\ LogInv(k) /\ \A q \in Key : Fine(q)
      /\ log' = [log EXCEPT ![k] = Append(@, now)] /\ UNCHANGED <<now, refused>>
      /\ windows' = [windows EXCEPT ![k].count = @ + 1]
      /\ w # Null /\ ~Over(w) /\ ~Full(w)
  BY InvSources DEF Count, Admitted, Fine
<1>2. /\ s \in Seq(Nat) /\ now \in Nat /\ n \in Nat /\ Len(t) = n + 1 /\ t[n + 1] = now
      /\ \A i \in 1..n : t[i] = s[i] /\ s[i] \in Nat
      /\ t \in Seq(Nat) /\ log' \in [Key -> Seq(Nat)]
  BY <1>1, AppendLog DEF TypeOK
<1>3. /\ w \in Windows /\ w.count \in Nat /\ 1 <= w.count /\ w.count < Limit
      /\ w.windowStart \in Nat /\ w.windowStart <= now
  <2>1. w \in Windows
    BY <1>1 DEF TypeOK
  <2>2. w.count \in 1..Limit /\ w.windowStart \in Nat /\ ~(w.count >= Limit)
    BY <1>1, <2>1 DEF Windows, Full
  <2>3. w.count <= n /\ s[n - w.count + 1] = w.windowStart /\ \A i \in 1..n : s[i] <= now
    BY <1>1 DEF LogInv
  <2>4. n - w.count + 1 \in 1..n
    <3> HIDE DEF n, w
    <3> QED BY <1>2, <2>2, <2>3, LimiterAssumption
  <2>5. w.windowStart <= now
    BY <2>3, <2>4
  <2> HIDE DEF w
  <2> QED BY <2>1, <2>2, <2>5, LimiterAssumption
<1>4. windows'[k] = v /\ v \in Windows /\ v.count = w.count + 1
      /\ v.windowStart = w.windowStart /\ v # Null
  <2>1. windows'[k] = v
    BY <1>1 DEF TypeOK
  <2>2. v \in Windows /\ v.count = w.count + 1 /\ v.windowStart = w.windowStart
    BY <1>3, LimiterAssumption DEF Windows
  <2> QED BY <2>1, <2>2, NullWindow
<1>5. TypeOK'
  BY <1>1, <1>2, <1>4 DEF TypeOK
<1>6. refused[k] # now
  BY <1>1 DEF LogInv
<1>a. /\ w.count <= n /\ s[n - w.count + 1] = w.windowStart
      /\ \A i \in 1..n : i <= n - w.count + 1 - Limit => w.windowStart - s[i] >= Window
  BY <1>1 DEF LogInv
<1>7. \A i \in 1..n : i <= n + 2 - 2 * Limit => now - s[i] >= Window
  <2> HIDE DEF s, n, w
  <2> SUFFICES ASSUME NEW i \in 1..n, i <= n + 2 - 2 * Limit PROVE now - s[i] >= Window
    OBVIOUS
  <2>1. i <= n - w.count + 1 - Limit
    BY <1>2, <1>3, LimiterAssumption
  <2>2. w.windowStart - s[i] >= Window
    BY <1>a, <2>1
  <2>3. s[i] \in Nat /\ now \in Nat
    BY <1>2
  <2> QED BY <1>3, <2>2, <2>3, LimiterAssumption
<1>8. /\ \A i \in 1..Len(t) : i + 2 * Limit - 1 <= Len(t)
                               => t[i + 2 * Limit - 1] - t[i] >= Window
      /\ Sorted(t) /\ \A i \in 1..Len(t) : t[i] <= now
  BY <1>1, <1>7, AdmittedFine
<1>9. Fine(k)'
  <2> HIDE DEF s, n, t, w, v
  <2>a. /\ n \in Nat /\ Len(t) = n + 1 /\ w.count \in Nat /\ 1 <= w.count
        /\ v.count = w.count + 1 /\ w.count <= n /\ Limit \in Nat /\ 1 <= Limit
    BY <1>2, <1>3, <1>4, <1>a, LimiterAssumption
  <2>b. Len(t) - v.count + 1 = n - w.count + 1 /\ n - w.count + 1 \in 1..n
    BY <2>a
  <2>1. v.count <= Len(t) /\ t[Len(t) - v.count + 1] = v.windowStart
    <3>1. t[n - w.count + 1] = s[n - w.count + 1]
      BY <1>2, <2>b
    <3> QED BY <1>4, <1>a, <2>a, <2>b, <3>1
  <2>2. ASSUME NEW i \in 1..Len(t), i <= Len(t) - v.count + 1 - Limit
        PROVE  v.windowStart - t[i] >= Window
    <3>1. i \in 1..n /\ i <= n - w.count + 1 - Limit
      BY <2>2, <2>a
    <3>2. t[i] = s[i] /\ w.windowStart - s[i] >= Window
      BY <1>2, <1>a, <3>1
    <3> QED BY <1>4, <3>2
  <2>3. LogInv(k)'
    BY <1>1, <1>4, <1>6, <1>8, <2>1, <2>2 DEF LogInv, t
  <2> QED BY <1>1, <1>6, <1>8, <2>3 DEF Fine, t
<1>10. ASSUME NEW q \in Key, q # k PROVE Fine(q)'
  <2>1. windows'[q] = windows[q] /\ log'[q] = log[q]
    BY <1>1, <1>10 DEF TypeOK
  <2> QED BY <1>1, <2>1, Undisturbed
<1> QED BY <1>5, <1>9, <1>10, SourcesInvNext

\* A refusal: the window is full, and it is open.
LEMMA RefuseStep ==
  ASSUME Inv, NEW k \in Key, Refuse(k) PROVE Inv'
<1> DEFINE s == log[k]
           n == Len(s)
           w == windows[k]
<1>1. /\ TypeOK /\ Fine(k) /\ LogInv(k) /\ \A q \in Key : Fine(q)
      /\ refused' = [refused EXCEPT ![k] = now] /\ UNCHANGED <<now, windows, log>>
      /\ w # Null /\ ~Over(w) /\ Full(w)
  BY InvSources DEF Refuse, Fine
<1>2. n \in Nat /\ now \in Nat /\ w.count = Limit /\ w.windowStart \in Nat
      /\ now - w.windowStart < Window
  BY <1>1, LimiterAssumption DEF TypeOK, Windows, Over, Full
<1>3. w.count <= n /\ s[n - w.count + 1] = w.windowStart
  BY <1>1 DEF LogInv
<1>4. refused'[k] = now /\ TypeOK'
  BY <1>1 DEF TypeOK
<1>5. n >= Limit /\ now - s[n - Limit + 1] < Window
  <2> HIDE DEF s, n, w
  <2> QED BY <1>2, <1>3, LimiterAssumption
<1>6. LogInv(k)'
  BY <1>1, <1>2, <1>4 DEF LogInv, Sorted, Over, Full
<1>7. Fine(k)'
  BY <1>1, <1>5, <1>6 DEF Fine
<1>8. ASSUME NEW q \in Key, q # k PROVE Fine(q)'
  <2>1. refused'[q] = refused[q]
    BY <1>1, <1>8 DEF TypeOK
  <2> QED BY <1>1, <2>1, Undisturbed
<1> QED BY <1>4, <1>7, <1>8, SourcesInvNext

\* The sweep drops entries, never what is still counted.
LEMMA SweepStep ==
  ASSUME Inv, Sweep PROVE Inv'
<1>1. /\ TypeOK /\ \A q \in Key : Fine(q) /\ LogInv(q)
      /\ UNCHANGED <<now, log, refused>>
  BY InvSources DEF Sweep, Fine
<1>2. TypeOK'
  BY <1>1 DEF Sweep, TypeOK
<1>3. ASSUME NEW k \in Key PROVE Fine(k)'
  <2>1. CASE windows'[k] = windows[k]
    BY <1>1, <2>1, Undisturbed
  <2>2. CASE windows'[k] # windows[k]
    <3>1. windows'[k] = Null /\ windows[k] # Null /\ Over(windows[k])
      BY <2>2 DEF Sweep, Swept
    <3>2. \A i \in 1..Len(log[k]) : i <= Len(log[k]) - Limit + 1 => now - log[k][i] >= Window
      BY <1>1, <3>1, Settled
    <3>3. refused[k] # now
      BY <1>1, <3>1 DEF LogInv
    <3> QED BY <1>1, <3>1, <3>2, <3>3 DEF Fine, LogInv, Sorted
  <2> QED BY <2>1, <2>2
<1> QED BY <1>2, <1>3, SourcesInvNext

\* Time passes: what was old enough stays so.
LEMMA TickStep ==
  ASSUME Inv, Tick PROVE Inv'
<1>1. /\ TypeOK /\ now \in Nat /\ now' = now + 1 /\ UNCHANGED <<windows, log, refused>>
      /\ \A q \in Key : Fine(q) /\ LogInv(q)
  BY InvSources DEF Tick, TypeOK, Fine
<1>2. TypeOK'
  BY <1>1 DEF TypeOK
<1>3. ASSUME NEW k \in Key PROVE Fine(k)'
  <2> DEFINE s == log[k]
             n == Len(s)
  <2>1. s \in Seq(Nat) /\ \A i \in 1..n : s[i] \in Nat
    BY <1>1 DEF TypeOK
  <2>2. refused[k] # Null => refused[k] \in Nat /\ refused[k] <= now
    BY <1>1 DEF TypeOK, LogInv
  <2>3. refused'[k] # now' /\ (refused'[k] # Null => refused'[k] <= now')
    BY <1>1, <2>2, LimiterAssumption
  <2>4. \A i \in 1..n : s[i] <= now'
    BY <1>1, <2>1 DEF LogInv
  <2>5. windows[k] = Null => \A i \in 1..n : i <= n - Limit + 1 => now' - s[i] >= Window
    <3>1. windows[k] = Null => \A i \in 1..n : i <= n - Limit + 1 => now - s[i] >= Window
      BY <1>1 DEF LogInv
    <3> HIDE DEF s, n
    <3> QED BY <1>1, <2>1, <3>1, LimiterAssumption
  <2>6. LogInv(k)'
    BY <1>1, <2>3, <2>4, <2>5 DEF LogInv, Sorted
  <2> QED BY <1>1, <2>3, <2>6 DEF Fine
<1> QED BY <1>2, <1>3, SourcesInvNext

\* Every step of the limiter preserves Inv.
LEMMA InvNext == Inv /\ [Next]_vars => Inv'
<1> SUFFICES ASSUME Inv, [Next]_vars PROVE Inv'
  OBVIOUS
<1>1. CASE UNCHANGED vars
  <2>1. TypeOK' /\ \A k \in Key : Fine(k)'
    BY <1>1, InvSources, Undisturbed DEF vars, TypeOK
  <2> QED BY <2>1, SourcesInvNext
<1> QED BY <1>1, TickStep, SweepStep, RenewStep, CountStep, RefuseStep DEF Next

\* The inductive invariant of the limiter.
THEOREM Invariance == Spec => []Inv
  BY InitInv, InvNext, PTL DEF Spec

\* Entries of the Map count at most Limit attempts.
THEOREM TypeCorrectness == Spec => []TypeOK
<1>1. Inv => TypeOK
  BY DEF Inv
<1> QED BY <1>1, Invariance, PTL

\* Of any 2 * Limit attempts let in one after the other, the first and the last are
\* at least a window apart: no source gets 2 * Limit within one window's length.
THEOREM NoLargerBurst == Spec => []BurstBounded
<1>1. Inv => BurstBounded
  BY DEF Inv
<1> QED BY <1>1, Invariance, PTL

\* A refused source had Limit attempts let in less than a window before.
THEOREM NobodyRefusedWithoutCause == Spec => []RefusedForCause
<1>1. Inv => RefusedForCause
  BY DEF Inv
<1> QED BY <1>1, Invariance, PTL

\* allow() with the sweep is FixedWindow: the sweep is a step nobody can observe.
THEOREM SweepIsTransparent == Spec => FixedWindowSpec
<1> DEFINE o == [k \in Key |-> Current(k)]
<1>1. Init => Abstract!Init
  BY DEF Init, Abstract!Init, Current
<1>2. ASSUME Inv, [Next]_vars PROVE [Abstract!Next]_(<<now, o, refused>>)
  <2>1. TypeOK /\ now \in Nat
    BY <1>2 DEF Inv, TypeOK
  <2>2. CASE UNCHANGED vars
    BY <2>2 DEF vars, Current
  <2>3. CASE Tick
    <3>1. \A k \in Key : Current(k)' =
            IF Current(k) # Null /\ now' - Current(k).windowStart >= Window THEN Null
            ELSE Current(k)
      <4> SUFFICES ASSUME NEW k \in Key
                   PROVE  Current(k)' =
                     IF Current(k) # Null /\ now' - Current(k).windowStart >= Window THEN Null
                     ELSE Current(k)
        OBVIOUS
      <4>1. windows[k] # Null => windows[k].windowStart \in Nat
        BY <2>1 DEF TypeOK, Windows
      <4> QED BY <2>1, <2>3, <4>1, LimiterAssumption DEF Tick, Current
    <3>2. Abstract!Advance
      BY <2>3, <3>1 DEF Tick, Abstract!Advance
    <3> QED BY <3>2 DEF Abstract!Next
  <2>4. CASE Sweep
    <3>1. \A k \in Key : Current(k)' = Current(k)
      <4> SUFFICES ASSUME NEW k \in Key PROVE Current(k)' = Current(k)
        OBVIOUS
      <4>1. windows[k] # Null => windows[k].windowStart \in Nat
        BY <2>1 DEF TypeOK, Windows
      <4> QED BY <2>1, <2>4, <4>1, LimiterAssumption DEF Sweep, Swept, Over, Current
    <3> QED BY <2>4, <3>1 DEF Sweep
  <2>5. ASSUME NEW k \in Key, Renew(k) PROVE Abstract!Next
    <3>1. Current(k) = Null
      BY <2>1, <2>5, LimiterAssumption DEF Renew, Over, Current, TypeOK, Windows
    <3>2. /\ windows' = [windows EXCEPT ![k] = [count |-> 1, windowStart |-> now]]
          /\ UNCHANGED <<now, refused>>
      BY <2>5 DEF Renew, Admitted
    <3>3. Current(k)' = [count |-> 1, windowStart |-> now]
      <4>1. windows'[k] = [count |-> 1, windowStart |-> now]
        BY <2>1, <3>2 DEF TypeOK
      <4>2. [count |-> 1, windowStart |-> now] \in Windows
        BY <2>1, LimiterAssumption DEF Windows
      <4> QED BY <2>1, <3>2, <4>1, <4>2, NullWindow, LimiterAssumption DEF Current
    <3>4. \A q \in Key : q # k => Current(q)' = Current(q)
      BY <2>1, <3>2 DEF Current, TypeOK
    <3>5. Abstract!Admit(k)
      BY <3>1, <3>2, <3>3, <3>4 DEF Abstract!Admit
    <3> QED BY <3>5 DEF Abstract!Next
  <2>6. ASSUME NEW k \in Key, Count(k) PROVE Abstract!Next
    <3>1. /\ Current(k) = windows[k] /\ windows[k] # Null /\ windows[k] \in Windows
          /\ windows[k].count < Limit
      BY <2>1, <2>6, LimiterAssumption DEF Count, Over, Full, Current, TypeOK, Windows
    <3>2. /\ windows' = [windows EXCEPT ![k].count = @ + 1] /\ UNCHANGED <<now, refused>>
      BY <2>6 DEF Count, Admitted
    <3>3. Current(k)' = [windows[k] EXCEPT !.count = @ + 1]
      <4> DEFINE v == [windows[k] EXCEPT !.count = @ + 1]
      <4>1. windows'[k] = v
        BY <2>1, <3>2 DEF TypeOK
      <4>2. v \in Windows /\ v.windowStart = windows[k].windowStart
        BY <3>1, LimiterAssumption DEF Windows
      <4>3. now - windows[k].windowStart < Window
        BY <2>1, <2>6, <3>1, LimiterAssumption DEF Count, Over, Windows
      <4> HIDE DEF v
      <4> QED BY <3>2, <4>1, <4>2, <4>3, NullWindow DEF Current, v
    <3>4. \A q \in Key : q # k => Current(q)' = Current(q)
      BY <2>1, <3>2 DEF Current, TypeOK
    <3>5. o' = [o EXCEPT ![k].count = @ + 1]
      BY <3>1, <3>3, <3>4
    <3>6. Abstract!Admit(k)
      BY <3>1, <3>2, <3>5 DEF Abstract!Admit
    <3> QED BY <3>6 DEF Abstract!Next
  <2>7. ASSUME NEW k \in Key, Refuse(k) PROVE Abstract!Next
    <3>1. /\ Current(k) = windows[k] /\ windows[k] # Null /\ windows[k].count = Limit
      BY <2>1, <2>7, LimiterAssumption DEF Refuse, Over, Full, Current, TypeOK, Windows
    <3>2. Abstract!Refuse(k)
      BY <2>7, <3>1 DEF Refuse, Current, Abstract!Refuse
    <3> QED BY <3>2 DEF Abstract!Next
  <2> QED BY <1>2, <2>2, <2>3, <2>4, <2>5, <2>6, <2>7 DEF Next
<1> QED BY <1>1, <1>2, Invariance, PTL DEF Spec, FixedWindowSpec, Abstract!Spec
=============================================================================
