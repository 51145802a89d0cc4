------------------------- MODULE WebSocketServerProofs -------------------------
(***************************************************************************)
(* Proofs about WebSocketServer, for any number of attempts, users and     *)
(* expiries: its types, that the registry, the gauge and the timers agree, *)
(* and that no connection is closed before its token expires, as far as    *)
(* setTimeout can wait.                                                    *)
(***************************************************************************)
EXTENDS WebSocketServer, FiniteSetTheorems, TLAPS

\* Who got past the verification has an identity.
VerifiedOK ==
  \A k \in Socket :
    phase[k] \in {"verified", "open", "closing", "closed"} => identity[k] \in Identity

\* What BooksAgree and ClosedOnlyWhenExpired need to be inductive.
Inv == TypeOK /\ VerifiedOK /\ BooksAgree

\* A timer is never due before the token of its connection expires, if that is no
\* further off than setTimeout can wait.
InTime(e, t, from) == e # Null /\ (t >= e \/ e > from + MaxDelay)

\* The timer of a connection, and what closed one, was in time.
Due(k, t) ==
  /\ phase[k] \in {"open", "closing", "closed"}
  /\ InTime(identity[k].expiresAt, t, opened[k])

DueInv ==
  \A k \in Socket :
    /\ timer[k] # Null => Due(k, timer[k])
    /\ closed[k] # Null => Due(k, closed[k])

-----------------------------------------------------------------------------
(* Identities, timers and the count of live connections.                   *)

\* What a verified token says.
LEMMA IdentityType ==
  ASSUME NEW i \in Identity
  PROVE  i.userId \in User /\ i.expiresAt \in Nat \cup {Null}
BY SocketAssumption DEF Identity

\* The timer's due time is an instant, and not before the expiry it stands for.
LEMMA TimerType ==
  ASSUME now \in Nat, NEW i \in Identity
  PROVE  /\ ExpiryTimer(i) \in Nat \cup {Null}
         /\ ExpiryTimer(i) # Null => InTime(i.expiresAt, ExpiryTimer(i), now)
<1>1. CASE i.expiresAt = Null
  BY <1>1 DEF ExpiryTimer
<1>2. CASE i.expiresAt # Null
  <2> DEFINE e == i.expiresAt
  <2>1. e \in Expiry /\ e \in Nat /\ MaxDelay \in Nat \ {0}
    BY <1>2, SocketAssumption DEF Identity
  <2>2. Max0(e - now) \in Nat /\ Max0(e - now) <= e /\ Max0(e - now) >= e - now
    BY <2>1 DEF Max0
  <2>3. Delay(Max0(e - now)) \in Nat
    BY <2>1, <2>2 DEF Delay
  <2>4. Delay(Max0(e - now)) = Max0(e - now) \/ e > now + MaxDelay
    BY <2>1 DEF Delay, Max0
  <2>5. ExpiryTimer(i) = now + Delay(Max0(e - now))
    BY <1>2 DEF ExpiryTimer
  <2> HIDE DEF e
  <2>6. ExpiryTimer(i) \in Nat
    BY <2>3, <2>5
  <2>7. ExpiryTimer(i) >= e \/ e > now + MaxDelay
    BY <2>1, <2>2, <2>4, <2>5
  <2> QED BY <1>2, <2>6, <2>7 DEF e, InTime
<1> QED BY <1>1, <1>2

\* There are finitely many live connections.
LEMMA LiveFinite == IsFiniteSet(Live) /\ Cardinality(Live) \in Nat
<1>1. IsFiniteSet(Live)
  BY SocketAssumption, FS_Subset DEF Live
<1> QED BY <1>1, FS_CardinalityType

\* A step that moves nobody into or out of Live disturbs no book but the timers.
LEMMA BooksKept ==
  ASSUME BooksAgree, Live' = Live, registry' = registry, gauge' = gauge,
         \A k \in Live : identity'[k] = identity[k],
         \A k \in Socket : timer'[k] = timer[k] \/ timer'[k] = Null
  PROVE  BooksAgree'
<1>1. \A u \in User :
        registry'[u] = {k \in Live' : identity'[k] # Null /\ identity'[k].userId = u}
  BY DEF BooksAgree
<1>2. gauge' = Cardinality(Live')
  BY DEF BooksAgree
<1>3. \A k \in Socket : timer'[k] # Null => k \in Live'
  BY DEF BooksAgree
<1> QED BY <1>1, <1>2, <1>3 DEF BooksAgree

-----------------------------------------------------------------------------
(* The books.                                                              *)

\* The invariant holds before anybody connects.
LEMMA InitInv == Init => Inv
<1> SUFFICES ASSUME Init PROVE Inv
  OBVIOUS
<1>1. TypeOK /\ VerifiedOK
  BY DEF Init, TypeOK, VerifiedOK, Phase
<1>2. Live = {}
  BY DEF Init, Live
<1>3. BooksAgree
  BY <1>2, FS_EmptySet DEF Init, BooksAgree
<1> QED BY <1>1, <1>3 DEF Inv

\* The callback of handleUpgrade opens one more connection, in every book.
LEMMA OpenInv ==
  ASSUME Inv, NEW k \in Socket, HandleUpgrade(k)
  PROVE  Inv'
<1> DEFINE u == identity[k].userId
<1>1. identity[k] \in Identity /\ u \in User
  BY IdentityType DEF HandleUpgrade, Inv, VerifiedOK
<1>2. phase' = [phase EXCEPT ![k] = "open"] /\ identity' = identity /\ k \notin Live
  BY DEF HandleUpgrade, Goto, Live
<1>3. Live' = Live \cup {k}
  BY <1>2 DEF Live, Inv, TypeOK
<1>4. Cardinality(Live') = Cardinality(Live) + 1
  BY <1>2, <1>3, LiveFinite, FS_AddElement
<1>5. TypeOK'
  <2>1. ExpiryTimer(identity[k]) \in Nat \cup {Null}
    BY <1>1, TimerType DEF Inv, TypeOK
  <2>2. registry' \in [User -> SUBSET Socket] /\ gauge' \in Nat
    BY <1>1 DEF HandleUpgrade, Inv, TypeOK, Counted
  <2> QED BY <1>2, <2>1, <2>2 DEF HandleUpgrade, Inv, TypeOK, Phase
<1>6. VerifiedOK'
  BY <1>1, <1>2 DEF Inv, VerifiedOK, TypeOK
<1>7. BooksAgree'
  <2>1. ASSUME NEW v \in User
        PROVE  registry'[v] = {j \in Live' : identity'[j] # Null /\ identity'[j].userId = v}
    <3>1. registry'[v] = IF v = u THEN registry[v] \cup {k} ELSE registry[v]
      BY <1>1 DEF HandleUpgrade, Inv, TypeOK
    <3>2. registry[v] = {j \in Live : identity[j] # Null /\ identity[j].userId = v}
      BY DEF Inv, BooksAgree
    <3>3. identity[k] # Null
      BY <1>1, SocketAssumption
    <3> QED BY <1>2, <1>3, <3>1, <3>2, <3>3
  <2>2. gauge' = Cardinality(Live')
    BY <1>4, LiveFinite DEF HandleUpgrade, Counted, Inv, BooksAgree
  <2>3. \A j \in Socket : timer'[j] # Null => j \in Live'
    BY <1>3 DEF HandleUpgrade, Inv, BooksAgree, TypeOK
  <2> QED BY <2>1, <2>2, <2>3 DEF BooksAgree
<1> QED BY <1>5, <1>6, <1>7 DEF Inv

\* The close listener takes a live connection out of every book.
LEMMA CloseInv ==
  ASSUME Inv, NEW k \in Live, Close(k)
  PROVE  Inv'
<1> DEFINE u == identity[k].userId
<1>1. k \in Socket /\ identity[k] \in Identity /\ u \in User
  BY IdentityType DEF Live, Inv, VerifiedOK
<1>2. phase' = [phase EXCEPT ![k] = "closed"] /\ identity' = identity
  BY DEF Close, Goto
<1>3. Live' = Live \ {k}
  BY <1>1, <1>2 DEF Live, Inv, TypeOK
<1>4. Cardinality(Live') = Cardinality(Live) - 1
  BY <1>3, LiveFinite, FS_RemoveElement
<1>5. gauge' = Cardinality(Live') /\ gauge' \in Nat
  <2>1. IsFiniteSet(Live')
    BY <1>3, LiveFinite, FS_Subset
  <2>2. Cardinality(Live') \in Nat
    BY <2>1, FS_CardinalityType
  <2> QED BY <1>4, <2>2 DEF Close, Inv, BooksAgree
<1>6. TypeOK'
  <2>1. registry' \in [User -> SUBSET Socket]
    BY <1>1 DEF Close, Inv, TypeOK
  <2> QED BY <1>1, <1>2, <1>5, <2>1 DEF Close, ClearTimeout, Inv, TypeOK, Phase
<1>7. VerifiedOK'
  BY <1>1, <1>2 DEF Inv, VerifiedOK, TypeOK
<1>8. BooksAgree'
  <2>1. ASSUME NEW v \in User
        PROVE  registry'[v] = {j \in Live' : identity'[j] # Null /\ identity'[j].userId = v}
    <3>1. registry'[v] = IF v = u THEN registry[v] \ {k} ELSE registry[v]
      BY <1>1 DEF Close, Inv, TypeOK
    <3>2. registry[v] = {j \in Live : identity[j] # Null /\ identity[j].userId = v}
      BY DEF Inv, BooksAgree
    <3> QED BY <1>2, <1>3, <3>1, <3>2
  <2>2. \A j \in Socket : timer'[j] # Null => j \in Live'
    BY <1>1, <1>3 DEF Close, ClearTimeout, Inv, BooksAgree, TypeOK
  <2> QED BY <1>5, <2>1, <2>2 DEF BooksAgree
<1> QED BY <1>6, <1>7, <1>8 DEF Inv

\* A process that ends has nobody connected.
LEMMA CrashInv ==
  ASSUME Inv, NEW k \in Socket, Crash(k)
  PROVE  Inv'
<1>1. /\ identity' = identity /\ registry' = [u \in User |-> {}] /\ gauge' = 0
      /\ timer' = [j \in Socket |-> Null] /\ UNCHANGED <<now, opened, closed>>
      /\ serving' = "exited"
  BY DEF Crash
<1>2. /\ phase' \in [Socket -> Phase]
      /\ \A j \in Socket : /\ phase'[j] \notin {"verified", "open", "closing"}
                           /\ phase'[j] = "closed" => phase[j] \in {"open", "closing", "closed"}
  BY DEF Crash, Live, Inv, TypeOK, Phase
<1>3. TypeOK' /\ VerifiedOK'
  BY <1>1, <1>2 DEF Inv, TypeOK, VerifiedOK
<1>4. Live' = {}
  BY <1>2 DEF Live
<1>5. BooksAgree'
  BY <1>1, <1>4, FS_EmptySet DEF BooksAgree
<1> QED BY <1>3, <1>5 DEF Inv

\* Every step keeps the invariant.
LEMMA StepInv == Inv /\ [Next]_vars => Inv'
<1> SUFFICES ASSUME Inv, [Next]_vars PROVE Inv'
  OBVIOUS
<1>1. CASE Tick \/ Shutdown \/ Exit \/ UNCHANGED vars
  <2>1. TypeOK' /\ VerifiedOK'
    BY <1>1 DEF Tick, Shutdown, Exit, vars, Inv, TypeOK, VerifiedOK
  <2>2. Live' = Live /\ registry' = registry /\ gauge' = gauge /\ identity' = identity
        /\ timer' = timer
    BY <1>1 DEF Tick, Shutdown, Exit, vars, Live
  <2>3. BooksAgree'
    BY <2>2, BooksKept DEF Inv
  <2> QED BY <2>1, <2>3 DEF Inv
<1>2. ASSUME NEW k \in Socket, ClientCloses(k) PROVE Inv'
  <2>1. phase' = [phase EXCEPT ![k] = "closing"] /\ phase[k] = "open" /\ identity' = identity
    BY <1>2 DEF ClientCloses, Goto
  <2>2. TypeOK' /\ VerifiedOK'
    BY <1>2, <2>1 DEF ClientCloses, Inv, TypeOK, VerifiedOK, Phase
  <2>3. Live' = Live
    BY <2>1 DEF Live, Inv, TypeOK
  <2>4. BooksAgree'
    BY <1>2, <2>3, BooksKept DEF ClientCloses, Inv
  <2> QED BY <2>2, <2>4 DEF Inv
<1>3. ASSUME NEW k \in Socket, Upgrade(k) PROVE Inv'
  <2>1. PICK p \in {"refused", "verifying"}, i \in Identity \cup {Null} :
          phase' = [phase EXCEPT ![k] = p] /\ identity' = [identity EXCEPT ![k] = i]
    <3>1. CASE Goto(k, "refused") /\ UNCHANGED identity
      <4>1. identity' = [identity EXCEPT ![k] = identity[k]]
        BY <3>1 DEF Inv, TypeOK
      <4>2. identity[k] \in Identity \cup {Null}
        BY DEF Inv, TypeOK
      <4> QED BY <3>1, <4>1, <4>2 DEF Goto
    <3>2. CASE Goto(k, "verifying") /\
               \E i \in Identity \cup {Null} : identity' = [identity EXCEPT ![k] = i]
      BY <3>2 DEF Goto
    <3> QED BY <1>3, <3>1, <3>2 DEF Upgrade
  <2>2. phase[k] = "new"
    BY <1>3 DEF Upgrade
  <2>3. TypeOK' /\ VerifiedOK'
    BY <1>3, <2>1 DEF Upgrade, Inv, TypeOK, VerifiedOK, Phase
  <2>4. Live' = Live /\ k \notin Live
    BY <2>1, <2>2 DEF Live, Inv, TypeOK
  <2>5. \A j \in Live : identity'[j] = identity[j]
    BY <2>1, <2>4 DEF Live, Inv, TypeOK
  <2>6. BooksAgree'
    BY <1>3, <2>4, <2>5, BooksKept DEF Upgrade, Inv
  <2> QED BY <2>3, <2>6 DEF Inv
<1>4. ASSUME NEW k \in Socket, Reject(k) \/ Verify(k) \/ Abandoned(k) PROVE Inv'
  <2>1. PICK p \in {"refused", "verified"} :
          /\ phase' = [phase EXCEPT ![k] = p] /\ phase[k] \in {"verifying", "verified"}
          /\ p = "verified" => identity[k] # Null
    BY <1>4 DEF Reject, Verify, Abandoned, Goto
  <2>2. UNCHANGED <<now, serving, identity, registry, gauge, timer, opened, closed>>
    BY <1>4 DEF Reject, Verify, Abandoned
  <2>3. TypeOK' /\ VerifiedOK'
    BY <2>1, <2>2 DEF Inv, TypeOK, VerifiedOK, Phase
  <2>4. Live' = Live
    BY <2>1 DEF Live, Inv, TypeOK
  <2>5. BooksAgree'
    BY <2>2, <2>4, BooksKept DEF Inv
  <2> QED BY <2>3, <2>5 DEF Inv
<1>5. ASSUME NEW k \in Socket, HandleUpgrade(k) PROVE Inv'
  BY <1>5, OpenInv
<1>6. ASSUME NEW k \in Socket, Expire(k) PROVE Inv'
  <2>1. UNCHANGED <<now, serving, identity, registry, gauge, opened>>
        /\ timer' = [timer EXCEPT ![k] = Null]
    BY <1>6 DEF Expire
  <2>2. \/ phase[k] = "open" /\ phase' = [phase EXCEPT ![k] = "closing"]
           /\ closed' = [closed EXCEPT ![k] = now]
        \/ phase' = phase /\ closed' = closed
    BY <1>6 DEF Expire, Goto
  <2>3. TypeOK' /\ VerifiedOK'
    BY <2>1, <2>2 DEF Inv, TypeOK, VerifiedOK, Phase
  <2>4. Live' = Live
    BY <2>2 DEF Live, Inv, TypeOK
  <2>5. \A j \in Socket : timer'[j] = timer[j] \/ timer'[j] = Null
    BY <2>1 DEF Inv, TypeOK
  <2>6. BooksAgree'
    BY <2>1, <2>4, <2>5, BooksKept DEF Inv
  <2> QED BY <2>3, <2>6 DEF Inv
<1>7. ASSUME NEW k \in Socket, Finish(k) \/ Lost(k) PROVE Inv'
  <2>1. k \in Live /\ Close(k)
    BY <1>7 DEF Finish, Lost, Live
  <2> QED BY <2>1, CloseInv
<1>8. ASSUME NEW k \in Socket, Crash(k) PROVE Inv'
  BY <1>8, CrashInv
<1> QED BY <1>1, <1>2, <1>3, <1>4, <1>5, <1>6, <1>7, <1>8 DEF Next

\* The invariant of the books holds of every behaviour.
THEOREM Invariance == Spec => []Inv
<1>1. Init => Inv
  BY InitInv
<1>2. Inv /\ [Next]_vars => Inv'
  BY StepInv
<1> QED BY <1>1, <1>2, PTL DEF Spec

\* Every variable keeps its type: the gauge, above all, never goes below zero.
THEOREM TypeCorrectness == Spec => []TypeOK
<1>1. Inv => TypeOK
  BY DEF Inv
<1> QED BY <1>1, Invariance, PTL

\* Registry, gauge and timers agree on who is connected, always.
THEOREM OneTruth == Spec => []BooksAgree
<1>1. Inv => BooksAgree
  BY DEF Inv
<1> QED BY <1>1, Invariance, PTL

-----------------------------------------------------------------------------
(* Expiry.                                                                 *)

\* Every step keeps a timer from being due early.
LEMMA StepDue == Inv /\ DueInv /\ [Next]_vars => DueInv'
<1> SUFFICES ASSUME Inv, DueInv, [Next]_vars PROVE DueInv'
  OBVIOUS
<1>1. CASE Tick \/ Shutdown \/ Exit \/ UNCHANGED vars
  BY <1>1 DEF Tick, Shutdown, Exit, vars, DueInv, Due
<1>2. ASSUME NEW k \in Socket, ClientCloses(k) PROVE DueInv'
  BY <1>2 DEF ClientCloses, Goto, DueInv, Due, Inv, TypeOK
<1>3. ASSUME NEW k \in Socket, Upgrade(k) PROVE DueInv'
  <2>1. phase[k] = "new" /\ UNCHANGED <<timer, opened, closed>>
    BY <1>3 DEF Upgrade
  <2>2. \A i \in Socket : i # k => phase'[i] = phase[i] /\ identity'[i] = identity[i]
    BY <1>3 DEF Upgrade, Goto, Inv, TypeOK
  <2> QED BY <2>1, <2>2 DEF DueInv, Due
<1>4. ASSUME NEW k \in Socket, Reject(k) \/ Verify(k) \/ Abandoned(k) PROVE DueInv'
  BY <1>4 DEF Reject, Verify, Abandoned, Goto, DueInv, Due, Inv, TypeOK
<1>5. ASSUME NEW k \in Socket, HandleUpgrade(k) PROVE DueInv'
  <2>1. identity[k] \in Identity /\ identity' = identity /\ closed' = closed
        /\ opened' = [opened EXCEPT ![k] = now]
        /\ phase[k] = "verified" /\ phase' = [phase EXCEPT ![k] = "open"]
        /\ timer' = [timer EXCEPT ![k] = ExpiryTimer(identity[k])]
    BY <1>5 DEF HandleUpgrade, Goto, Inv, VerifiedOK
  <2>2. LET t == ExpiryTimer(identity[k]) IN
          t # Null => InTime(identity[k].expiresAt, t, now)
    BY <2>1, TimerType DEF Inv, TypeOK
  <2> QED BY <2>1, <2>2 DEF DueInv, Due, Inv, TypeOK
<1>6. ASSUME NEW k \in Socket, Expire(k) PROVE DueInv'
  <2>1. /\ UNCHANGED <<identity, opened>> /\ timer' = [timer EXCEPT ![k] = Null]
        /\ timer[k] # Null /\ now >= timer[k]
    BY <1>6 DEF Expire
  <2>2. Due(k, timer[k]) /\ identity[k] \in Identity
    BY <2>1 DEF DueInv, Due, Inv, VerifiedOK
  <2>3. InTime(identity[k].expiresAt, now, opened[k])
    <3>1. identity[k].expiresAt \in Nat /\ timer[k] \in Nat /\ now \in Nat
      BY <2>1, <2>2, IdentityType DEF Due, InTime, Inv, TypeOK
    <3> QED BY <2>1, <2>2, <3>1 DEF Due, InTime
  <2>4. \/ phase[k] = "open" /\ phase' = [phase EXCEPT ![k] = "closing"]
           /\ closed' = [closed EXCEPT ![k] = now]
        \/ phase' = phase /\ closed' = closed
    BY <1>6 DEF Expire, Goto
  <2> QED BY <2>1, <2>2, <2>3, <2>4 DEF DueInv, Due, Inv, TypeOK
<1>7. ASSUME NEW k \in Socket, Finish(k) \/ Lost(k) PROVE DueInv'
  BY <1>7 DEF Finish, Lost, Close, Goto, ClearTimeout, DueInv, Due, Inv, TypeOK
<1>8. ASSUME NEW k \in Socket, Crash(k) PROVE DueInv'
  <2>1. UNCHANGED <<identity, opened, closed>> /\ \A j \in Socket : timer'[j] = Null
    BY <1>8 DEF Crash
  <2>2. \A j \in Socket : phase[j] \in {"open", "closing", "closed"} => phase'[j] = "closed"
    BY <1>8 DEF Crash, Live
  <2> QED BY <2>1, <2>2 DEF DueInv, Due
<1> QED BY <1>1, <1>2, <1>3, <1>4, <1>5, <1>6, <1>7, <1>8 DEF Next

\* The server closes no connection before its token expires, but for tokens that had
\* longer to live than setTimeout can wait.
THEOREM NeverClosedEarly == Spec => []ClosedOnlyWhenExpired
<1>1. Init => DueInv
  BY DEF Init, DueInv
<1>2. Inv /\ DueInv /\ [Next]_vars => DueInv'
  BY StepDue
<1>3. DueInv => ClosedOnlyWhenExpired
  BY DEF DueInv, Due, InTime, ClosedOnlyWhenExpired
<1> QED BY <1>1, <1>2, <1>3, Invariance, PTL DEF Spec
=============================================================================
