----------------------------- MODULE DeliveryProofs -----------------------------
(***************************************************************************)
(* Proofs about Delivery, for any number of instances, sockets and         *)
(* messages, either bus and any failures: its types, who is pushed to, that*)
(* nothing is pushed twice, and that what Redis has not lost is on its way.*)
(***************************************************************************)
EXTENDS Delivery, SequenceTheorems, TLAPS

\* Books of sockets: a registry files a socket at home and under its owner, an open
\* socket is filed at an instance that runs, and one not opened yet has heard nothing.
SocketsOK ==
  /\ \A s \in Server, u \in User : \A k \in registry[s][u] : Home[k] = s /\ Owner[k] = u
  /\ \A k \in Socket :
       /\ state[k] = "open" => up[Home[k]] /\ k \in registry[Home[k]][Owner[k]]
       /\ state[k] = "new" => heard[k] = {}
       /\ \A p \in heard[k] : Owner[k] \in Member[p.msg]

Inv == TypeOK /\ SocketsOK

-----------------------------------------------------------------------------
(* Sequences of publications.                                              *)

\* At most one element of q is p.
Once(q, p) == \A i, j \in 1..Len(q) : q[i] = p /\ q[j] = p => i = j

\* What Append adds.
LEMMA AppendRange ==
  ASSUME NEW S, NEW q \in Seq(S), NEW e \in S
  PROVE  Append(q, e) \in Seq(S) /\ Range(Append(q, e)) = Range(q) \cup {e}
<1>1. Append(q, e) \in Seq(S) /\ Len(Append(q, e)) = Len(q) + 1 /\ Len(q) \in Nat
  BY AppendProperties, LenProperties
<1>2. /\ Range(q) = {q[i] : i \in 1..Len(q)}
      /\ Range(Append(q, e)) = {Append(q, e)[i] : i \in 1..(Len(q) + 1)}
  BY <1>1, RangeEquality
<1>3. /\ \A i \in 1..Len(q) : Append(q, e)[i] = q[i]
      /\ Append(q, e)[Len(q) + 1] = e
  BY AppendProperties
<1> HIDE DEF Range
<1>4. Range(Append(q, e)) \subseteq Range(q) \cup {e}
  <2> SUFFICES ASSUME NEW i \in 1..(Len(q) + 1) PROVE Append(q, e)[i] \in Range(q) \cup {e}
    BY <1>2
  <2>1. i \in 1..Len(q) \/ i = Len(q) + 1
    BY <1>1
  <2> QED BY <1>2, <1>3, <2>1
<1>5. Range(q) \cup {e} \subseteq Range(Append(q, e))
  <2>1. \A i \in 1..Len(q) : i \in 1..(Len(q) + 1)
    BY <1>1
  <2>2. Len(q) + 1 \in 1..(Len(q) + 1)
    BY <1>1
  <2> QED BY <1>2, <1>3, <2>1, <2>2
<1> QED BY <1>1, <1>4, <1>5

\* What Tail leaves.
LEMMA TailRange ==
  ASSUME NEW S, NEW q \in Seq(S), q # <<>>
  PROVE  /\ Head(q) \in S /\ Tail(q) \in Seq(S)
         /\ Range(q) = {Head(q)} \cup Range(Tail(q))
<1>1. /\ Head(q) \in S /\ Tail(q) \in Seq(S) /\ Len(Tail(q)) = Len(q) - 1
      /\ \A i \in 1..Len(Tail(q)) : Tail(q)[i] = q[i + 1]
  BY HeadTailProperties
<1>2. Len(q) \in Nat \ {0} /\ Head(q) = q[1]
  BY EmptySeq
<1>3. /\ Range(q) = {q[i] : i \in 1..Len(q)}
      /\ Range(Tail(q)) = {Tail(q)[i] : i \in 1..(Len(q) - 1)}
  BY <1>1, RangeEquality
<1> HIDE DEF Range
<1>4. Range(q) \subseteq {Head(q)} \cup Range(Tail(q))
  <2> SUFFICES ASSUME NEW i \in 1..Len(q) PROVE q[i] \in {Head(q)} \cup Range(Tail(q))
    BY <1>3
  <2>1. CASE i = 1
    BY <1>2, <2>1
  <2>2. CASE i # 1
    <3>1. i - 1 \in 1..(Len(q) - 1) /\ (i - 1) + 1 = i
      BY <1>2, <2>2
    <3>2. Tail(q)[i - 1] = q[i]
      BY <1>1, <3>1
    <3> QED BY <1>3, <3>1, <3>2
  <2> QED BY <2>1, <2>2
<1>5. {Head(q)} \cup Range(Tail(q)) \subseteq Range(q)
  <2>1. 1 \in 1..Len(q) /\ \A i \in 1..(Len(q) - 1) : i + 1 \in 1..Len(q)
    BY <1>2
  <2> QED BY <1>1, <1>2, <1>3, <2>1
<1> QED BY <1>1, <1>4, <1>5

\* Appending something else, or something new, keeps p single.
LEMMA AppendOnce ==
  ASSUME NEW S, NEW q \in Seq(S), NEW e \in S, NEW p, Once(q, p),
         e # p \/ p \notin Range(q)
  PROVE  Once(Append(q, e), p)
<1>1. /\ Len(Append(q, e)) = Len(q) + 1 /\ Len(q) \in Nat
      /\ \A i \in 1..Len(q) : Append(q, e)[i] = q[i]
      /\ Append(q, e)[Len(q) + 1] = e
  BY AppendProperties, LenProperties
<1>2. Range(q) = {q[i] : i \in 1..Len(q)}
  BY RangeEquality
<1> SUFFICES ASSUME NEW i \in 1..(Len(q) + 1), NEW j \in 1..(Len(q) + 1),
                    Append(q, e)[i] = p, Append(q, e)[j] = p
             PROVE  i = j
  BY <1>1 DEF Once
<1>3. i \in 1..Len(q) \/ i = Len(q) + 1
  BY <1>1
<1>4. j \in 1..Len(q) \/ j = Len(q) + 1
  BY <1>1
<1> QED BY <1>1, <1>2, <1>3, <1>4 DEF Once

\* Of a single p nothing is left once it was the head.
LEMMA TailOnce ==
  ASSUME NEW S, NEW q \in Seq(S), q # <<>>, NEW p, Once(q, p)
  PROVE  Once(Tail(q), p) /\ (Head(q) = p => p \notin Range(Tail(q)))
<1>1. /\ Tail(q) \in Seq(S) /\ Len(Tail(q)) = Len(q) - 1 /\ Len(q) \in Nat \ {0}
      /\ \A i \in 1..Len(Tail(q)) : Tail(q)[i] = q[i + 1]
      /\ Head(q) = q[1]
  BY HeadTailProperties, EmptySeq
<1>2. \A i \in 1..(Len(q) - 1) : i + 1 \in 1..Len(q)
  BY <1>1
<1>3. Once(Tail(q), p)
  <2> SUFFICES ASSUME NEW i \in 1..(Len(q) - 1), NEW j \in 1..(Len(q) - 1),
                      Tail(q)[i] = p, Tail(q)[j] = p
               PROVE  i = j
    BY <1>1 DEF Once
  <2>1. i + 1 = j + 1
    BY <1>1, <1>2 DEF Once
  <2> QED BY <2>1
<1>4. ASSUME Head(q) = p, p \in Range(Tail(q)) PROVE FALSE
  <2>1. PICK i \in 1..(Len(q) - 1) : Tail(q)[i] = p
    <3>1. Range(Tail(q)) = {Tail(q)[i] : i \in 1..(Len(q) - 1)}
      BY <1>1, RangeEquality
    <3> QED BY <1>4, <3>1
  <2>2. q[i + 1] = p /\ i + 1 \in 1..Len(q) /\ q[1] = p /\ 1 \in 1..Len(q)
    BY <1>1, <1>2, <1>4, <2>1
  <2>3. i + 1 = 1
    BY <2>2 DEF Once
  <2> QED BY <2>3
<1> QED BY <1>3, <1>4

\* The empty sequence.
LEMMA EmptyRange == Range(<<>>) = {} /\ \A p : Once(<<>>, p)
  BY DEF Range, Once

\* Got says that a publication is in the range of what was pushed.
LEMMA GotRange ==
  ASSUME TypeOK, NEW k \in Socket, NEW p
  PROVE  Got(k, p) <=> p \in Range(pushed[k])
<1>1. pushed[k] \in Seq(Publication)
  BY DEF TypeOK
<1>2. Range(pushed[k]) = {pushed[k][i] : i \in 1..Len(pushed[k])}
  BY <1>1, RangeEquality
<1> QED BY <1>2 DEF Got

-----------------------------------------------------------------------------
(* Types and sockets.                                                      *)

\* The steps of Next; whatever ends a process, its effect is Stop.
LEMMA Steps ==
  ASSUME [Next]_vars
  PROVE  \/ UNCHANGED vars
         \/ \E k \in Socket : Connect(k) \/ StartClosing(k) \/ Closed(k)
         \/ \E s \in Server :
              \/ RedisAccepts(s) \/ AnswerLost(s) \/ Subscribe(s) \/ Disconnect(s)
              \/ PublishLost(s) \/ Receive(s) \/ Stop(s) \/ Restart(s)
         \/ \E s \in Server, p \in Publication :
              PublishInProcess(s, p) \/ PublishToRedis(s, p) \/ Deliver(s, p)
BY DEF Next, LookupFails, IdleClientFails, SubscribeRejected, Crash

\* A fan-out keeps every channel a sequence, loses nothing that is in one, and
\* reaches every subscribed instance.
LEMMA FanOutOK ==
  ASSUME TypeOK, NEW p \in Publication, FanOut(p)
  PROVE  /\ channel' \in [Server -> Seq(Publication)]
         /\ \A q \in Server :
              /\ channel'[q] = channel[q] \/ channel'[q] = Append(channel[q], p)
              /\ Range(channel[q]) \subseteq Range(channel'[q])
              /\ subscription[q] = "made" /\ up[q] => p \in Range(channel'[q])
<1> SUFFICES ASSUME NEW q \in Server
             PROVE  /\ channel'[q] \in Seq(Publication)
                    /\ channel'[q] = channel[q] \/ channel'[q] = Append(channel[q], p)
                    /\ Range(channel[q]) \subseteq Range(channel'[q])
                    /\ subscription[q] = "made" /\ up[q] => p \in Range(channel'[q])
  BY DEF FanOut
<1>1. channel[q] \in Seq(Publication)
  BY DEF TypeOK
<1>2. CASE subscription[q] = "made" /\ up[q]
  <2>1. channel'[q] = Append(channel[q], p)
    BY <1>2 DEF FanOut
  <2> QED BY <1>1, <2>1, AppendRange
<1>3. CASE ~(subscription[q] = "made" /\ up[q])
  <2>1. channel'[q] = channel[q]
    BY <1>3 DEF FanOut
  <2> QED BY <1>1, <1>3, <2>1
<1> QED BY <1>2, <1>3

\* Who may be pushed to: open sockets of participants, at their own instance.
LEMMA TargetsOK ==
  ASSUME Inv, NEW s \in Server, NEW p \in Publication, NEW k \in Targets(s, p)
  PROVE  /\ k \in Socket /\ Home[k] = s /\ Owner[k] \in Member[p.msg]
         /\ state[k] = "open" /\ up[s]
<1>1. p.msg \in Message
  BY DEF Publication
<1>2. PICK u \in Member[p.msg] : k \in registry[s][u] /\ state[k] = "open"
  BY DEF Targets
<1>3. u \in User
  BY <1>1, DeliveryAssumption
<1>4. k \in Socket /\ Home[k] = s /\ Owner[k] = u
  BY <1>2, <1>3 DEF Inv, TypeOK, SocketsOK
<1> QED BY <1>2, <1>4 DEF Inv, SocketsOK

\* No instance has connected, published or looked up anything yet.
LEMMA InitInv == Init => Inv
<1> SUFFICES ASSUME Init PROVE Inv
  OBVIOUS
<1>1. <<>> \in Seq(Publication)
  BY EmptySeq
<1>2. TypeOK
  BY <1>1, DeliveryAssumption
     DEF Init, TypeOK, NoSockets, NoLookups, AtStart
<1>3. SocketsOK
  BY DeliveryAssumption DEF Init, SocketsOK, NoSockets
<1> QED BY <1>2, <1>3 DEF Inv

\* What a socket does, and what it means to the registry.
LEMMA SocketStep ==
  ASSUME Inv, NEW k \in Socket, Connect(k) \/ StartClosing(k) \/ Closed(k)
  PROVE  Inv'
<1>1. Home[k] \in Server /\ Owner[k] \in User
  BY DeliveryAssumption
<1>2. TypeOK'
  <2>1. state' \in [Socket -> {"new", "open", "closing", "closed"}]
    BY DEF Connect, StartClosing, Closed, Inv, TypeOK
  <2>2. registry' \in [Server -> [User -> SUBSET Socket]]
    <3>1. PICK ks \in SUBSET Socket :
            \/ registry' = [registry EXCEPT ![Home[k]][Owner[k]] = ks]
            \/ registry' = registry
      <4> DEFINE old == registry[Home[k]][Owner[k]]
      <4>1. old \cup {k} \in SUBSET Socket /\ old \ {k} \in SUBSET Socket
        BY <1>1 DEF Inv, TypeOK
      <4> QED BY <4>1 DEF Connect, StartClosing, Closed, Added, Removed
    <3> DEFINE row == [registry[Home[k]] EXCEPT ![Owner[k]] = ks]
    <3>2. row \in [User -> SUBSET Socket]
      BY <1>1 DEF Inv, TypeOK
    <3>3. registry' = [registry EXCEPT ![Home[k]] = row] \/ registry' = registry
      BY <3>1
    <3> HIDE DEF row
    <3> QED BY <1>1, <3>2, <3>3 DEF Inv, TypeOK
  <2> QED BY <2>1, <2>2
       DEF Connect, StartClosing, Closed, buses, history, Inv, TypeOK
<1>3. heard' = heard /\ up' = up
  BY DEF Connect, StartClosing, Closed, history
<1>4. CASE Connect(k)
  <2>1. /\ up[Home[k]] /\ state[k] = "new" /\ state' = [state EXCEPT ![k] = "open"]
        /\ registry' = [registry EXCEPT ![Home[k]][Owner[k]] = @ \cup {k}]
    BY <1>4 DEF Connect, Added
  <2>2. \A s \in Server, u \in User :
          registry'[s][u] = IF s = Home[k] /\ u = Owner[k] THEN registry[s][u] \cup {k}
                                                           ELSE registry[s][u]
    BY <1>1, <2>1 DEF Inv, TypeOK
  <2>3. \A j \in Socket : state'[j] = IF j = k THEN "open" ELSE state[j]
    BY <2>1 DEF Inv, TypeOK
  <2>4. \A s \in Server, u \in User : \A j \in registry'[s][u] : Home[j] = s /\ Owner[j] = u
    <3> SUFFICES ASSUME NEW s \in Server, NEW u \in User, NEW j \in registry'[s][u]
                 PROVE  Home[j] = s /\ Owner[j] = u
      OBVIOUS
    <3>1. CASE s = Home[k] /\ u = Owner[k]
      <4>1. j \in registry[s][u] \cup {k}
        BY <2>2, <3>1
      <4> QED BY <3>1, <4>1 DEF Inv, SocketsOK
    <3>2. CASE ~(s = Home[k] /\ u = Owner[k])
      <4>1. j \in registry[s][u]
        BY <2>2, <3>2
      <4> QED BY <4>1 DEF Inv, SocketsOK
    <3> QED BY <3>1, <3>2
  <2>5. ASSUME NEW j \in Socket
        PROVE  /\ state'[j] = "open" => up'[Home[j]] /\ j \in registry'[Home[j]][Owner[j]]
               /\ state'[j] = "new" => heard'[j] = {}
               /\ \A p \in heard'[j] : Owner[j] \in Member[p.msg]
    <3>1. Home[j] \in Server /\ Owner[j] \in User
      BY DeliveryAssumption
    <3> QED BY <1>3, <2>1, <2>2, <2>3, <3>1 DEF Inv, SocketsOK
  <2>6. SocketsOK'
    BY <2>4, <2>5 DEF SocketsOK
  <2> QED BY <1>2, <2>6 DEF Inv
<1>5. CASE StartClosing(k)
  <2>1. registry' = registry /\ state' = [state EXCEPT ![k] = "closing"]
    BY <1>5 DEF StartClosing
  <2>2. SocketsOK'
    BY <1>3, <2>1 DEF Inv, SocketsOK, TypeOK
  <2> QED BY <1>2, <2>2 DEF Inv
<1>6. CASE Closed(k)
  <2>1. /\ state' = [state EXCEPT ![k] = "closed"]
        /\ registry' = [registry EXCEPT ![Home[k]][Owner[k]] = @ \ {k}]
    BY <1>6 DEF Closed, Removed
  <2>2. \A s \in Server, u \in User :
          registry'[s][u] = IF s = Home[k] /\ u = Owner[k] THEN registry[s][u] \ {k}
                                                           ELSE registry[s][u]
    BY <1>1, <2>1 DEF Inv, TypeOK
  <2>3. \A j \in Socket : state'[j] = IF j = k THEN "closed" ELSE state[j]
    BY <2>1 DEF Inv, TypeOK
  <2>4. SocketsOK'
    BY <1>1, <1>3, <2>1, <2>2, <2>3, DeliveryAssumption DEF Inv, SocketsOK
  <2> QED BY <1>2, <2>4 DEF Inv
<1> QED BY <1>4, <1>5, <1>6

\* Sockets and registries stay as they are while publications travel.
LEMMA SocketsKept ==
  ASSUME Inv, UNCHANGED <<registry, state>>, \A s \in Server : up[s] => up'[s],
         \A k \in Socket :
           \/ heard'[k] \subseteq heard[k]
           \/ /\ state[k] = "open"
              /\ \A p \in heard'[k] : p \in heard[k] \/ Owner[k] \in Member[p.msg]
  PROVE  SocketsOK'
BY DeliveryAssumption DEF Inv, SocketsOK

\* Recording a publication.
LEMMA RecordOK ==
  ASSUME Inv, NEW s \in Server, NEW p \in Publication, Record(s, p)
  PROVE  /\ from' \in [Publication -> Server \cup {Null}]
         /\ heard' \in [Socket -> SUBSET Publication]
         /\ \A k \in Socket :
              heard'[k] = heard[k] \/
              (heard'[k] = heard[k] \cup {p} /\ state[k] = "open" /\ Owner[k] \in Member[p.msg]
               /\ subscription[Home[k]] = "made")
BY DEF Record, Inv, TypeOK

\* Every step keeps types and sockets in order.
LEMMA StepInv == Inv /\ [Next]_vars => Inv'
<1> SUFFICES ASSUME Inv, [Next]_vars PROVE Inv'
  OBVIOUS
<1>1. CASE UNCHANGED vars
  BY <1>1 DEF vars, buses, sockets, history, Inv, TypeOK, SocketsOK
<1>2. ASSUME NEW k \in Socket, Connect(k) \/ StartClosing(k) \/ Closed(k) PROVE Inv'
  BY <1>2, SocketStep
<1>3. ASSUME NEW s \in Server, RedisAccepts(s) PROVE Inv'
  <2>1. outbox[s] \in Seq(Publication) /\ outbox[s] # <<>>
    BY <1>3 DEF RedisAccepts, Inv, TypeOK
  <2>2. Head(outbox[s]) \in Publication /\ Tail(outbox[s]) \in Seq(Publication)
    BY <2>1, TailRange
  <2>3. channel' \in [Server -> Seq(Publication)]
    BY <1>3, <2>2, FanOutOK DEF RedisAccepts, Inv
  <2>4. TypeOK'
    BY <1>3, <2>2, <2>3 DEF RedisAccepts, sockets, history, Inv, TypeOK
  <2>5. SocketsOK'
    BY <1>3, SocketsKept DEF RedisAccepts, sockets, history
  <2> QED BY <2>4, <2>5 DEF Inv
<1>4. ASSUME NEW s \in Server, AnswerLost(s) PROVE Inv'
  <2>1. outbox[s] \in Seq(Publication) /\ outbox[s] # <<>>
    BY <1>4 DEF AnswerLost, Inv, TypeOK
  <2>2. Head(outbox[s]) \in Publication
    BY <2>1, TailRange
  <2>3. channel' \in [Server -> Seq(Publication)]
    BY <1>4, <2>2, FanOutOK DEF AnswerLost, Inv
  <2>4. TypeOK'
    BY <1>4, <2>2, <2>3 DEF AnswerLost, sockets, history, Inv, TypeOK
  <2>5. SocketsOK'
    BY <1>4, SocketsKept DEF AnswerLost, sockets, history
  <2> QED BY <2>4, <2>5 DEF Inv
<1>5. ASSUME NEW s \in Server, Subscribe(s) PROVE Inv'
  <2>1. TypeOK'
    BY <1>5 DEF Subscribe, sockets, history, Inv, TypeOK
  <2>2. SocketsOK'
    BY <1>5, SocketsKept DEF Subscribe, sockets, history
  <2> QED BY <2>1, <2>2 DEF Inv
<1>6. ASSUME NEW s \in Server, Disconnect(s) PROVE Inv'
  <2>1. <<>> \in Seq(Publication)
    BY EmptySeq
  <2>2. heard' \in [Socket -> SUBSET Publication]
        /\ \A k \in Socket : heard'[k] \subseteq heard[k]
    BY <1>6 DEF Disconnect, Unheard, Inv, TypeOK
  <2>3. TypeOK'
    BY <1>6, <2>1, <2>2 DEF Disconnect, sockets, history, Inv, TypeOK
  <2>4. SocketsOK'
    BY <1>6, <2>2, SocketsKept DEF Disconnect, sockets
  <2> QED BY <2>3, <2>4 DEF Inv
<1>7. ASSUME NEW s \in Server, PublishLost(s) PROVE Inv'
  <2>1. <<>> \in Seq(Publication)
    BY EmptySeq
  <2>2. heard' \in [Socket -> SUBSET Publication]
        /\ \A k \in Socket : heard'[k] \subseteq heard[k]
    BY <1>7 DEF PublishLost, Unsent, Inv, TypeOK
  <2>3. TypeOK'
    BY <1>7, <2>1, <2>2 DEF PublishLost, sockets, history, Inv, TypeOK
  <2>4. SocketsOK'
    BY <1>7, <2>2, SocketsKept DEF PublishLost, sockets
  <2> QED BY <2>3, <2>4 DEF Inv
<1>8. ASSUME NEW s \in Server, Receive(s) PROVE Inv'
  <2>1. channel[s] \in Seq(Publication) /\ channel[s] # <<>>
    BY <1>8 DEF Receive, Inv, TypeOK
  <2>2. Head(channel[s]) \in Publication /\ Tail(channel[s]) \in Seq(Publication)
    BY <2>1, TailRange
  <2>3. lookups' \in [Server -> [Publication -> Nat]]
    BY <1>8, <2>2 DEF Receive, Inv, TypeOK
  <2>4. TypeOK'
    BY <1>8, <2>2, <2>3 DEF Receive, sockets, history, Inv, TypeOK
  <2>5. SocketsOK'
    BY <1>8, SocketsKept DEF Receive, sockets, history
  <2> QED BY <2>4, <2>5 DEF Inv
<1>9. ASSUME NEW s \in Server, Stop(s) PROVE Inv'
  <2>1. <<>> \in Seq(Publication) /\ NoLookups \in [Publication -> Nat]
        /\ NoSockets \in [User -> SUBSET Socket] /\ AtStart \in {"asked", "made"}
    BY EmptySeq DEF NoLookups, NoSockets, AtStart
  <2>2. heard' \in [Socket -> SUBSET Publication]
        /\ \A k \in Socket : heard'[k] \subseteq heard[k]
    BY <1>9 DEF Stop, Unsent, Inv, TypeOK
  <2>3. state' \in [Socket -> {"new", "open", "closing", "closed"}]
    BY <1>9 DEF Stop, Inv, TypeOK
  <2>4. TypeOK'
    BY <1>9, <2>1, <2>2, <2>3 DEF Stop, Inv, TypeOK
  <2>5. /\ \A q \in Server : q # s => registry'[q] = registry[q] /\ up'[q] = up[q]
        /\ registry'[s] = NoSockets
    BY <1>9 DEF Stop, Inv, TypeOK
  <2>6. \A k \in Socket :
          state'[k] = IF Home[k] = s /\ state[k] # "new" THEN "closed" ELSE state[k]
    BY <1>9 DEF Stop
  <2>7. \A q \in Server, u \in User : \A k \in registry'[q][u] : Home[k] = q /\ Owner[k] = u
    BY <2>5 DEF NoSockets, Inv, SocketsOK
  <2>8. \A k \in Socket :
          state'[k] = "open" => up'[Home[k]] /\ k \in registry'[Home[k]][Owner[k]]
    <3> SUFFICES ASSUME NEW k \in Socket, state'[k] = "open"
                 PROVE  up'[Home[k]] /\ k \in registry'[Home[k]][Owner[k]]
      OBVIOUS
    <3>1. Home[k] # s /\ Home[k] \in Server /\ state[k] = "open"
      BY <2>6, DeliveryAssumption
    <3> QED BY <2>5, <3>1 DEF Inv, SocketsOK
  <2>9. \A k \in Socket : /\ state'[k] = "new" => heard'[k] = {}
                          /\ \A p \in heard'[k] : Owner[k] \in Member[p.msg]
    BY <2>2, <2>6 DEF Inv, SocketsOK
  <2>10. SocketsOK'
    BY <2>7, <2>8, <2>9 DEF SocketsOK
  <2> QED BY <2>4, <2>10 DEF Inv
<1>10. ASSUME NEW s \in Server, Restart(s) PROVE Inv'
  <2>1. TypeOK'
    BY <1>10 DEF Restart, buses, sockets, history, Inv, TypeOK
  <2>2. \A q \in Server : up[q] => up'[q]
    BY <1>10 DEF Restart, Inv, TypeOK
  <2>3. SocketsOK'
    BY <1>10, <2>2, SocketsKept DEF Restart, sockets, history
  <2> QED BY <2>1, <2>3 DEF Inv
<1>11. ASSUME NEW s \in Server, NEW p \in Publication, PublishInProcess(s, p) PROVE Inv'
  <2>1. Record(s, p)
    BY <1>11 DEF PublishInProcess
  <2>2. TypeOK'
    BY <1>11, <2>1, RecordOK DEF PublishInProcess, buses, sockets, Inv, TypeOK
  <2>3. SocketsOK'
    BY <1>11, <2>1, RecordOK, SocketsKept DEF PublishInProcess, sockets
  <2> QED BY <2>2, <2>3 DEF Inv
<1>12. ASSUME NEW s \in Server, NEW p \in Publication, PublishToRedis(s, p) PROVE Inv'
  <2>1. Record(s, p) /\ outbox[s] \in Seq(Publication)
    BY <1>12 DEF PublishToRedis, Inv, TypeOK
  <2>2. Append(outbox[s], p) \in Seq(Publication)
    BY <2>1, AppendRange
  <2>3. TypeOK'
    BY <1>12, <2>1, <2>2, RecordOK DEF PublishToRedis, sockets, Inv, TypeOK
  <2>4. SocketsOK'
    BY <1>12, <2>1, RecordOK, SocketsKept DEF PublishToRedis, sockets
  <2> QED BY <2>3, <2>4 DEF Inv
<1>13. ASSUME NEW s \in Server, NEW p \in Publication, Deliver(s, p) PROVE Inv'
  <2>1. lookups' \in [Server -> [Publication -> Nat]]
    <3>1. lookups[s][p] \in Nat /\ lookups[s][p] > 0
      BY <1>13 DEF Deliver, Inv, TypeOK
    <3>2. lookups[s][p] - 1 \in Nat
      BY <3>1
    <3> QED BY <1>13, <3>2 DEF Deliver, Settled, Inv, TypeOK
  <2>2. pushed' \in [Socket -> Seq(Publication)]
    <3>1. \A k \in Socket : /\ pushed[k] \in Seq(Publication)
                            /\ Append(pushed[k], p) \in Seq(Publication)
      BY AppendRange DEF Inv, TypeOK
    <3> QED BY <1>13, <3>1 DEF Deliver
  <2>3. TypeOK'
    BY <1>13, <2>1, <2>2 DEF Deliver, buses, sockets, history, Inv, TypeOK
  <2>4. SocketsOK'
    BY <1>13, SocketsKept DEF Deliver, sockets, history
  <2> QED BY <2>3, <2>4 DEF Inv
<1> QED
  BY <1>1, <1>2, <1>3, <1>4, <1>5, <1>6, <1>7, <1>8, <1>9, <1>10, <1>11, <1>12, <1>13, Steps

\* Types and the sockets' books hold of every behaviour.
THEOREM Invariance == Spec => []Inv
<1>1. Init => Inv
  BY InitInv
<1>2. Inv /\ [Next]_vars => Inv'
  BY StepInv
<1> QED BY <1>1, <1>2, PTL DEF Spec

\* Every variable keeps its type.
THEOREM TypeCorrectness == Spec => []TypeOK
<1>1. Inv => TypeOK
  BY DEF Inv
<1> QED BY <1>1, Invariance, PTL

-----------------------------------------------------------------------------
(* Who is pushed to.                                                       *)

\* The action of AudienceOnly.
Audience ==
  \A k \in Socket : pushed'[k] # pushed[k] =>
    /\ state[k] = "open" /\ up[Home[k]]
    /\ Owner[k] \in Member[pushed'[k][Len(pushed'[k])].msg]

\* Only Deliver pushes, and only to its targets.
LEMMA StepAudience == Inv /\ [Next]_vars => Audience \/ UNCHANGED vars
<1> SUFFICES ASSUME Inv, [Next]_vars PROVE Audience \/ UNCHANGED vars
  OBVIOUS
<1>1. ASSUME NEW s \in Server, NEW p \in Publication, Deliver(s, p) PROVE Audience
  <2> SUFFICES ASSUME NEW k \in Socket, pushed'[k] # pushed[k]
               PROVE  /\ state[k] = "open" /\ up[Home[k]]
                      /\ Owner[k] \in Member[pushed'[k][Len(pushed'[k])].msg]
    BY DEF Audience
  <2>1. k \in Targets(s, p) /\ pushed'[k] = Append(pushed[k], p)
    BY <1>1 DEF Deliver
  <2>2. pushed[k] \in Seq(Publication)
    BY DEF Inv, TypeOK
  <2>3. pushed'[k][Len(pushed'[k])] = p
    BY <2>1, <2>2, AppendProperties
  <2> QED BY <2>1, <2>3, TargetsOK
<1>2. CASE pushed' = pushed
  BY <1>2 DEF Audience
<1>3. (\E s \in Server, p \in Publication : Deliver(s, p)) \/ pushed' = pushed
  BY Steps DEF vars, Connect, StartClosing, Closed, RedisAccepts, AnswerLost, Subscribe,
     Disconnect, PublishLost, Receive, Stop, Restart, PublishInProcess, PublishToRedis
<1> QED BY <1>1, <1>2, <1>3

\* Whatever a lookup overlaps, its publication is pushed on open sockets of
\* participants only.
THEOREM ParticipantsOnly == Spec => AudienceOnly
<1>1. Inv /\ [Next]_vars => [Audience]_vars
  BY StepAudience
<1>2. Spec => [][Audience]_vars
  BY <1>1, Invariance, PTL DEF Spec
<1> QED BY <1>2 DEF AudienceOnly, Audience

-----------------------------------------------------------------------------
(* Nothing is pushed twice.                                                *)

\* An instance has p: in its channel, in a lookup, or pushed on a socket of its own.
Seen(s, p) == \E k \in Socket : Home[k] = s /\ p \in Range(pushed[k])
Reached(s, p) == p \in Range(channel[s]) \/ lookups[s][p] > 0 \/ Seen(s, p)

\* Until it is sent to Redis a second time, p is in one place on its way to an
\* instance: with its publisher and then nowhere else, in the channel once, or in
\* one lookup; and it is pushed once at the end of it.
OnTheWay(p) ==
  /\ from[p] = Null => \A s \in Server : ~Reached(s, p)
  /\ \A s \in Server :
       /\ Once(outbox[s], p)
       /\ p \in Range(outbox[s]) => from[p] = s /\ \A q \in Server : ~Reached(q, p)
       /\ Once(channel[s], p)
       /\ p \in Range(channel[s]) => lookups[s][p] = 0 /\ ~Seen(s, p)
       /\ lookups[s][p] <= 1
       /\ lookups[s][p] = 1 => ~Seen(s, p)
  /\ \A k \in Socket : Once(pushed[k], p)

OnceInv == \A p \in Publication \ repeated : OnTheWay(p)

\* Losing what is on its way, or moving nothing, sends nothing twice.
LEMMA ShrinkOnce ==
  ASSUME OnceInv, pushed' = pushed, from' = from, repeated' = repeated,
         \A s \in Server :
           /\ outbox'[s] = outbox[s] \/ outbox'[s] = <<>>
           /\ channel'[s] = channel[s] \/ channel'[s] = <<>>
           /\ lookups'[s] = lookups[s] \/ lookups'[s] = NoLookups
  PROVE  OnceInv'
<1> SUFFICES ASSUME NEW p \in Publication \ repeated PROVE OnTheWay(p)'
  BY DEF OnceInv
<1>1. OnTheWay(p)
  BY DEF OnceInv
<1>2. \A s \in Server : /\ Once(outbox'[s], p) /\ Once(channel'[s], p)
                        /\ p \in Range(outbox'[s]) => p \in Range(outbox[s])
                        /\ p \in Range(channel'[s]) => p \in Range(channel[s])
  BY <1>1, EmptyRange DEF OnTheWay
<1>3. \A s \in Server : lookups'[s][p] = lookups[s][p] \/ lookups'[s][p] = 0
  BY DEF NoLookups
<1>4. \A s \in Server : Seen(s, p)' = Seen(s, p)
  BY DEF Seen
<1>5. \A s \in Server : Reached(s, p)' => Reached(s, p)
  BY <1>2, <1>3, <1>4 DEF Reached
<1> QED BY <1>1, <1>2, <1>3, <1>4, <1>5 DEF OnTheWay

\* A payload that no instance has is fanned out once to each.
LEMMA FanOutOnce ==
  ASSUME Inv, NEW h \in Publication, FanOut(h), NEW p \in Publication, OnTheWay(p),
         p = h => from[p] # Null /\ \A s \in Server : ~Reached(s, p),
         UNCHANGED <<lookups, pushed, from>>,
         \A s \in Server :
           /\ Once(outbox'[s], p)
           /\ p \in Range(outbox'[s]) => p # h /\ p \in Range(outbox[s])
  PROVE  OnTheWay(p)'
<1>1. \A s \in Server : channel'[s] = channel[s] \/ channel'[s] = Append(channel[s], h)
  BY FanOutOK DEF Inv
<1>2. \A s \in Server : /\ Once(channel'[s], p)
                        /\ p \in Range(channel'[s]) => p \in Range(channel[s]) \/ p = h
  <2> SUFFICES ASSUME NEW s \in Server
               PROVE  /\ Once(channel'[s], p)
                      /\ p \in Range(channel'[s]) => p \in Range(channel[s]) \/ p = h
    OBVIOUS
  <2>1. channel[s] \in Seq(Publication) /\ Once(channel[s], p)
    BY DEF Inv, TypeOK, OnTheWay
  <2>2. h # p \/ p \notin Range(channel[s])
    BY DEF Reached
  <2>3. Once(Append(channel[s], h), p)
    BY <2>1, <2>2, AppendOnce
  <2>4. Range(Append(channel[s], h)) = Range(channel[s]) \cup {h}
    BY <2>1, AppendRange
  <2>5. CASE channel'[s] = channel[s]
    BY <2>1, <2>5
  <2>6. CASE channel'[s] = Append(channel[s], h)
    BY <2>3, <2>4, <2>6
  <2> QED BY <1>1, <2>5, <2>6
<1>3. \A s \in Server : Seen(s, p)' = Seen(s, p)
  BY DEF Seen
<1>4. p # h => \A s \in Server : Reached(s, p)' => Reached(s, p)
  BY <1>2, <1>3 DEF Reached
<1>5. \A s \in Server : p \in Range(channel'[s]) => lookups[s][p] = 0 /\ ~Seen(s, p)
  <2> SUFFICES ASSUME NEW s \in Server, p \in Range(channel'[s])
               PROVE  lookups[s][p] = 0 /\ ~Seen(s, p)
    OBVIOUS
  <2>1. CASE p = h
    <3>1. ~Reached(s, p) /\ lookups[s][p] \in Nat
      BY <2>1 DEF Inv, TypeOK
    <3> QED BY <3>1 DEF Reached
  <2>2. CASE p # h
    BY <1>2, <2>2 DEF OnTheWay
  <2> QED BY <2>1, <2>2
<1> QED BY <1>2, <1>3, <1>4, <1>5 DEF OnTheWay

\* Every step keeps a publication in one place.
LEMMA StepOnce == Inv /\ OnceInv /\ [Next]_vars => OnceInv'
<1> SUFFICES ASSUME Inv, OnceInv, [Next]_vars PROVE OnceInv'
  OBVIOUS
<1>1. CASE UNCHANGED vars
  BY <1>1, ShrinkOnce DEF vars, buses, sockets, history
<1>2. ASSUME NEW k \in Socket, Connect(k) \/ StartClosing(k) \/ Closed(k) PROVE OnceInv'
  BY <1>2, ShrinkOnce DEF Connect, StartClosing, Closed, buses, history
<1>3. ASSUME NEW s \in Server, RedisAccepts(s) PROVE OnceInv'
  <2> DEFINE h == Head(outbox[s])
  <2>1. outbox[s] \in Seq(Publication) /\ outbox[s] # <<>>
    BY <1>3 DEF RedisAccepts, Inv, TypeOK
  <2>2. h \in Publication /\ Range(outbox[s]) = {h} \cup Range(Tail(outbox[s]))
    BY <2>1, TailRange
  <2>3. FanOut(h) /\ UNCHANGED <<lookups, pushed, from, repeated>>
        /\ outbox' = [outbox EXCEPT ![s] = Tail(outbox[s])]
    BY <1>3 DEF RedisAccepts, history
  <2> SUFFICES ASSUME NEW p \in Publication \ repeated PROVE OnTheWay(p)'
    BY <2>3 DEF OnceInv
  <2>4. OnTheWay(p)
    BY DEF OnceInv
  <2>5. Once(Tail(outbox[s]), p) /\ (h = p => p \notin Range(Tail(outbox[s])))
    BY <2>1, <2>4, TailOnce DEF OnTheWay
  <2>6. p = h => from[p] = s /\ \A q \in Server : ~Reached(q, p)
    BY <2>2, <2>4 DEF OnTheWay
  <2>7. ASSUME NEW q \in Server
        PROVE  /\ Once(outbox'[q], p)
               /\ p \in Range(outbox'[q]) => p # h /\ p \in Range(outbox[q])
    <3>1. CASE q = s
      <4>1. outbox'[q] = Tail(outbox[s])
        BY <2>3, <3>1 DEF Inv, TypeOK
      <4> QED BY <2>2, <2>5, <3>1, <4>1
    <3>2. CASE q # s
      <4>1. outbox'[q] = outbox[q]
        BY <2>3, <3>2 DEF Inv, TypeOK
      <4>2. p \in Range(outbox[q]) => from[p] = q
        BY <2>4 DEF OnTheWay
      <4> QED BY <2>4, <2>6, <3>2, <4>1, <4>2 DEF OnTheWay
    <3> QED BY <3>1, <3>2
  <2>8. p = h => from[p] # Null
    BY <2>6, DeliveryAssumption
  <2> HIDE DEF h
  <2> QED BY <2>2, <2>3, <2>4, <2>6, <2>7, <2>8, FanOutOnce
<1>4. ASSUME NEW s \in Server, AnswerLost(s) PROVE OnceInv'
  <2> DEFINE h == Head(outbox[s])
  <2>1. outbox[s] \in Seq(Publication) /\ outbox[s] # <<>>
    BY <1>4 DEF AnswerLost, Inv, TypeOK
  <2>2. h \in Publication
    BY <2>1, TailRange
  <2>3. FanOut(h) /\ UNCHANGED <<lookups, pushed, from, outbox>>
        /\ repeated' = repeated \cup {h}
    BY <1>4 DEF AnswerLost, history
  <2> SUFFICES ASSUME NEW p \in Publication \ repeated, p # h PROVE OnTheWay(p)'
    BY <2>3 DEF OnceInv
  <2>4. OnTheWay(p)
    BY DEF OnceInv
  <2>5. \A q \in Server : /\ Once(outbox'[q], p)
                          /\ p \in Range(outbox'[q]) => p # h /\ p \in Range(outbox[q])
    BY <2>3, <2>4 DEF OnTheWay
  <2> HIDE DEF h
  <2> QED BY <2>2, <2>3, <2>4, <2>5, FanOutOnce
<1>5. ASSUME NEW s \in Server, Subscribe(s) \/ Restart(s) PROVE OnceInv'
  BY <1>5, ShrinkOnce DEF Subscribe, Restart, buses, sockets, history
<1>6. ASSUME NEW s \in Server, Disconnect(s) \/ PublishLost(s) PROVE OnceInv'
  <2>1. /\ \A q \in Server : outbox'[q] = outbox[q] \/ outbox'[q] = <<>>
        /\ \A q \in Server : channel'[q] = channel[q] \/ channel'[q] = <<>>
    BY <1>6 DEF Disconnect, PublishLost, Inv, TypeOK
  <2> QED BY <1>6, <2>1, ShrinkOnce DEF Disconnect, PublishLost
<1>7. ASSUME NEW s \in Server, Stop(s) PROVE OnceInv'
  <2>1. \A q \in Server :
          /\ outbox'[q] = outbox[q] \/ outbox'[q] = <<>>
          /\ channel'[q] = channel[q] \/ channel'[q] = <<>>
          /\ lookups'[q] = lookups[q] \/ lookups'[q] = NoLookups
    BY <1>7 DEF Stop, Inv, TypeOK
  <2> QED BY <1>7, <2>1, ShrinkOnce DEF Stop
<1>8. ASSUME NEW s \in Server, Receive(s) PROVE OnceInv'
  <2> DEFINE h == Head(channel[s])
  <2>1. channel[s] \in Seq(Publication) /\ channel[s] # <<>>
    BY <1>8 DEF Receive, Inv, TypeOK
  <2>2. h \in Publication /\ Range(channel[s]) = {h} \cup Range(Tail(channel[s]))
    BY <2>1, TailRange
  <2>3. UNCHANGED <<outbox, pushed, from, repeated>>
        /\ channel' = [channel EXCEPT ![s] = Tail(channel[s])]
        /\ lookups' = [lookups EXCEPT ![s][h] = @ + 1]
    BY <1>8 DEF Receive, history
  <2> SUFFICES ASSUME NEW p \in Publication \ repeated PROVE OnTheWay(p)'
    BY <2>3 DEF OnceInv
  <2>4. OnTheWay(p)
    BY DEF OnceInv
  <2>5. Once(Tail(channel[s]), p) /\ (h = p => p \notin Range(Tail(channel[s])))
    BY <2>1, <2>4, TailOnce DEF OnTheWay
  <2>6. h = p => lookups[s][p] = 0 /\ ~Seen(s, p)
    BY <2>2, <2>4 DEF OnTheWay
  <2> HIDE DEF h
  <2>7. \A q \in Server : q # s => channel'[q] = channel[q] /\ lookups'[q] = lookups[q]
    BY <2>3 DEF Inv, TypeOK
  <2>8. channel'[s] = Tail(channel[s])
        /\ lookups'[s][p] = IF h = p THEN lookups[s][p] + 1 ELSE lookups[s][p]
    BY <2>2, <2>3 DEF Inv, TypeOK
  <2>9. \A q \in Server : Seen(q, p)' = Seen(q, p)
    BY <2>3 DEF Seen
  <2>10. \A q \in Server : Reached(q, p)' => Reached(q, p)
    BY <2>2, <2>7, <2>8, <2>9 DEF Reached
  <2>11. ASSUME NEW q \in Server
         PROVE  /\ Once(channel'[q], p)
                /\ p \in Range(channel'[q]) => lookups'[q][p] = 0 /\ ~Seen(q, p)
                /\ lookups'[q][p] <= 1
                /\ lookups'[q][p] = 1 => ~Seen(q, p)
    <3>1. CASE q = s
      BY <2>2, <2>4, <2>5, <2>6, <2>8, <3>1 DEF OnTheWay
    <3>2. CASE q # s
      BY <2>4, <2>7, <3>2 DEF OnTheWay
    <3> QED BY <3>1, <3>2
  <2> QED BY <2>3, <2>4, <2>9, <2>10, <2>11 DEF OnTheWay
<1>9. ASSUME NEW s \in Server, NEW h \in Publication, PublishInProcess(s, h) PROVE OnceInv'
  <2>1. /\ from[h] = Null /\ from' = [from EXCEPT ![h] = s]
        /\ lookups' = [lookups EXCEPT ![s][h] = @ + 1]
        /\ UNCHANGED <<outbox, channel, pushed, repeated>>
    BY <1>9 DEF PublishInProcess, Record, buses
  <2> SUFFICES ASSUME NEW p \in Publication \ repeated PROVE OnTheWay(p)'
    BY <2>1 DEF OnceInv
  <2>2. OnTheWay(p)
    BY DEF OnceInv
  <2>3. \A q \in Server : Seen(q, p)' = Seen(q, p)
    BY <2>1 DEF Seen
  <2>4. CASE p # h
    <3>1. from'[p] = from[p] /\ \A q \in Server : lookups'[q][p] = lookups[q][p]
      BY <2>1, <2>4 DEF Inv, TypeOK
    <3>2. \A q \in Server : Reached(q, p)' = Reached(q, p)
      BY <2>1, <2>3, <3>1 DEF Reached
    <3> QED BY <2>1, <2>2, <2>3, <3>1, <3>2 DEF OnTheWay
  <2>5. CASE p = h
    <3>1. \A q \in Server : ~Reached(q, p) /\ p \notin Range(outbox[q])
      BY <2>1, <2>2, <2>5, DeliveryAssumption DEF OnTheWay
    <3>2. \A q \in Server : lookups[q][p] = 0 /\ p \notin Range(channel[q]) /\ ~Seen(q, p)
      BY <3>1 DEF Reached, Inv, TypeOK
    <3>3. from'[p] # Null
      BY <2>1, <2>5, DeliveryAssumption DEF Inv, TypeOK
    <3>4. \A q \in Server : lookups'[q][p] \in {0, 1}
      BY <2>1, <2>5, <3>2 DEF Inv, TypeOK
    <3> QED BY <2>1, <2>2, <2>3, <3>1, <3>2, <3>3, <3>4 DEF OnTheWay
  <2> QED BY <2>4, <2>5
<1>10. ASSUME NEW s \in Server, NEW h \in Publication, PublishToRedis(s, h) PROVE OnceInv'
  <2>1. /\ from[h] = Null /\ from' = [from EXCEPT ![h] = s]
        /\ outbox' = [outbox EXCEPT ![s] = Append(outbox[s], h)]
        /\ UNCHANGED <<lookups, channel, pushed, repeated>>
    BY <1>10 DEF PublishToRedis, Record
  <2> SUFFICES ASSUME NEW p \in Publication \ repeated PROVE OnTheWay(p)'
    BY <2>1 DEF OnceInv
  <2>2. OnTheWay(p) /\ outbox[s] \in Seq(Publication)
    BY DEF OnceInv, Inv, TypeOK
  <2>3. \A q \in Server : Seen(q, p)' = Seen(q, p)
    BY <2>1 DEF Seen
  <2>4. \A q \in Server : Reached(q, p)' = Reached(q, p)
    BY <2>1, <2>3 DEF Reached
  <2>5. p = h => \A q \in Server : ~Reached(q, p) /\ p \notin Range(outbox[q])
    BY <2>1, <2>2, DeliveryAssumption DEF OnTheWay
  <2>6. Once(Append(outbox[s], h), p)
    BY <2>2, <2>5, AppendOnce DEF OnTheWay
  <2>7. Range(Append(outbox[s], h)) = Range(outbox[s]) \cup {h}
    BY <2>2, AppendRange
  <2>8. from'[p] = IF p = h THEN s ELSE from[p]
    BY <2>1 DEF Inv, TypeOK
  <2>9. ASSUME NEW q \in Server
        PROVE  /\ Once(outbox'[q], p)
               /\ p \in Range(outbox'[q]) => from'[p] = q /\ \A r \in Server : ~Reached(r, p)
    <3>1. CASE q = s
      <4>1. outbox'[q] = Append(outbox[s], h)
        BY <2>1, <3>1 DEF Inv, TypeOK
      <4> QED BY <2>2, <2>5, <2>6, <2>7, <2>8, <3>1, <4>1 DEF OnTheWay
    <3>2. CASE q # s
      <4>1. outbox'[q] = outbox[q]
        BY <2>1, <3>2 DEF Inv, TypeOK
      <4> QED BY <2>2, <2>5, <2>8, <4>1 DEF OnTheWay
    <3> QED BY <3>1, <3>2
  <2>10. from'[p] = Null => \A q \in Server : ~Reached(q, p)
    BY <2>2, <2>8, DeliveryAssumption DEF OnTheWay
  <2> QED BY <2>1, <2>2, <2>3, <2>4, <2>9, <2>10 DEF OnTheWay
<1>11. ASSUME NEW s \in Server, NEW h \in Publication, Deliver(s, h) PROVE OnceInv'
  <2>1. /\ lookups[s][h] > 0 /\ lookups' = [lookups EXCEPT ![s][h] = @ - 1]
        /\ UNCHANGED <<outbox, channel, from, repeated>>
        /\ \A k \in Socket : pushed'[k] = IF k \in Targets(s, h) THEN Append(pushed[k], h)
                                                                ELSE pushed[k]
    BY <1>11 DEF Deliver, Settled, buses, history
  <2> SUFFICES ASSUME NEW p \in Publication \ repeated PROVE OnTheWay(p)'
    BY <2>1 DEF OnceInv
  <2>2. OnTheWay(p)
    BY DEF OnceInv
  <2>3. \A k \in Socket :
          /\ pushed[k] \in Seq(Publication)
          /\ Range(Append(pushed[k], h)) = Range(pushed[k]) \cup {h}
    BY AppendRange DEF Inv, TypeOK
  <2>4. CASE p # h
    <3>1. \A q \in Server : lookups'[q][p] = lookups[q][p]
      BY <2>1, <2>4 DEF Inv, TypeOK
    <3>2. \A k \in Socket : p \in Range(pushed'[k]) <=> p \in Range(pushed[k])
      BY <2>1, <2>3, <2>4
    <3>3. \A q \in Server : Seen(q, p)' <=> Seen(q, p)
      BY <3>2 DEF Seen
    <3>4. \A q \in Server : Reached(q, p)' <=> Reached(q, p)
      BY <2>1, <3>1, <3>3 DEF Reached
    <3>5. \A k \in Socket : Once(pushed'[k], p)
      BY <2>1, <2>2, <2>3, <2>4, AppendOnce DEF OnTheWay
    <3> QED BY <2>1, <2>2, <3>1, <3>3, <3>4, <3>5 DEF OnTheWay
  <2>5. CASE p = h
    <3>1. lookups[s][p] = 1 /\ ~Seen(s, p) /\ lookups'[s][p] = 0
      BY <2>1, <2>2, <2>5 DEF OnTheWay, Inv, TypeOK
    <3>2. \A q \in Server : q # s => lookups'[q] = lookups[q]
      BY <2>1 DEF Inv, TypeOK
    <3>3. Reached(s, p) /\ p \notin Range(channel[s])
      BY <2>2, <3>1 DEF Reached, OnTheWay
    <3>4. \A q \in Server : p \notin Range(outbox[q])
      BY <2>2, <3>3 DEF OnTheWay
    <3>5. \A k \in Targets(s, h) : k \in Socket /\ Home[k] = s
      BY TargetsOK
    <3>6. \A q \in Server : q # s => (Seen(q, p)' <=> Seen(q, p))
      BY <2>1, <3>5 DEF Seen
    <3>7. \A k \in Socket : Once(pushed'[k], p)
      <4> SUFFICES ASSUME NEW k \in Socket PROVE Once(pushed'[k], p)
        OBVIOUS
      <4>1. CASE k \in Targets(s, h)
        <5>1. p \notin Range(pushed[k])
          BY <3>1, <3>5, <4>1 DEF Seen
        <5> QED BY <2>1, <2>2, <2>3, <4>1, <5>1, AppendOnce DEF OnTheWay
      <4>2. CASE k \notin Targets(s, h)
        BY <2>1, <2>2, <4>2 DEF OnTheWay
      <4> QED BY <4>1, <4>2
    <3>8. from[p] # Null
      BY <2>2, <3>3 DEF OnTheWay
    <3>9. ASSUME NEW q \in Server
          PROVE  /\ p \in Range(channel'[q]) => lookups'[q][p] = 0 /\ ~Seen(q, p)'
                 /\ lookups'[q][p] <= 1
                 /\ lookups'[q][p] = 1 => ~Seen(q, p)'
      <4>1. CASE q = s
        BY <2>1, <3>1, <3>3, <4>1
      <4>2. CASE q # s
        BY <2>1, <2>2, <3>2, <3>6, <4>2 DEF OnTheWay
      <4> QED BY <4>1, <4>2
    <3> QED BY <2>1, <2>2, <3>4, <3>7, <3>8, <3>9 DEF OnTheWay
  <2> QED BY <2>4, <2>5
<1> QED
  BY <1>1, <1>2, <1>3, <1>4, <1>5, <1>6, <1>7, <1>8, <1>9, <1>10, <1>11, Steps

\* A publication is pushed on a socket once, over any number of hops, instances and
\* restarts, unless Redis was sent it a second time.
THEOREM NothingTwice == Spec => []PushedOnce
<1>1. Init => OnceInv
  <2> SUFFICES ASSUME Init, NEW p \in Publication PROVE OnTheWay(p)
    BY DEF OnceInv
  <2>1. \A s \in Server : outbox[s] = <<>> /\ channel[s] = <<>> /\ lookups[s][p] = 0
    BY DEF Init, NoLookups
  <2>2. \A k \in Socket : pushed[k] = <<>>
    BY DEF Init
  <2>3. \A s \in Server : ~Seen(s, p) /\ ~Reached(s, p)
    BY <2>1, <2>2, EmptyRange DEF Seen, Reached
  <2> QED BY <2>1, <2>2, <2>3, EmptyRange DEF OnTheWay
<1>2. Inv /\ OnceInv /\ [Next]_vars => OnceInv'
  BY StepOnce
<1>3. Inv /\ OnceInv => PushedOnce
  <2> SUFFICES ASSUME Inv, OnceInv, NEW k \in Socket,
                      NEW i \in 1..Len(pushed[k]), NEW j \in 1..Len(pushed[k]),
                      i # j, pushed[k][i] = pushed[k][j], pushed[k][i] \notin repeated
               PROVE  FALSE
    BY DEF PushedOnce
  <2>1. pushed[k][i] \in Publication
    <3>1. pushed[k] \in Seq(Publication)
      BY DEF Inv, TypeOK
    <3> QED BY <3>1, ElementOfSeq
  <2>2. Once(pushed[k], pushed[k][i])
    BY <2>1 DEF OnceInv, OnTheWay
  <2> QED BY <2>2 DEF Once
<1> QED BY <1>1, <1>2, <1>3, Invariance, PTL DEF Spec

-----------------------------------------------------------------------------
(* Nothing is stranded.                                                    *)

\* Several instances share a Redis; the in-process bus is for one.
SharedBus == Redis \/ \A s, q \in Server : s = q

\* Where p is on its way to d, unless the first hop finds d deaf.
Carried(d, p) ==
  \/ \E q \in Server : p \in Range(outbox[q]) /\ subscription[d] = "made"
  \/ p \in Range(channel[d])
  \/ lookups[d][p] > 0

\* Who misses p after a step that opens no socket and takes nothing back missed it
\* before, so it was on its way.
LEMMA WasCarried ==
  ASSUME Inv, Inv', NothingStranded, NEW k \in Socket, NEW p \in heard[k],
         Misses(k, p)', state'[k] = state[k],
         Range(pushed[k]) \subseteq Range(pushed'[k])
  PROVE  Carried(Home[k], p) /\ up[Home[k]] /\ Home[k] \in Server /\ p \in Publication
<1>1. p \notin Range(pushed'[k]) /\ state[k] = "open"
  <2>1. Got(k, p)' <=> p \in Range(pushed'[k])
    <3>1. pushed'[k] \in Seq(Publication)
      BY DEF Inv, TypeOK
    <3>2. Range(pushed'[k]) = {pushed'[k][i] : i \in 1..Len(pushed'[k])}
      BY <3>1, RangeEquality
    <3> QED BY <3>2 DEF Got
  <2> QED BY <2>1 DEF Misses
<1>2. Misses(k, p)
  BY <1>1, GotRange DEF Misses, Inv
<1>3. InFlight(k, p) /\ up[Home[k]]
  BY <1>1, <1>2 DEF NothingStranded, Inv, SocketsOK
<1> QED BY <1>3, DeliveryAssumption DEF InFlight, Carried, Inv, TypeOK

\* Every step keeps what is owed on its way.
LEMMA StepStranded ==
  SharedBus /\ Inv /\ Inv' /\ NothingStranded /\ [Next]_vars => NothingStranded'
<1> SUFFICES ASSUME SharedBus, Inv, Inv', NothingStranded, [Next]_vars,
                    NEW k \in Socket, NEW p \in heard'[k], Misses(k, p)'
             PROVE  Carried(Home[k], p)'
  BY DEF NothingStranded, InFlight, Carried
<1> DEFINE d == Home[k]
<1>0. d \in Server /\ p \in Publication /\ state'[k] = "open" /\ up'[d]
  BY DeliveryAssumption DEF Misses, Inv, TypeOK, SocketsOK
<1>1. CASE UNCHANGED vars
  <2>1. Carried(d, p)
    BY <1>1, WasCarried DEF vars, sockets, history
  <2> QED BY <1>1, <2>1 DEF Carried, vars, buses
<1>2. ASSUME NEW j \in Socket, Connect(j) \/ StartClosing(j) \/ Closed(j)
      PROVE  Carried(d, p)'
  <2>1. heard' = heard /\ pushed' = pushed /\ lookups' = lookups /\ UNCHANGED buses
    BY <1>2 DEF Connect, StartClosing, Closed, history
  <2>2. state'[k] = state[k]
    <3>1. state[k] # "new"
      BY <2>1 DEF Inv, SocketsOK
    <3> QED BY <1>0, <1>2, <3>1 DEF Connect, StartClosing, Closed, Inv, TypeOK
  <2>3. Carried(d, p)
    BY <2>1, <2>2, WasCarried
  <2> QED BY <2>1, <2>3 DEF Carried, buses
<1>3. ASSUME NEW s \in Server, RedisAccepts(s) PROVE Carried(d, p)'
  <2>1. /\ Carried(d, p) /\ up[d]
        /\ UNCHANGED <<lookups, subscription>>
    BY <1>3, WasCarried DEF RedisAccepts, sockets, history
  <2>2. outbox[s] \in Seq(Publication) /\ outbox[s] # <<>>
        /\ outbox' = [outbox EXCEPT ![s] = Tail(outbox[s])]
    BY <1>3 DEF RedisAccepts, Inv, TypeOK
  <2>3. Head(outbox[s]) \in Publication
        /\ Range(outbox[s]) = {Head(outbox[s])} \cup Range(Tail(outbox[s]))
    BY <2>2, TailRange
  <2>4. /\ Range(channel[d]) \subseteq Range(channel'[d])
        /\ subscription[d] = "made" => Head(outbox[s]) \in Range(channel'[d])
    BY <1>0, <1>3, <2>1, <2>3, FanOutOK DEF RedisAccepts, Inv
  <2>5. ASSUME NEW q \in Server, p \in Range(outbox[q]), subscription[d] = "made"
        PROVE  Carried(d, p)'
    <3>1. CASE q = s /\ p = Head(outbox[s])
      BY <2>4, <2>5, <3>1 DEF Carried
    <3>2. CASE ~(q = s /\ p = Head(outbox[s]))
      <4>1. p \in Range(outbox'[q])
        BY <2>2, <2>3, <2>5, <3>2 DEF Inv, TypeOK
      <4> QED BY <2>1, <2>5, <4>1 DEF Carried
    <3> QED BY <3>1, <3>2
  <2> QED BY <2>1, <2>4, <2>5 DEF Carried
<1>4. ASSUME NEW s \in Server, AnswerLost(s) PROVE Carried(d, p)'
  <2>1. /\ Carried(d, p)
        /\ UNCHANGED <<lookups, subscription, outbox>>
    BY <1>4, WasCarried DEF AnswerLost, sockets, history
  <2>2. Head(outbox[s]) \in Publication
    BY <1>4, TailRange DEF AnswerLost, Inv, TypeOK
  <2>3. Range(channel[d]) \subseteq Range(channel'[d])
    BY <1>0, <1>4, <2>2, FanOutOK DEF AnswerLost, Inv
  <2> QED BY <2>1, <2>3 DEF Carried
<1>5. ASSUME NEW s \in Server, Subscribe(s) PROVE Carried(d, p)'
  <2>1. /\ Carried(d, p)
        /\ UNCHANGED <<lookups, channel, outbox>>
    BY <1>5, WasCarried DEF Subscribe, sockets, history
  <2>2. subscription[d] = "made" => subscription'[d] = "made"
    BY <1>0, <1>5 DEF Subscribe, Inv, TypeOK
  <2> QED BY <2>1, <2>2 DEF Carried
<1>6. ASSUME NEW s \in Server, Disconnect(s) PROVE Carried(d, p)'
  <2>1. UNCHANGED <<lookups, outbox, pushed, state>>
        /\ heard'[k] = IF d = s THEN {r \in heard[k] : lookups[s][r] > 0} ELSE heard[k]
    BY <1>6 DEF Disconnect, Unheard, sockets
  <2>2. CASE d = s
    BY <2>1, <2>2 DEF Carried
  <2>3. CASE d # s
    <3>1. Carried(d, p)
      BY <2>1, <2>3, WasCarried
    <3>2. subscription'[d] = subscription[d] /\ channel'[d] = channel[d]
      BY <1>0, <1>6, <2>3 DEF Disconnect, Inv, TypeOK
    <3> QED BY <2>1, <3>1, <3>2 DEF Carried
  <2> QED BY <2>2, <2>3
<1>7. ASSUME NEW s \in Server, PublishLost(s) PROVE Carried(d, p)'
  <2>1. UNCHANGED <<lookups, subscription, channel, pushed, state>>
        /\ heard'[k] = heard[k] \ Range(outbox[s])
        /\ \A q \in Server : q # s => outbox'[q] = outbox[q]
    BY <1>7 DEF PublishLost, Unsent, sockets, Inv, TypeOK
  <2>2. p \in heard[k] /\ p \notin Range(outbox[s])
    BY <2>1
  <2>3. Carried(d, p)
    BY <2>1, <2>2, WasCarried
  <2> QED BY <2>1, <2>2, <2>3 DEF Carried
<1>8. ASSUME NEW s \in Server, Receive(s) PROVE Carried(d, p)'
  <2> DEFINE h == Head(channel[s])
  <2>1. /\ Carried(d, p) /\ UNCHANGED <<outbox, subscription>>
        /\ channel[s] \in Seq(Publication) /\ channel[s] # <<>>
        /\ channel' = [channel EXCEPT ![s] = Tail(channel[s])]
        /\ lookups' = [lookups EXCEPT ![s][h] = @ + 1]
    BY <1>8, WasCarried DEF Receive, sockets, history, Inv, TypeOK
  <2>2. h \in Publication /\ Range(channel[s]) = {h} \cup Range(Tail(channel[s]))
    BY <2>1, TailRange
  <2> HIDE DEF h
  <2>3. lookups[d][p] \in Nat
        /\ lookups'[d][p] = IF d = s /\ p = h THEN lookups[d][p] + 1 ELSE lookups[d][p]
    BY <1>0, <2>1, <2>2 DEF Inv, TypeOK
  <2>4. p \in Range(channel[d]) => p \in Range(channel'[d]) \/ lookups'[d][p] > 0
    <3>1. channel'[d] = IF d = s THEN Tail(channel[s]) ELSE channel[d]
      BY <1>0, <2>1 DEF Inv, TypeOK
    <3> QED BY <2>2, <2>3, <3>1
  <2>5. lookups[d][p] > 0 => lookups'[d][p] > 0
    BY <2>3
  <2> QED BY <2>1, <2>4, <2>5 DEF Carried
<1>9. ASSUME NEW s \in Server, Stop(s) PROVE Carried(d, p)'
  <2>1. /\ heard'[k] = heard[k] \ Range(outbox[s]) /\ pushed' = pushed
        /\ state'[k] = IF d = s /\ state[k] # "new" THEN "closed" ELSE state[k]
        /\ \A q \in Server : q # s =>
             /\ outbox'[q] = outbox[q] /\ channel'[q] = channel[q]
             /\ lookups'[q] = lookups[q] /\ subscription'[q] = subscription[q]
    BY <1>9 DEF Stop, Unsent, Inv, TypeOK
  <2>2. d # s
    <3>1. state[k] # "new"
      BY <2>1 DEF Inv, SocketsOK
    <3> QED BY <1>0, <2>1, <3>1
  <2>3. p \in heard[k] /\ p \notin Range(outbox[s]) /\ state'[k] = state[k]
    BY <2>1, <2>2
  <2>4. Carried(d, p)
    BY <2>1, <2>3, WasCarried
  <2> QED BY <1>0, <2>1, <2>2, <2>3, <2>4 DEF Carried
<1>10. ASSUME NEW s \in Server, Restart(s) PROVE Carried(d, p)'
  <2>1. Carried(d, p)
    BY <1>10, WasCarried DEF Restart, sockets, history
  <2> QED BY <1>10, <2>1 DEF Carried, Restart, buses
<1>11. ASSUME NEW s \in Server, NEW h \in Publication, PublishInProcess(s, h)
       PROVE  Carried(d, p)'
  <2>1. /\ Record(s, h) /\ ~Redis /\ UNCHANGED <<outbox, channel, subscription, pushed, state>>
        /\ lookups' = [lookups EXCEPT ![s][h] = @ + 1]
    BY <1>11 DEF PublishInProcess, buses, sockets
  <2>2. lookups[d][p] \in Nat
        /\ lookups'[d][p] = IF d = s /\ p = h THEN lookups[d][p] + 1 ELSE lookups[d][p]
    BY <1>0, <2>1 DEF Inv, TypeOK
  <2>3. CASE p \in heard[k]
    <3>1. Carried(d, p)
      BY <2>1, <2>3, WasCarried
    <3> QED BY <2>1, <2>2, <3>1 DEF Carried
  <2>4. CASE p \notin heard[k]
    <3>1. p = h
      BY <2>1, <2>4, RecordOK
    <3>2. d = s
      BY <1>0, <2>1 DEF SharedBus
    <3> QED BY <2>2, <3>1, <3>2 DEF Carried
  <2> QED BY <2>3, <2>4
<1>12. ASSUME NEW s \in Server, NEW h \in Publication, PublishToRedis(s, h)
       PROVE  Carried(d, p)'
  <2>1. /\ Record(s, h) /\ UNCHANGED <<lookups, channel, subscription, pushed, state>>
        /\ outbox[s] \in Seq(Publication)
        /\ outbox' = [outbox EXCEPT ![s] = Append(outbox[s], h)]
    BY <1>12 DEF PublishToRedis, sockets, Inv, TypeOK
  <2>2. Range(Append(outbox[s], h)) = Range(outbox[s]) \cup {h}
    BY <2>1, AppendRange
  <2>3. \A q \in Server : Range(outbox[q]) \subseteq Range(outbox'[q])
    BY <2>1, <2>2 DEF Inv, TypeOK
  <2>4. CASE p \in heard[k]
    <3>1. Carried(d, p)
      BY <2>1, <2>4, WasCarried
    <3> QED BY <2>1, <2>3, <3>1 DEF Carried
  <2>5. CASE p \notin heard[k]
    <3>1. p = h /\ subscription[d] = "made"
      BY <2>1, <2>5, RecordOK
    <3>2. p \in Range(outbox'[s])
      BY <2>1, <2>2, <3>1 DEF Inv, TypeOK
    <3> QED BY <2>1, <3>1, <3>2 DEF Carried
  <2> QED BY <2>4, <2>5
<1>13. ASSUME NEW s \in Server, NEW h \in Publication, Deliver(s, h) PROVE Carried(d, p)'
  <2>1. /\ UNCHANGED <<outbox, channel, subscription, heard, state>>
        /\ lookups' = [lookups EXCEPT ![s][h] = @ - 1]
        /\ pushed'[k] = IF k \in Targets(s, h) THEN Append(pushed[k], h) ELSE pushed[k]
    BY <1>13 DEF Deliver, Settled, buses, sockets, history
  <2>2. pushed[k] \in Seq(Publication) /\ Range(Append(pushed[k], h)) = Range(pushed[k]) \cup {h}
    BY AppendRange DEF Inv, TypeOK
  <2>3. Range(pushed[k]) \subseteq Range(pushed'[k])
    BY <2>1, <2>2
  <2>4. Carried(d, p)
    BY <2>1, <2>3, WasCarried
  <2>5. ~(d = s /\ p = h)
    <3> SUFFICES ASSUME d = s, p = h PROVE FALSE
      OBVIOUS
    <3>1. k \in registry[s][Owner[k]] /\ Owner[k] \in Member[p.msg] /\ state[k] = "open"
      BY <1>0, <2>1 DEF Inv, SocketsOK
    <3>2. k \in Targets(s, h)
      BY <3>1 DEF Targets
    <3>3. p \in Range(pushed'[k]) /\ pushed'[k] \in Seq(Publication)
      BY <2>1, <2>2, <3>2 DEF Inv, TypeOK
    <3>4. Got(k, p)'
      <4>1. Range(pushed'[k]) = {pushed'[k][i] : i \in 1..Len(pushed'[k])}
        BY <3>3, RangeEquality
      <4> QED BY <3>3, <4>1 DEF Got
    <3> QED BY <3>4 DEF Misses
  <2>6. lookups'[d][p] = lookups[d][p]
    BY <1>0, <2>1, <2>5 DEF Inv, TypeOK
  <2> QED BY <2>1, <2>4, <2>6 DEF Carried
<1> QED
  BY <1>1, <1>2, <1>3, <1>4, <1>5, <1>6, <1>7, <1>8, <1>9, <1>10, <1>11, <1>12, <1>13, Steps

\* Where instances share a Redis, or there is one instance, a publication that Redis
\* has not lost is on its way to, or was pushed on, every open socket it is owed.
THEOREM NothingIsStranded ==
  ASSUME SharedBus
  PROVE  Spec => []NothingStranded
<1>1. Init => NothingStranded
  BY DEF Init, NothingStranded
<1>2. Inv /\ Inv' /\ NothingStranded /\ [Next]_vars => NothingStranded'
  BY StepStranded
<1> QED BY <1>1, <1>2, Invariance, PTL DEF Spec
================================================================================
