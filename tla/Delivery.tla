------------------------------- MODULE Delivery -------------------------------
(***************************************************************************)
(* From publish() to the open sockets: a message bus (in process, or Redis *)
(* between several instances), the registry of sockets of each instance,   *)
(* and deliverToParticipants, which awaits the conversation's participants *)
(* before it pushes (src/websocket/websocket-server.ts, src/adapters/redis *)
(* and in-process).                                                        *)
(*                                                                         *)
(* What is published is a live message or its tombstone; MessagingService  *)
(* says when.  Here the live one is always published first: the other      *)
(* order is that module's, and what is shown here happens without it.      *)
(***************************************************************************)
EXTENDS Integers, Sequences, Functions

CONSTANTS
  Server,     \* instances of the service
  Socket,     \* connections, each made once
  User, Message, Null,
  Owner,      \* socket -> the user its token verified as
  Home,       \* socket -> the instance the load balancer chose for it
  Member,     \* message -> participants of its conversation
  Redis,      \* whether instances share a RedisMessageBus
  Failures    \* which of "query", "idle", "redis" and "crash" may happen

Publication == [msg : Message, kind : {"live", "tombstone"}]

ASSUME DeliveryAssumption ==
  /\ Owner \in [Socket -> User] /\ Home \in [Socket -> Server]
  /\ Member \in [Message -> SUBSET User]
  /\ Redis \in BOOLEAN /\ Failures \subseteq {"query", "idle", "redis", "crash"}
  /\ Null \notin Server

VARIABLES
  up,          \* instance -> whether its process runs
  subscription, \* instance -> "asked", or "made" once Redis has it
  outbox,      \* instance -> PUBLISH commands Redis has not answered
  channel,     \* instance -> payloads Redis has sent it, not yet read
  lookups,     \* instance -> deliverToParticipants calls awaiting findById
  registry,    \* instance -> user -> sockets
  state,       \* socket -> "new", then its readyState
  pushed,      \* socket -> what has been pushed on it
  from,        \* publication -> the instance that published it, or Null
  repeated,    \* publications Redis has been sent a second time
  heard        \* history: socket -> publications made while it was open for a
               \* participant and its instance subscribed, less what Redis lost

buses == <<subscription, outbox, channel, repeated>>
sockets == <<registry, state>>
history == <<from, heard>>
vars == <<up, buses, lookups, sockets, pushed, history>>

NoSockets == [u \in User |-> {}]
NoLookups == [p \in Publication |-> 0]
\* The in-process emitter has its listener as soon as the server is built; a
\* RedisMessageBus has only asked for its subscription.
AtStart == IF Redis THEN "asked" ELSE "made"

Init ==
  /\ up = [s \in Server |-> TRUE]
  /\ subscription = [s \in Server |-> AtStart]
  /\ outbox = [s \in Server |-> <<>>] /\ channel = [s \in Server |-> <<>>]
  /\ lookups = [s \in Server |-> NoLookups]
  /\ registry = [s \in Server |-> NoSockets]
  /\ state = [k \in Socket |-> "new"]
  /\ pushed = [k \in Socket |-> <<>>]
  /\ from = [p \in Publication |-> Null] /\ repeated = {}
  /\ heard = [k \in Socket |-> {}]

-----------------------------------------------------------------------------
(* Sockets.                                                                *)

\* Mutant: one socket per user, the latest.
OnlyLatest(ks, k) == {k}

\* ConnectionRegistry.add and remove: a user has one socket per tab or device.
Added(ks, k) == ks \cup {k}
Removed(ks, k) == ks \ {k}

Connect(k) ==
  /\ up[Home[k]] /\ state[k] = "new"
  /\ state' = [state EXCEPT ![k] = "open"]
  /\ registry' = [registry EXCEPT ![Home[k]][Owner[k]] = Added(@, k)]
  /\ UNCHANGED <<up, buses, lookups, pushed, history>>

\* Either side starts the closing handshake.
StartClosing(k) ==
  /\ state[k] = "open" /\ state' = [state EXCEPT ![k] = "closing"]
  /\ UNCHANGED <<up, buses, lookups, registry, pushed, history>>

\* The 'close' event, after a handshake or because the network is gone.
Closed(k) ==
  /\ state[k] \in {"open", "closing"}
  /\ state' = [state EXCEPT ![k] = "closed"]
  /\ registry' = [registry EXCEPT ![Home[k]][Owner[k]] = Removed(@, k)]
  /\ UNCHANGED <<up, buses, lookups, pushed, history>>

-----------------------------------------------------------------------------
(* Publishing.                                                             *)

Happened(p) == p.kind = "tombstone" => from[[p EXCEPT !.kind = "live"]] # Null

Record(s, p) ==
  /\ from[p] = Null /\ Happened(p) /\ up[s]
  /\ from' = [from EXCEPT ![p] = s]
  /\ heard' = [k \in Socket |->
       IF state[k] = "open" /\ Owner[k] \in Member[p.msg] /\ subscription[Home[k]] = "made"
       THEN heard[k] \cup {p} ELSE heard[k]]

\* Publications that never reached Redis, and those that did while s was deaf.
Unsent(ps) == heard' = [k \in Socket |-> heard[k] \ ps]
Unheard(s) ==
  heard' = [k \in Socket |->
    IF Home[k] = s THEN {p \in heard[k] : lookups[s][p] > 0} ELSE heard[k]]

\* emit() calls the listener, which awaits its first lookup.
PublishInProcess(s, p) ==
  /\ ~Redis /\ Record(s, p)
  /\ lookups' = [lookups EXCEPT ![s][p] = @ + 1]
  /\ UNCHANGED <<up, buses, sockets, pushed>>

PublishToRedis(s, p) ==
  /\ Redis /\ Record(s, p)
  /\ outbox' = [outbox EXCEPT ![s] = Append(@, p)]
  /\ UNCHANGED <<up, subscription, channel, repeated, lookups, sockets, pushed>>

-----------------------------------------------------------------------------
(* Redis and the two clients of each instance.                             *)

\* Redis forgets a payload as soon as it has sent it to its subscribers.
FanOut(p) ==
  channel' = [q \in Server |->
               IF subscription[q] = "made" /\ up[q] THEN Append(channel[q], p)
               ELSE channel[q]]

RedisAccepts(s) ==
  /\ outbox[s] # <<>> /\ FanOut(Head(outbox[s]))
  /\ outbox' = [outbox EXCEPT ![s] = Tail(@)]
  /\ UNCHANGED <<up, subscription, repeated, lookups, sockets, pushed, history>>

\* Redis's answer is lost with the connection: the client sends the command again
\* once it has reconnected.  Bound: once per publication.
AnswerLost(s) ==
  /\ "redis" \in Failures /\ outbox[s] # <<>> /\ Head(outbox[s]) \notin repeated
  /\ FanOut(Head(outbox[s])) /\ repeated' = repeated \cup {Head(outbox[s])}
  /\ UNCHANGED <<up, subscription, outbox, lookups, sockets, pushed, history>>

Subscribe(s) ==
  /\ up[s] /\ subscription[s] = "asked"
  /\ subscription' = [subscription EXCEPT ![s] = "made"]
  /\ UNCHANGED <<up, outbox, channel, repeated, lookups, sockets, pushed, history>>

\* The subscriber's connection drops; the client asks again by itself.
Disconnect(s) ==
  /\ "redis" \in Failures /\ Redis /\ subscription[s] = "made"
  /\ subscription' = [subscription EXCEPT ![s] = "asked"]
  /\ channel' = [channel EXCEPT ![s] = <<>>] /\ Unheard(s)
  /\ UNCHANGED <<up, outbox, repeated, lookups, sockets, pushed, from>>

\* The publisher's client gives up on what it holds: publish() rejects, and
\* MessagingService swallows it.
PublishLost(s) ==
  /\ "redis" \in Failures /\ outbox[s] # <<>>
  /\ outbox' = [outbox EXCEPT ![s] = <<>>] /\ Unsent(Range(outbox[s]))
  /\ UNCHANGED <<up, subscription, channel, repeated, lookups, sockets, pushed, from>>

\* 'message' on the subscriber: parse, emit, await the lookup.
Receive(s) ==
  /\ up[s] /\ channel[s] # <<>>
  /\ channel' = [channel EXCEPT ![s] = Tail(@)]
  /\ lookups' = [lookups EXCEPT ![s][Head(channel[s])] = @ + 1]
  /\ UNCHANGED <<up, subscription, outbox, repeated, sockets, pushed, history>>

-----------------------------------------------------------------------------
(* deliverToParticipants, once findById has answered.                      *)

\* Mutants: every socket of the instance; an instance leaves out what it published
\* itself.
EverySocket(s, p) ==
  {k \in UNION {registry[s][u] : u \in User} : state[k] = "open"}

OthersOnly(s, p) ==
  {k \in UNION {registry[s][u] : u \in Member[p.msg]} : state[k] = "open" /\ from[p] # s}

Targets(s, p) ==
  {k \in UNION {registry[s][u] : u \in Member[p.msg]} : state[k] = "open"}

\* Mutants: what has been looked up is not settled, or is settled twice.
Kept(s, p) == lookups
SettledTwice(s, p) == [lookups EXCEPT ![s][p] = @ - 2]

Settled(s, p) == [lookups EXCEPT ![s][p] = @ - 1]

Deliver(s, p) ==
  /\ lookups[s][p] > 0 /\ lookups' = Settled(s, p)
  /\ pushed' = [k \in Socket |->
                 IF k \in Targets(s, p) THEN Append(pushed[k], p) ELSE pushed[k]]
  /\ UNCHANGED <<up, buses, sockets, history>>

\* The process ends, with its sockets and everything it had in hand.
Stop(s) ==
  /\ up[s] /\ up' = [up EXCEPT ![s] = FALSE]
  /\ subscription' = [subscription EXCEPT ![s] = AtStart]
  /\ outbox' = [outbox EXCEPT ![s] = <<>>] /\ Unsent(Range(outbox[s]))
  /\ channel' = [channel EXCEPT ![s] = <<>>]
  /\ lookups' = [lookups EXCEPT ![s] = NoLookups]
  /\ registry' = [registry EXCEPT ![s] = NoSockets]
  /\ state' = [k \in Socket |-> IF Home[k] = s /\ state[k] # "new" THEN "closed" ELSE state[k]]
  /\ UNCHANGED <<repeated, pushed, from>>

\* findById rejects.  The listener is called with `void`, nothing catches the
\* rejection, and Node ends a process whose promise rejects unhandled.
LookupFails(s, p) == "query" \in Failures /\ lookups[s][p] > 0 /\ Stop(s)

\* The pool was given no listener for the errors of its idle clients, so a
\* connection the database ends is an 'error' event nobody handles.  It may have one
\* at any time: each query, a probe of /ready too, leaves an idle client behind.
IdleClientFails(s) == "idle" \in Failures /\ Stop(s)

\* ioredis gives up on SUBSCRIBE after its retries, and `void` catches nothing.
SubscribeRejected(s) == "redis" \in Failures /\ Redis /\ subscription[s] = "asked" /\ Stop(s)

Crash(s) == "crash" \in Failures /\ Stop(s)

Restart(s) ==
  /\ ~up[s] /\ up' = [up EXCEPT ![s] = TRUE]
  /\ UNCHANGED <<buses, lookups, sockets, pushed, history>>

-----------------------------------------------------------------------------
Next ==
  \/ \E k \in Socket : Connect(k) \/ StartClosing(k) \/ Closed(k)
  \/ \E s \in Server :
       \/ RedisAccepts(s) \/ AnswerLost(s) \/ Subscribe(s) \/ Disconnect(s)
       \/ PublishLost(s)
       \/ Receive(s)
       \/ IdleClientFails(s) \/ SubscribeRejected(s) \/ Crash(s) \/ Restart(s)
       \/ \E p \in Publication :
            \/ PublishInProcess(s, p) \/ PublishToRedis(s, p)
            \/ Deliver(s, p) \/ LookupFails(s, p)

Spec == Init /\ [][Next]_vars

\* Redis and the database answer, and the event loop gets to what they said.
Fairness ==
  \A s \in Server :
    /\ WF_vars(Subscribe(s)) /\ WF_vars(RedisAccepts(s))
    /\ WF_vars(Receive(s) \/ \E p \in Publication : Deliver(s, p))
FairSpec == Spec /\ Fairness

-----------------------------------------------------------------------------
(* Properties.                                                             *)

\* Every variable has its type.
TypeOK ==
  /\ up \in [Server -> BOOLEAN]
  /\ subscription \in [Server -> {"asked", "made"}]
  /\ outbox \in [Server -> Seq(Publication)]
  /\ channel \in [Server -> Seq(Publication)]
  /\ lookups \in [Server -> [Publication -> Nat]]
  /\ registry \in [Server -> [User -> SUBSET Socket]]
  /\ state \in [Socket -> {"new", "open", "closing", "closed"}]
  /\ pushed \in [Socket -> Seq(Publication)]
  /\ from \in [Publication -> Server \cup {Null}]
  /\ repeated \in SUBSET Publication
  /\ heard \in [Socket -> SUBSET Publication]

Got(k, p) == \E i \in 1..Len(pushed[k]) : pushed[k][i] = p
Misses(k, p) == state[k] = "open" /\ ~Got(k, p)

\* A client is pushed nothing twice, although a publication is fanned out by two
\* hops and every instance delivers it by itself; only what Redis was sent a
\* second time may come a second time.
PushedOnce ==
  \A k \in Socket : \A i, j \in 1..Len(pushed[k]) :
    i # j => pushed[k][i] # pushed[k][j] \/ pushed[k][i] \in repeated

\* Who is pushed to is decided after the lookup and not before: whatever opened,
\* closed or restarted meanwhile, it is an open socket of a participant.
AudienceOnly ==
  [][\A k \in Socket : pushed'[k] # pushed[k] =>
       /\ state[k] = "open" /\ up[Home[k]]
       /\ Owner[k] \in Member[pushed'[k][Len(pushed'[k])].msg]]_vars

\* What Redis has not lost is never stranded: a publication made while a client was
\* connected to a subscribed instance is, until it is pushed or the client sees
\* its connection close, held by a client of Redis or by a lookup under way.
InFlight(k, p) ==
  LET s == Home[k] IN
  \/ \E q \in Server : p \in Range(outbox[q]) /\ subscription[s] = "made"
  \/ p \in Range(channel[s])
  \/ lookups[s][p] > 0

NothingStranded ==
  \A k \in Socket : \A p \in heard[k] : Misses(k, p) => InFlight(k, p)

\* So a client connected to an instance that is subscribed misses nothing.
SubscribedMissNothing ==
  \A k \in Socket, p \in Publication :
    (p \in heard[k]) ~> (~Misses(k, p) \/ p \notin heard[k])

\* A database that is briefly unreachable does not end the process.
StaysUp == [][\A s \in Server : up[s] => up'[s]]_vars
=============================================================================
