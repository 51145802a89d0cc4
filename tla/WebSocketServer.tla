---------------------------- MODULE WebSocketServer ----------------------------
(***************************************************************************)
(* One instance's WebSocket side: the upgrade, verified before the         *)
(* handshake, the registry and the gauge of open connections, the timer    *)
(* that closes a connection when its token expires                         *)
(* (src/websocket/websocket-server.ts, connection-registry.ts), and the    *)
(* shutdown that waits for them (src/main.ts).                             *)
(*                                                                         *)
(* Abstracted: whether the limiter lets an attempt in is a choice here     *)
(* (ConnectionRateLimiter says which); a millisecond is a tick.            *)
(***************************************************************************)
EXTENDS Integers, FiniteSets

CONSTANTS
  Socket,    \* attempts to connect
  User, Null,
  Expiry,    \* when tokens expire; Null from a verifier that does not say
  MaxDelay,  \* the longest delay setTimeout takes (2^31 - 1 ms)
  MaxTime    \* bound on the clock

Identity == [userId : User, expiresAt : Expiry]

ASSUME SocketAssumption ==
  /\ IsFiniteSet(Socket)
  /\ Expiry \subseteq Nat \cup {Null} /\ MaxDelay \in Nat \ {0} /\ MaxTime \in Nat
  /\ Null \notin Nat /\ Null \notin Identity

VARIABLES
  now,       \* Date.now()
  serving,   \* the HTTP server: "listening", "closing", or "exited"
  phase,     \* attempt -> where it stands; once upgraded, its readyState
  identity,  \* attempt -> what its token verifies as, Null if it does not
  registry,  \* user -> sockets
  gauge,     \* websocketConnectionsActive
  timer,     \* attempt -> when its expiry timer is due, or Null
  opened,    \* history: attempt -> when its connection opened, or Null
  closed     \* history: attempt -> when the server closed it, or Null

vars == <<now, serving, phase, identity, registry, gauge, timer, opened, closed>>

Phase == {"new", "verifying", "verified", "open", "closing", "closed", "refused"}
Live == {k \in Socket : phase[k] \in {"open", "closing"}}

Init ==
  /\ now = 0 /\ serving = "listening"
  /\ phase = [k \in Socket |-> "new"]
  /\ identity = [k \in Socket |-> Null]
  /\ registry = [u \in User |-> {}]
  /\ gauge = 0
  /\ timer = [k \in Socket |-> Null]
  /\ opened = [k \in Socket |-> Null]
  /\ closed = [k \in Socket |-> Null]

Goto(k, p) == phase' = [phase EXCEPT ![k] = p]

-----------------------------------------------------------------------------
(* The clock, and the client's side of a connection.                       *)

Tick ==
  /\ now < MaxTime /\ now' = now + 1
  /\ UNCHANGED <<serving, phase, identity, registry, gauge, timer, opened, closed>>

ClientCloses(k) ==
  /\ phase[k] = "open" /\ Goto(k, "closing")
  /\ UNCHANGED <<now, serving, identity, registry, gauge, timer, opened, closed>>

-----------------------------------------------------------------------------
(* The upgrade.                                                            *)

\* Refused by the limiter (429) or for want of a token (401), or verified next.
Upgrade(k) ==
  /\ serving = "listening" /\ phase[k] = "new"
  /\ \/ Goto(k, "refused") /\ UNCHANGED identity
     \/ /\ Goto(k, "verifying")
        /\ \E i \in Identity \cup {Null} : identity' = [identity EXCEPT ![k] = i]
  /\ UNCHANGED <<now, serving, registry, gauge, timer, opened, closed>>

Expired(i) == i.expiresAt # Null /\ now >= i.expiresAt

\* A bad token, or one whose keys could not be fetched: 401.
Reject(k) ==
  /\ phase[k] = "verifying" /\ Goto(k, "refused")
  /\ UNCHANGED <<now, serving, identity, registry, gauge, timer, opened, closed>>

Verify(k) ==
  /\ phase[k] = "verifying" /\ identity[k] # Null /\ ~Expired(identity[k])
  /\ Goto(k, "verified")
  /\ UNCHANGED <<now, serving, identity, registry, gauge, timer, opened, closed>>

Max0(d) == IF d > 0 THEN d ELSE 0

\* setTimeout: a delay it cannot represent becomes one millisecond.
Delay(d) == IF d > MaxDelay THEN 1 ELSE d

\* Mutants: no timer; one that is due at once.
NoTimer(i) == Null
AtOnce(i) == IF i.expiresAt = Null THEN Null ELSE now

ExpiryTimer(i) ==
  IF i.expiresAt = Null THEN Null ELSE now + Delay(Max0(i.expiresAt - now))

\* Mutant: the gauge is not incremented.
NotCounted == gauge

Counted == gauge + 1

HandleUpgrade(k) ==
  LET u == identity[k].userId IN
  /\ phase[k] = "verified" /\ Goto(k, "open")
  /\ registry' = [registry EXCEPT ![u] = @ \cup {k}]
  /\ gauge' = Counted
  /\ timer' = [timer EXCEPT ![k] = ExpiryTimer(identity[k])]
  /\ opened' = [opened EXCEPT ![k] = now]
  /\ UNCHANGED <<now, serving, identity, closed>>

\* The client left while its token was verified: ws drops the socket and never
\* calls back.
Abandoned(k) ==
  /\ phase[k] = "verified" /\ Goto(k, "refused")
  /\ UNCHANGED <<now, serving, identity, registry, gauge, timer, opened, closed>>

-----------------------------------------------------------------------------
(* The end of a connection.                                                *)

\* ws.close() on a socket that is closing already changes nothing.
Expire(k) ==
  /\ timer[k] # Null /\ now >= timer[k]
  /\ timer' = [timer EXCEPT ![k] = Null]
  /\ IF phase[k] = "open"
     THEN Goto(k, "closing") /\ closed' = [closed EXCEPT ![k] = now]
     ELSE UNCHANGED <<phase, closed>>
  /\ UNCHANGED <<now, serving, identity, registry, gauge, opened>>

\* Mutant: the timer is left running.
Running(k) == timer

ClearTimeout(k) == [timer EXCEPT ![k] = Null]

\* The 'close' listener.
Close(k) ==
  /\ Goto(k, "closed")
  /\ timer' = ClearTimeout(k)
  /\ registry' = [registry EXCEPT ![identity[k].userId] = @ \ {k}]
  /\ gauge' = gauge - 1
  /\ UNCHANGED <<now, serving, identity, opened, closed>>

\* The handshake ends, or ws gives up waiting for it; the network is gone.
Finish(k) == phase[k] = "closing" /\ Close(k)
Lost(k) == phase[k] = "open" /\ Close(k)

-----------------------------------------------------------------------------
(* SIGTERM: server.close() stops listening and calls back once the last    *)
(* connection, an upgraded one included, is gone; then the process exits.  *)

Shutdown ==
  /\ serving = "listening" /\ serving' = "closing"
  /\ UNCHANGED <<now, phase, identity, registry, gauge, timer, opened, closed>>

Exit ==
  /\ serving = "closing"
  /\ \A k \in Socket : phase[k] \in {"new", "closed", "refused"}
  /\ serving' = "exited"
  /\ UNCHANGED <<now, phase, identity, registry, gauge, timer, opened, closed>>

-----------------------------------------------------------------------------
(* Errors nobody handles end the process: the URL of an upgrade that does   *)
(* not parse throws outside the try, and neither the raw socket, while its  *)
(* token is verified, nor the WebSocket has an 'error' listener.            *)

Unhandled(k) ==
  \/ serving = "listening" /\ phase[k] = "new"
  \/ phase[k] \in {"verifying", "open", "closing"}

Crash(k) ==
  /\ Unhandled(k) /\ serving' = "exited"
  /\ phase' = [j \in Socket |->
                 IF j \in Live THEN "closed"
                 ELSE IF phase[j] \in {"verifying", "verified"} THEN "refused" ELSE phase[j]]
  /\ registry' = [u \in User |-> {}] /\ gauge' = 0
  /\ timer' = [j \in Socket |-> Null]
  /\ UNCHANGED <<now, identity, opened, closed>>

-----------------------------------------------------------------------------
Next ==
  \/ Tick \/ Shutdown \/ Exit
  \/ \E k \in Socket :
       \/ ClientCloses(k) \/ Upgrade(k) \/ Reject(k) \/ Verify(k)
       \/ HandleUpgrade(k) \/ Abandoned(k) \/ Expire(k) \/ Finish(k) \/ Lost(k)
       \/ Crash(k)

Spec == Init /\ [][Next]_vars

\* Time passes, verification ends, due timers fire, and ws destroys a socket that
\* has been closing for 30 s.  No client has to do anything.
Fairness ==
  /\ WF_vars(Tick) /\ WF_vars(Exit)
  /\ \A k \in Socket :
       /\ WF_vars(Reject(k) \/ Verify(k)) /\ WF_vars(HandleUpgrade(k) \/ Abandoned(k))
       /\ WF_vars(Expire(k)) /\ WF_vars(Finish(k))
FairSpec == Spec /\ Fairness

-----------------------------------------------------------------------------
\* Every variable has its type.
TypeOK ==
  /\ now \in Nat /\ serving \in {"listening", "closing", "exited"}
  /\ phase \in [Socket -> Phase]
  /\ identity \in [Socket -> Identity \cup {Null}]
  /\ registry \in [User -> SUBSET Socket]
  /\ gauge \in Nat
  /\ timer \in [Socket -> Nat \cup {Null}]
  /\ opened \in [Socket -> Nat \cup {Null}]
  /\ closed \in [Socket -> Nat \cup {Null}]

\* The three books a connection is kept in agree, however closing handshakes,
\* lost connections and expiry timers overlap: the registry has exactly the
\* sockets not closed yet, each under the user its own token verified as, the
\* gauge counts them, and no timer survives its socket.
BooksAgree ==
  /\ \A u \in User :
       registry[u] = {k \in Live : identity[k] # Null /\ identity[k].userId = u}
  /\ gauge = Cardinality(Live)
  /\ \A k \in Socket : timer[k] # Null => k \in Live

\* The server closes no connection before its token has expired, whatever becomes of
\* timers and sockets, unless the token had longer to live than setTimeout can wait.
ClosedOnlyWhenExpired ==
  \A k \in Socket : closed[k] # Null =>
    LET e == identity[k].expiresAt IN
    e # Null /\ (closed[k] >= e \/ e > opened[k] + MaxDelay)

\* A live connection does not outlive the token that opened it.
OutlivesNoToken ==
  \A k \in Socket :
    (phase[k] = "open" /\ Expired(identity[k])) ~> (phase[k] # "open")

\* A shutdown ends, although nothing closes the open connections: it waits for
\* the longest-lived token, and for ever only for one that never expires.
ShutdownEnds ==
  (serving = "closing") ~>
    (serving = "exited" \/ \E k \in Live : identity[k].expiresAt = Null)
=============================================================================
