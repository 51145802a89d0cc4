------------------------- MODULE ReadsAndMarkersProofs -------------------------
(***************************************************************************)
(* Proofs about MessagingService: what a thread, the list of               *)
(* conversations, a clear, a read marker and a deletion promise, however   *)
(* many requests every user has in flight, whatever fails and whatever the *)
(* clocks of the service's hosts show.                                     *)
(***************************************************************************)
EXTENDS MessagingServiceProofs, LeastElement

\* A row is stamped with the time it was stored.
RowsInPast ==
  \A m \in Message :
    messages[m] # Null => messages[m].createdAt \in Nat /\ messages[m].createdAt <= clock

\* w is the stored row v, or v before it was taken back.
Became(w, v) ==
  /\ v # Null /\ v.id = w.id /\ v.conv = w.conv /\ v.createdAt = w.createdAt
  /\ Deleted(w) => v = w

\* What was stored when a request came in is stored still.
BeforeOK(r) ==
  \A w \in before[r] : w \in Row /\ Became(w, messages[w.id])

\* A handler builds its reply only while it previews.
Unanswered(r) == phase[r] \notin {"preview", "done"} => reply[r] = NoReply

\* While a reader is under way, what its user has cleared is on record.
MarksOnRecord(r) ==
  call[r].op \in {"list", "inbox"} /\ phase[r] # "done" =>
    Marks(clearedAt, call[r].user) \in marks[r]

-----------------------------------------------------------------------------
(* Reading a thread.                                                       *)

ThreadOnPath(r) ==
  Asks(r, "list") =>
    /\ phase[r] = "page" => \E m \in marks[r] : m[call[r].conv] = snap[r][call[r].conv]
    /\ Ok(r) => \E m \in marks[r] : ShownBy(r, m)

-----------------------------------------------------------------------------
(* Reading the list of conversations.                                      *)

\* What is in the reply so far is listed rightly, for a user with these marks.
ListedSoFar(r, m) ==
  LET u == call[r].user IN
  /\ \A c \in reply[r].convs :
       u \in members[c] /\ (m[c] # Null => \E w \in Rows : w.conv = c /\ ~Hides(m[c], w))
  /\ \A w \in reply[r].rows : w.conv \in reply[r].convs /\ ~Hides(m[w.conv], w)

\* What was there to be listed is listed, or among the conversations in cs.
NoneForgotten(r, m, cs) ==
  LET u == call[r].user IN
  \A w \in before[r] :
    u \in members[w.conv] /\ ~Hides(m[w.conv], w) => w.conv \in reply[r].convs \cup cs

\* What the preview of each conversation still to come has been given to go by.
Previewing(r, m) ==
  /\ m \in Cleared
  /\ \A c \in todo[r] : call[r].user \in members[c] /\ snap[r][c] = m[c]
  /\ ListedSoFar(r, m) /\ NoneForgotten(r, m, todo[r])

InboxOnPath(r) ==
  Asks(r, "inbox") =>
    /\ phase[r] = "preview" => \E m \in marks[r] : Previewing(r, m)
    /\ Ok(r) => \E m \in marks[r] : ListedBy(r, m)

ReadsInv ==
  /\ Inv /\ RowsInPast
  /\ \A r \in Request :
       /\ BeforeOK(r) /\ Unanswered(r) /\ MarksOnRecord(r)
       /\ ThreadOnPath(r) /\ InboxOnPath(r)

-----------------------------------------------------------------------------
(* Markers: cleared_at and last_read_at.                                   *)

\* Some host's clock has shown v.
Shown(v) == \E s \in Skew, t \in 0..clock : v = Truncate(t + s)

\* The instant of one of these times, or a later one, by some host's clock.
Reaches(v, ts) == v # Null /\ \E s \in Skew, t \in ts : v >= Truncate(t + s)

MarkersShown ==
  \A c \in Conversation, u \in User :
    /\ clearedAt[c][u] # Null => Shown(clearedAt[c][u])
    /\ lastReadAt[c][u] # Null => Shown(lastReadAt[c][u])

\* What a handler is about to write, and what it must not fall behind.
Writing(r) == phase[r] = "clear" \/ (Asks(r, "read") /\ phase[r] \in {"lookup", "mark"})
MarkerOnPath(r) ==
  /\ known[r] # Null => Shown(known[r])
  /\ Writing(r) =>
       /\ at[r] # Null /\ Shown(at[r])
       /\ known[r] # Null => NoEarlier(at[r], known[r])

ClearOnPath(r) ==
  Asks(r, "clear") =>
    /\ since[r] # {} /\ \A t \in since[r] : t <= clock
    /\ phase[r] = "resume" \/ Ok(r) =>
         Reaches(clearedAt[call[r].conv][call[r].user], since[r])

\* A clear about to be applied does not undo one it races.
Harmless(q, r) ==
  Asks(r, "clear") /\ call[q] = call[r] /\ phase[q] = "clear" => Reaches(at[q], since[r])

MarkersInv ==
  /\ Inv /\ MarkersShown
  /\ \A r \in Request : Unanswered(r) /\ MarkerOnPath(r) /\ ClearOnPath(r)
  /\ \A q, r \in Request : Harmless(q, r)

-----------------------------------------------------------------------------
(* Taking a message back.                                                  *)

\* A send that has not published its message does not overtake a deletion unnoticed.
SendOnBus(r) ==
  phase[r] = "inserted" =>
    LET m == call[r].msg IN Deleted(messages[m]) => m \in unsure

BusInv == Inv /\ DeletionReachesBus /\ \A r \in Request : SendOnBus(r)

-----------------------------------------------------------------------------
(* What a step does to a request it is not a step of.                      *)

\* What is on record of a request is kept; its reader's marks may gain one.
Recorded(r) ==
  /\ before'[r] = before[r] /\ since'[r] = since[r] /\ known'[r] = known[r]
  /\ marks[r] \subseteq marks'[r]

Still(r) ==
  /\ phase'[r] = phase[r] /\ call'[r] = call[r] /\ at'[r] = at[r] /\ snap'[r] = snap[r]
  /\ row'[r] = row[r] /\ todo'[r] = todo[r] /\ reply'[r] = reply[r]
  /\ Recorded(r)

\* A handler that moves on or answers leaves the others alone.
LEMMA OthersPhase ==
  ASSUME HandlerType, NEW q \in Request, NEW r \in Request, r # q, NEW p, Goto(q, p)
  PROVE  phase'[r] = phase[r]
  BY DEF HandlerType, Goto

\* The same, with all its locals, of a handler that answers.
LEMMA OthersAnswer ==
  ASSUME HandlerType, NEW q \in Request, NEW r \in Request, r # q,
         NEW o, NEW ws, NEW cs, Answer(q, o, ws, cs)
  PROVE  /\ phase'[r] = phase[r] /\ reply'[r] = reply[r] /\ at'[r] = at[r]
         /\ snap'[r] = snap[r] /\ row'[r] = row[r] /\ todo'[r] = todo[r]
  BY DEF HandlerType, Answer, Goto

\* Nor does a request that arrives disturb another.
LEMMA OthersCall ==
  ASSUME TypeOK, NEW q \in Request, NEW r \in Request, r # q, Call(q)
  PROVE  Still(r)
<1> USE DEF Still
<1>0. HandlerType /\ ClientType
  BY DEF TypeOK
<1>1. ASSUME NEW k, Arrive(q, k) PROVE call'[r] = call[r] /\ Recorded(r)
  BY <1>0, <1>1 DEF ClientType, Arrive, Recorded
<1>2. ASSUME NEW u \in User, CallCreate(q, u) \/ CallInbox(q, u) PROVE Still(r)
  BY <1>0, <1>1, <1>2, OthersPhase DEF CallCreate, CallInbox
<1>3. ASSUME NEW u \in User, CallOnConversation(q, u) \/ CallDelete(q, u) PROVE Still(r)
  BY <1>0, <1>1, <1>3, OthersPhase DEF CallOnConversation, CallDelete
<1>4. ASSUME NEW u \in User, CallRead(q, u) PROVE Still(r)
  <2>1. at'[r] = at[r]
    BY <1>0, <1>4 DEF CallRead, HandlerType
  <2> QED BY <1>0, <1>1, <1>4, <2>1, OthersPhase DEF CallRead
<1>5. ASSUME NEW u \in User, CallSend(q, u) PROVE Still(r)
  BY <1>0, <1>1, <1>5, OthersPhase, OthersAnswer DEF CallSend, Refuse
<1> QED BY <1>2, <1>3, <1>4, <1>5 DEF Call

\* No await of a handler takes anything off the record.
LEMMA RecordsKept ==
  ASSUME TypeOK, NEW q \in Request, NEW r \in Request,
         Step(q) \/ Fail(q) \/ (Respond(q) /\ q # r)
  PROVE  Recorded(r)
<1>0. ClientType
  BY DEF TypeOK
<1>1. CASE Clear(q)
  <2>1. marks[r] \subseteq marks'[r] /\ UNCHANGED <<before, since, known>>
    BY <1>1 DEF Clear
  <2> QED BY <2>1 DEF Recorded
<1>2. CASE Respond(q) /\ q # r
  BY <1>0, <1>2 DEF Respond, ClientType, Recorded
<1>3. CASE (Step(q) \/ Fail(q)) /\ ~Clear(q)
  <2>1. UNCHANGED <<before, marks, since, known>>
    BY <1>3 DEF Step, Lookup, GateAllows, GateDenies, Create, Resume, Insert, Sent,
                FindMessage, SoftDelete, Reselect, TakenBack, MarkRead, ListMessages,
                FindByParticipant, Preview, Fail, history
  <2> QED BY <2>1 DEF Recorded
<1> QED BY <1>1, <1>2, <1>3

\* Every await of a handler is a matter of its own locals.
LEMMA OthersStep ==
  ASSUME TypeOK, NEW q \in Request, NEW r \in Request, r # q,
         Step(q) \/ Fail(q) \/ Respond(q)
  PROVE  Still(r)
<1>0. HandlerType /\ ClientType /\ Recorded(r)
  BY RecordsKept DEF TypeOK
<1> USE DEF Still, history
<1>1. CASE Lookup(q)
  <2>1. at'[r] = at[r] /\ snap'[r] = snap[r]
    BY <1>0, <1>1, OthersAnswer DEF Lookup, Refuse, HandlerType
  <2> QED BY <1>0, <1>1, <2>1, OthersPhase, OthersAnswer DEF Lookup, Refuse
<1>2. CASE GateAllows(q) \/ GateDenies(q) \/ Fail(q)
  BY <1>0, <1>2, OthersPhase, OthersAnswer DEF GateAllows, GateDenies, Fail, Refuse
<1>3. CASE Create(q) \/ Resume(q) \/ Clear(q) \/ MarkRead(q) \/ ListMessages(q)
  BY <1>0, <1>3, OthersPhase, OthersAnswer DEF Create, Resume, Clear, MarkRead, ListMessages
<1>4. CASE Sent(q) \/ TakenBack(q)
  BY <1>0, <1>4, OthersAnswer DEF Sent, TakenBack
<1>5. CASE Insert(q) \/ SoftDelete(q) \/ Reselect(q)
  <2>1. row'[r] = row[r]
    BY <1>0, <1>5 DEF Insert, SoftDelete, Reselect, HandlerType
  <2> QED BY <1>0, <1>5, <2>1, OthersPhase DEF Insert, SoftDelete, Reselect
<1>6. CASE FindMessage(q)
  <2>1. at'[r] = at[r]
    BY <1>0, <1>6, OthersAnswer DEF FindMessage, Refuse, HandlerType
  <2> QED BY <1>0, <1>6, <2>1, OthersPhase, OthersAnswer DEF FindMessage, Refuse
<1>7. CASE FindByParticipant(q)
  <2>1. todo'[r] = todo[r] /\ snap'[r] = snap[r]
    BY <1>0, <1>7, OthersAnswer DEF FindByParticipant, HandlerType
  <2> QED BY <1>0, <1>7, <2>1, OthersPhase, OthersAnswer DEF FindByParticipant
<1>8. CASE Preview(q)
  <2>1. PICK c \in todo[q] : \E rows, convs :
          \/ Answer(q, "ok", rows, convs)
          \/ /\ todo' = [todo EXCEPT ![q] = @ \ {c}]
             /\ reply' = [reply EXCEPT ![q].rows = rows, ![q].convs = convs]
             /\ UNCHANGED <<phase, at, snap, row>>
    BY <1>8 DEF Preview
  <2>2. UNCHANGED call
    BY <1>8 DEF Preview
  <2>3. CASE \E rows, convs : Answer(q, "ok", rows, convs)
    BY <1>0, <2>2, <2>3, OthersAnswer
  <2>4. CASE ~\E rows, convs : Answer(q, "ok", rows, convs)
    BY <1>0, <2>1, <2>2, <2>4 DEF HandlerType
  <2> QED BY <2>3, <2>4
<1>9. CASE Respond(q)
  BY <1>0, <1>9, OthersPhase DEF Respond, HandlerType, ClientType
<1> QED BY <1>1, <1>2, <1>3, <1>4, <1>5, <1>6, <1>7, <1>8, <1>9 DEF Step

\* So every step leaves a request alone or is one of its own.
LEMMA OwnSteps ==
  ASSUME TypeOK, [Next]_vars, NEW r \in Request
  PROVE  Still(r) \/ Call(r) \/ Step(r) \/ Fail(r) \/ Respond(r)
<1>1. CASE Tick \/ (\E g \in Group : Relate(g) \/ Revoke(g)) \/ UNCHANGED vars
  BY <1>1 DEF Tick, Relate, Revoke, vars, history, Still, Recorded
<1>2. ASSUME NEW q \in Request, Call(q) \/ Step(q) \/ Fail(q) \/ Respond(q), q # r
      PROVE  Still(r)
  BY <1>2, OthersCall, OthersStep
<1> QED BY <1>1, <1>2 DEF Next

-----------------------------------------------------------------------------
(* What a step does to the tables.                                         *)

\* A row is the last version of itself, and of what it was before.
LEMMA BecameSame == ASSUME NEW w, w # Null PROVE Became(w, w)
  BY DEF Became

\* Versions of a message follow one another.
LEMMA BecameTrans ==
  ASSUME NEW w, NEW v, NEW x, Became(w, v), Became(v, x) PROVE Became(w, x)
  BY DEF Became, Deleted

\* Taking a message back makes a version of it.
LEMMA BecameTombstone ==
  ASSUME NEW w \in Row, NEW d \in Int, w.deletedAt = Null
  PROVE  Became(w, [w EXCEPT !.body = "", !.deletedAt = d])
<1> DEFINE v == [w EXCEPT !.body = "", !.deletedAt = d]
<1>1. v.id = w.id /\ v.conv = w.conv /\ v.createdAt = w.createdAt
  BY DEF Row
<1>2. v \in Row
  BY DEF Row, Instant
<1>3. v # Null
  BY <1>2, ServiceAssumption
<1> HIDE DEF v
<1>4. Became(w, v)
  BY <1>1, <1>3 DEF Became, Deleted
<1> QED BY <1>4 DEF v

\* A stored message stays stored; its text is all it loses, once.
LEMMA RowsKept ==
  ASSUME Inv, [Next]_vars, NEW m \in Message, messages[m] # Null
  PROVE  Became(messages[m], messages'[m])
<1>1. CASE messages'[m] = messages[m]
  BY <1>1, BecameSame
<1>2. CASE messages'[m] # messages[m]
  <2>1. messages' # messages
    BY <1>2
  <2>2. PICK r \in Request : Create(r) \/ Insert(r) \/ SoftDelete(r)
    BY <2>1, Writers
  <2>3. ~Create(r)
    BY <2>1 DEF Create
  <2>4. messages \in [Message -> Row \cup {Null}]
    BY DEF Inv, TypeOK, DatabaseType
  <2>5. CASE Insert(r)
    BY <1>2, <2>4, <2>5, Inserted
  <2>6. CASE SoftDelete(r)
    <3>1. LET i == call[r].msg  w == messages[i] IN
          /\ i \in Message /\ w \in Row /\ w.deletedAt = Null
          /\ messages' = [messages EXCEPT ![i].body = "", ![i].deletedAt = at[r]]
      BY <2>1, <2>6, SoftDeleted
    <3>2. call[r].msg = m
      BY <1>2, <2>4, <3>1
    <3>3. messages'[m] = [messages[m] EXCEPT !.body = "", !.deletedAt = at[r]]
      BY <2>4, <3>1, <3>2
    <3>4. at[r] \in Int
      BY <2>1, <2>6, SoftDeleted
    <3>5. messages[m] \in Row /\ messages[m].deletedAt = Null
      BY <3>1, <3>2
    <3>6. Became(messages[m], [messages[m] EXCEPT !.body = "", !.deletedAt = at[r]])
      BY <3>4, <3>5, BecameTombstone
    <3> QED BY <3>3, <3>6
  <2> QED BY <2>2, <2>3, <2>5, <2>6
<1> QED BY <1>1, <1>2

\* A message is stored at the time the database's clock shows.
LEMMA RowsAdded ==
  ASSUME Inv, [Next]_vars, NEW m \in Message, messages[m] = Null, messages'[m] # Null
  PROVE  messages'[m].createdAt = clock /\ clock' = clock
<1>1. messages' # messages
  OBVIOUS
<1>2. PICK r \in Request : Create(r) \/ Insert(r) \/ SoftDelete(r)
  BY <1>1, Writers
<1>3. messages \in [Message -> Row \cup {Null}]
  BY DEF Inv, TypeOK, DatabaseType
<1>4. CASE Insert(r)
  BY <1>3, <1>4 DEF Insert
<1>5. CASE SoftDelete(r)
  <2>1. LET i == call[r].msg  w == messages[i] IN
        /\ i \in Message /\ w \in Row
        /\ messages' = [messages EXCEPT ![i].body = "", ![i].deletedAt = at[r]]
    BY <1>1, <1>5, SoftDeleted
  <2>2. call[r].msg = m
    BY <1>3, <2>1
  <2> QED BY <2>1, <2>2, ServiceAssumption
<1>6. ~Create(r)
  BY <1>1 DEF Create
<1> QED BY <1>2, <1>4, <1>5, <1>6

\* A conversation keeps its participants.
LEMMA MembersKept ==
  ASSUME Inv, [Next]_vars, NEW c \in Conversation, members[c] # {}
  PROVE  members'[c] = members[c]
<1>1. CASE members' = members
  BY <1>1
<1>2. CASE members' # members
  <2>1. PICK r \in Request : Create(r) \/ Insert(r) \/ SoftDelete(r)
    BY <1>2, Writers
  <2>2. Create(r)
    BY <1>2, <2>1 DEF Insert, SoftDelete
  <2>3. members[call[r].conv] = {}
    BY <2>2 DEF Inv, OnPath, CreateOnPath, Create, Asks
  <2> QED BY <2>2, <2>3 DEF Create, Inv, TypeOK, DatabaseType
<1> QED BY <1>1, <1>2

\* The clock does not go back.
LEMMA ClockAdvances ==
  ASSUME Inv, [Next]_vars PROVE clock \in Nat /\ clock' \in Nat /\ clock <= clock'
<1> DEFINE Runs == clock' = clock \/ clock' = clock + 1
<1>1. clock \in Nat /\ Runs
  <2>1. clock \in Nat
    BY DEF Inv, TypeOK, DatabaseType
  <2>2. ASSUME Tick PROVE Runs
    BY <2>2 DEF Tick
  <2>3. ASSUME UNCHANGED vars PROVE clock' = clock
    BY <2>3 DEF vars, database
  <2>4. ASSUME NEW r \in Request, Call(r) PROVE clock' = clock
    <3>1. ASSUME NEW k, Arrive(r, k) PROVE clock' = clock
      BY <3>1 DEF Arrive, database
    <3> QED BY <2>4, <3>1 DEF Call, CallCreate, CallInbox, CallOnConversation, CallRead,
                            CallSend, CallDelete
  <2>5. ASSUME NEW r \in Request, Step(r) \/ Fail(r) \/ Respond(r) PROVE clock' = clock
    BY <2>5 DEF Step, Lookup, GateAllows, GateDenies, Create, Resume, Insert, Sent,
                FindMessage, SoftDelete, Reselect, TakenBack, Clear, MarkRead, ListMessages,
                FindByParticipant, Preview, Fail, Respond, database
  <2>6. ASSUME NEW g \in Group, Relate(g) \/ Revoke(g) PROVE clock' = clock
    BY <2>6 DEF Relate, Revoke, database
  <2> QED BY <2>1, <2>2, <2>3, <2>4, <2>5, <2>6 DEF Next
<1> QED BY <1>1

\* Stamps are set by the user they are about.
LEMMA StampsSet ==
  ASSUME Inv, [Next]_vars
  PROVE  \/ UNCHANGED <<clearedAt, lastReadAt>>
         \/ \E r \in Request : \/ Clear(r) /\ UNCHANGED lastReadAt
                               \/ MarkRead(r) /\ UNCHANGED clearedAt
<1>1. CASE Tick \/ (\E g \in Group : Relate(g) \/ Revoke(g)) \/ UNCHANGED vars
  BY <1>1 DEF Tick, Relate, Revoke, vars, database
<1>2. ASSUME NEW r \in Request, Call(r) PROVE UNCHANGED <<clearedAt, lastReadAt>>
  <2>1. ASSUME NEW k, Arrive(r, k) PROVE UNCHANGED <<clearedAt, lastReadAt>>
    BY <2>1 DEF Arrive, database
  <2> QED BY <1>2, <2>1 DEF Call, CallCreate, CallInbox, CallOnConversation, CallRead,
                          CallSend, CallDelete
<1>3. ASSUME NEW r \in Request, Step(r) \/ Fail(r) \/ Respond(r)
      PROVE  \/ UNCHANGED <<clearedAt, lastReadAt>>
             \/ Clear(r) /\ UNCHANGED lastReadAt
             \/ MarkRead(r) /\ UNCHANGED clearedAt
  <2>1. CASE Clear(r) \/ MarkRead(r)
    BY <2>1 DEF Clear, MarkRead
  <2>2. CASE ~(Clear(r) \/ MarkRead(r))
    BY <1>3, <2>2 DEF Step, Lookup, GateAllows, GateDenies, Create, Resume, Insert, Sent,
                FindMessage, SoftDelete, Reselect, TakenBack, ListMessages,
                FindByParticipant, Preview, Fail, Respond, database
  <2> QED BY <2>1, <2>2
<1> QED BY <1>1, <1>2, <1>3 DEF Next

\* What a clear, or a read marker, writes.
LEMMA StampWritten ==
  ASSUME Inv, NEW r \in Request, NEW c \in Conversation, NEW u \in User
  PROVE  /\ Clear(r) => /\ Asks(r, "clear") /\ phase[r] = "clear"
                        /\ clearedAt'[c][u] = IF c = call[r].conv /\ u = call[r].user
                                              THEN at[r] ELSE clearedAt[c][u]
         /\ MarkRead(r) => /\ Asks(r, "read") /\ phase[r] = "mark"
                           /\ lastReadAt'[c][u] = IF c = call[r].conv /\ u = call[r].user
                                                  THEN at[r] ELSE lastReadAt[c][u]
<1>1. /\ clearedAt \in [Conversation -> [User -> Instant \cup {Null}]]
      /\ lastReadAt \in [Conversation -> [User -> Instant \cup {Null}]]
  BY DEF Inv, TypeOK, DatabaseType
<1>2. Clear(r) \/ MarkRead(r) => call[r].conv \in Conversation /\ call[r].user \in User
  BY CallFields DEF Inv, TypeOK, OnPath, Clear, MarkRead, AllOps
<1> QED BY <1>1, <1>2 DEF Clear, MarkRead, Stamp, Inv, OnPath, Asks

-----------------------------------------------------------------------------
(* How a request comes in and goes on.                                     *)

\* How a request comes in.
LEMMA CallAt ==
  ASSUME TypeOK, NEW r \in Request, Call(r)
  PROVE  /\ phase[r] = "idle" /\ UNCHANGED <<database, outside>>
         /\ before'[r] \in SUBSET Rows
         /\ \/ call'[r].op = "create" /\ phase'[r] = "gate" /\ reply' = reply
            \/ call'[r].op = "inbox" /\ phase'[r] = "inbox" /\ reply' = reply
            \/ /\ call'[r].op \in {"get", "list", "clear", "read", "send", "delete"}
               /\ phase'[r] = "lookup" /\ reply' = reply
               /\ call'[r].op = "read" => at'[r] \in Date
            \/ /\ call'[r].op = "send" /\ phase'[r] = "done"
               /\ reply'[r].outcome = "EmptyMessage"
<1> USE DEF TypeOK, HandlerType, ClientType, Request0
<1>1. ASSUME NEW k, Arrive(r, k)
      PROVE  /\ phase[r] = "idle" /\ UNCHANGED <<database, outside>> /\ call'[r] = k
             /\ before'[r] \in SUBSET Rows
  BY <1>1 DEF Arrive
<1> DEFINE Came(k) ==
             /\ phase[r] = "idle" /\ UNCHANGED <<database, outside>>
                 /\ before'[r] \in SUBSET Rows /\ call'[r] = k
<1>2. ASSUME NEW k, Arrive(r, k) PROVE Came(k)
  BY <1>1, <1>2
<1> HIDE DEF Came
<1> DEFINE Goal ==
             /\ phase[r] = "idle" /\ UNCHANGED <<database, outside>>
                 /\ before'[r] \in SUBSET Rows
             /\ \/ call'[r].op = "create" /\ phase'[r] = "gate" /\ reply' = reply
                \/ call'[r].op = "inbox" /\ phase'[r] = "inbox" /\ reply' = reply
                \/ /\ call'[r].op \in {"get", "list", "clear", "read", "send", "delete"}
                   /\ phase'[r] = "lookup" /\ reply' = reply
                   /\ call'[r].op = "read" => at'[r] \in Date
                \/ /\ call'[r].op = "send" /\ phase'[r] = "done"
                   /\ reply'[r].outcome = "EmptyMessage"
<1>3. ASSUME NEW u \in User, CallCreate(r, u) PROVE Goal
  <2>1. PICK c, g : Came(Request0("create", u, c, Null, g)) /\ Goto(r, "gate") /\ reply' = reply
    BY <1>2, <1>3 DEF CallCreate
  <2> QED BY <2>1 DEF Came, Goto
<1>4. ASSUME NEW u \in User, CallInbox(r, u) PROVE Goal
  <2>1. Came(Request0("inbox", u, Null, Null, {})) /\ Goto(r, "inbox") /\ reply' = reply
    BY <1>2, <1>4 DEF CallInbox
  <2> QED BY <2>1 DEF Came, Goto
<1>5. ASSUME NEW u \in User, CallOnConversation(r, u) PROVE Goal
  <2>1. PICK op \in {"get", "list", "clear"}, c \in Conversation :
          Came(Request0(op, u, c, Null, {})) /\ Goto(r, "lookup") /\ reply' = reply
    BY <1>2, <1>5 DEF CallOnConversation
  <2> QED BY <2>1 DEF Came, Goto
<1>6. ASSUME NEW u \in User, CallRead(r, u) PROVE Goal
  <2>1. PICK c \in Conversation, d \in Date :
          /\ Arrive(r, Request0("read", u, c, Null, {})) /\ Goto(r, "lookup")
          /\ reply' = reply /\ at' = [at EXCEPT ![r] = d]
    BY <1>6 DEF CallRead
  <2>2. Came(Request0("read", u, c, Null, {}))
    BY <1>2, <2>1
  <2> QED BY <2>1, <2>2 DEF Came, Goto
<1>7. ASSUME NEW u \in User, CallSend(r, u) PROVE Goal
  <2>1. PICK c, m :
          /\ Came(Request0("send", u, c, m, {}))
          /\ \/ Goto(r, "lookup") /\ reply' = reply
             \/ Refuse(r, "EmptyMessage")
    BY <1>2, <1>7 DEF CallSend
  <2> QED BY <2>1 DEF Came, Goto, Refuse, Answer
<1>8. ASSUME NEW u \in User, CallDelete(r, u) PROVE Goal
  <2>1. PICK c, m : Came(Request0("delete", u, c, m, {})) /\ Goto(r, "lookup") /\ reply' = reply
    BY <1>2, <1>8 DEF CallDelete
  <2> QED BY <2>1 DEF Came, Goto
<1> QED BY <1>3, <1>4, <1>5, <1>6, <1>7, <1>8 DEF Call

\* A request that does not arrive, and is not over, is the one it was.
LEMMA Continues ==
  ASSUME Inv, [Next]_vars, NEW r \in Request, phase'[r] # "idle", ~Call(r)
  PROVE  phase[r] # "idle" /\ call'[r] = call[r] /\ Recorded(r) /\ ~Respond(r)
<1>1. ~Respond(r)
  BY DEF Respond, Goto, Inv, TypeOK, HandlerType
<1>2. CASE Still(r)
  BY <1>1, <1>2 DEF Still
<1>3. CASE Step(r) \/ Fail(r)
  <2>1. phase[r] # "idle"
    BY <1>3 DEF Step, Lookup, GateAllows, GateDenies, Create, Resume, Insert, Sent,
                FindMessage, SoftDelete, Reselect, TakenBack, Clear, MarkRead, ListMessages,
                FindByParticipant, Preview, Fail
  <2>2. UNCHANGED call
    BY <1>3 DEF Step, Lookup, GateAllows, GateDenies, Create, Resume, Insert, Sent,
                FindMessage, SoftDelete, Reselect, TakenBack, Clear, MarkRead, ListMessages,
                FindByParticipant, Preview, Fail
  <2> QED BY <1>1, <1>3, <2>1, <2>2, RecordsKept DEF Inv
<1> QED BY <1>1, <1>2, <1>3, OwnSteps DEF Inv

-----------------------------------------------------------------------------
(* What was stored before, and what a reader is shown.                     *)

\* Rows stay in the past.
LEMMA PastStep ==
  ASSUME Inv, RowsInPast, [Next]_vars PROVE RowsInPast'
<1> SUFFICES ASSUME NEW m \in Message, messages'[m] # Null
             PROVE  messages'[m].createdAt \in Nat /\ messages'[m].createdAt <= clock'
  BY DEF RowsInPast
<1>1. clock \in Nat /\ clock' \in Nat /\ clock <= clock'
  BY ClockAdvances
<1>2. CASE messages[m] = Null
  BY <1>1, <1>2, RowsAdded
<1>3. CASE messages[m] # Null
  <2>1. messages'[m].createdAt = messages[m].createdAt
    BY <1>3, RowsKept DEF Became
  <2>2. messages[m].createdAt \in Nat /\ messages[m].createdAt <= clock
    BY <1>3 DEF RowsInPast
  <2> QED BY <1>1, <2>1, <2>2
<1> QED BY <1>2, <1>3

\* What was stored when a request came in goes on being stored.
LEMMA BeforeStep ==
  ASSUME Inv, [Next]_vars, NEW r \in Request, BeforeOK(r) PROVE BeforeOK(r)'
<1>1. ASSUME before'[r] = before[r] PROVE BeforeOK(r)'
  <2> SUFFICES ASSUME NEW w \in before[r] PROVE w \in Row /\ Became(w, messages'[w.id])
    BY <1>1 DEF BeforeOK
  <2>1. w \in Row /\ Became(w, messages[w.id])
    BY DEF BeforeOK
  <2>2. w.id \in Message
    BY <2>1 DEF Row
  <2>3. messages[w.id] # Null
    BY <2>1 DEF Became
  <2>4. Became(messages[w.id], messages'[w.id])
    BY <2>2, <2>3, RowsKept
  <2> QED BY <2>1, <2>4, BecameTrans
<1>2. CASE Call(r)
  <2>1. before'[r] \in SUBSET Rows /\ messages' = messages
    BY <1>2, CallAt DEF Inv, database
  <2>2. ASSUME NEW w \in Rows PROVE w \in Row /\ Became(w, messages[w.id])
    <3>1. PICK m \in Message : messages[m] # Null /\ w = messages[m]
      BY DEF Rows, Stored
    <3>2. w \in Row /\ w.id = m
      BY <3>1 DEF Inv, TypeOK, DatabaseType, TableOK
    <3> QED BY <3>1, <3>2, BecameSame
  <2> QED BY <2>1, <2>2 DEF BeforeOK
<1>3. CASE Respond(r)
  BY <1>3 DEF Respond, BeforeOK, Inv, TypeOK, ClientType
<1>4. CASE Step(r) \/ Fail(r)
  <2>1. before'[r] = before[r]
    BY <1>4, RecordsKept DEF Inv, Recorded
  <2> QED BY <1>1, <2>1
<1> QED BY <1>1, <1>2, <1>3, <1>4, OwnSteps DEF Still, Recorded, Inv

\* A handler says nothing before its answer, but for the previews.
LEMMA UnansweredStep ==
  ASSUME Inv, [Next]_vars, NEW r \in Request, Unanswered(r) PROVE Unanswered(r)'
<1> USE DEF Unanswered
<1>0. HandlerType
  BY DEF Inv, TypeOK
<1>1. CASE Still(r)
  BY <1>1 DEF Still
<1>2. CASE Call(r)
  BY <1>2, CallAt DEF Inv
<1>3. CASE Respond(r)
  BY <1>0, <1>3 DEF Respond, HandlerType
<1>4. ASSUME NEW o, NEW ws, NEW cs, Answer(r, o, ws, cs) PROVE Unanswered(r)'
  BY <1>0, <1>4, AnswerAt
<1>5. CASE Fail(r) \/ GateDenies(r) \/ Resume(r) \/ Sent(r) \/ TakenBack(r) \/ ListMessages(r)
  BY <1>4, <1>5 DEF Fail, GateDenies, Resume, Sent, TakenBack, ListMessages, Refuse
<1>6. CASE GateAllows(r) \/ Create(r) \/ Insert(r) \/ SoftDelete(r) \/ Reselect(r)
           \/ Clear(r) \/ MarkRead(r)
  BY <1>6 DEF GateAllows, Create, Insert, SoftDelete, Reselect, Clear, MarkRead
<1>7. CASE Lookup(r) \/ FindMessage(r)
  BY <1>4, <1>7 DEF Lookup, FindMessage, Refuse
<1>8. CASE FindByParticipant(r)
  BY <1>4, <1>8 DEF FindByParticipant, Goto
<1>9. CASE Preview(r)
  <2>1. PICK rows, convs : Answer(r, "ok", rows, convs) \/ UNCHANGED phase
    BY <1>9 DEF Preview
  <2>2. phase[r] = "preview"
    BY <1>9 DEF Preview
  <2> QED BY <1>4, <2>1, <2>2
<1> QED
  BY <1>1, <1>2, <1>3, <1>5, <1>6, <1>7, <1>8, <1>9, OwnSteps DEF Inv, Step

\* The newest of the rows there are.
LEMMA LatestExists ==
  ASSUME Inv, RowsInPast, NEW ws \in SUBSET Rows, ws # {}
  PROVE  Latest(ws) # {}
<1>1. clock \in Nat /\ \A w \in ws : w.createdAt \in Nat /\ w.createdAt <= clock
  <2>1. \A w \in ws : \E m \in Message : messages[m] # Null /\ w = messages[m]
    BY DEF Rows, Stored
  <2> QED BY <2>1 DEF RowsInPast, Inv, TypeOK, DatabaseType
<1> DEFINE Age(w) == clock - w.createdAt
<1>2. {Age(w) : w \in ws} \in SUBSET Nat
  BY <1>1
<1>3. {Age(w) : w \in ws} # {}
  OBVIOUS
<1>4. PICK n \in {Age(w) : w \in ws} : \A k \in {Age(w) : w \in ws} : n <= k
  BY <1>2, <1>3, MinExists
<1>5. PICK w \in ws : n = Age(w)
  OBVIOUS
<1>6. \A v \in ws : Age(w) <= Age(v)
  BY <1>4, <1>5
<1>7. \A v \in ws : v.createdAt <= w.createdAt
  BY <1>1, <1>6
<1> QED BY <1>7 DEF Latest

\* The awaits of each kind of reader.
LEMMA ReaderSteps ==
  ASSUME Inv, NEW r \in Request, Step(r)
  PROVE  /\ Asks(r, "list") => \/ phase[r] = "lookup" /\ Lookup(r)
                               \/ phase[r] = "page" /\ ListMessages(r)
         /\ Asks(r, "inbox") => \/ phase[r] = "inbox" /\ FindByParticipant(r)
                                \/ phase[r] = "preview" /\ Preview(r)
         /\ Asks(r, "clear") => \/ phase[r] = "lookup" /\ Lookup(r)
                                \/ phase[r] = "clear" /\ Clear(r)
                                \/ phase[r] = "resume" /\ Resume(r)
         /\ Asks(r, "read") => \/ phase[r] = "lookup" /\ Lookup(r)
                               \/ phase[r] = "mark" /\ MarkRead(r)
                               \/ phase[r] = "resume" /\ Resume(r)
<1>1. OnPath(r)
  BY DEF Inv
<1>2. /\ Lookup(r) => phase[r] = "lookup"
      /\ GateAllows(r) \/ GateDenies(r) => phase[r] = "gate"
      /\ Create(r) => phase[r] = "create"
      /\ Resume(r) => phase[r] = "resume"
      /\ Insert(r) => phase[r] = "insert"
      /\ Sent(r) => phase[r] = "inserted"
  BY DEF Lookup, GateAllows, GateDenies, Create, Resume, Insert, Sent
<1>3. /\ FindMessage(r) => phase[r] = "find"
      /\ SoftDelete(r) => phase[r] = "update"
      /\ Reselect(r) => phase[r] = "reselect"
      /\ TakenBack(r) => phase[r] = "tombstoned"
      /\ Clear(r) => phase[r] = "clear"
      /\ MarkRead(r) => phase[r] = "mark"
      /\ ListMessages(r) => phase[r] = "page"
      /\ FindByParticipant(r) => phase[r] = "inbox"
      /\ Preview(r) => phase[r] = "preview"
  BY DEF FindMessage, SoftDelete, Reselect, TakenBack, Clear, MarkRead, ListMessages,
         FindByParticipant, Preview
<1> QED BY <1>1, <1>2, <1>3 DEF Step, OnPath, Asks

\* What an answer says.
LEMMA AnswerSays ==
  ASSUME Inv, NEW r \in Request, NEW o, NEW ws, NEW cs, Answer(r, o, ws, cs)
  PROVE  /\ phase'[r] = "done" /\ reply'[r].outcome = o
         /\ reply'[r].rows = ws /\ reply'[r].convs = cs
<1>1. phase'[r] = "done" /\ reply'[r] = [outcome |-> o, rows |-> ws, convs |-> cs]
  BY AnswerAt DEF Inv, TypeOK
<1> QED BY <1>1

\* And a refusal, or a failure.
LEMMA RefusalSays ==
  ASSUME Inv, NEW r \in Request, NEW o, Refuse(r, o)
  PROVE  phase'[r] = "done" /\ reply'[r].outcome = o
BY AnswerSays DEF Refuse

\* Nobody is "idle" or refused who was asked something and answered "ok".
LEMMA Outcomes ==
  Null \notin AllOps \cup Refusal \cup {"ok", "Error"} /\ "ok" \notin Refusal \cup {"Error"}
BY ServiceAssumption DEF Refusal

\* A request that asks something is under way, and was unless it just arrived.
LEMMA AskedStill ==
  ASSUME Inv, Inv', [Next]_vars, NEW r \in Request, call'[r].op \in AllOps, ~Call(r)
  PROVE  phase[r] # "idle" /\ call'[r] = call[r] /\ Recorded(r) /\ ~Respond(r)
<1>1. OnPath(r)'
  BY DEF Inv
<1>2. phase'[r] # "idle"
  BY <1>1, Outcomes DEF OnPath, NoCall
<1> QED BY <1>2, Continues

\* What is put on record of a request that arrives.
LEMMA CallRecords ==
  ASSUME TypeOK, NEW r \in Request, Call(r)
  PROVE  LET k == call'[r] IN
         /\ k.op \in {"list", "inbox"} => marks'[r] = {Marks(clearedAt, k.user)}
         /\ k.op = "clear" => /\ since'[r] = {clock} \cup UNION {since[q] : q \in Racing(k)}
                              /\ known'[r] = clearedAt[k.conv][k.user]
         /\ k.op = "read" => known'[r] = lastReadAt[k.conv][k.user]
         /\ k.op \notin {"clear", "read"} => known'[r] = Null
         /\ \A q \in Request : q # r => since'[q] = since[q] /\ known'[q] = known[q]
<1>1. PICK k : Arrive(r, k)
  BY DEF Call, CallCreate, CallInbox, CallOnConversation, CallRead, CallSend, CallDelete
<1>2. call'[r] = k
  BY <1>1 DEF Arrive, TypeOK, ClientType
<1> QED BY <1>1, <1>2 DEF Arrive, TypeOK, ClientType

\* A request that has its answer waits for nothing more.
LEMMA DoneIsDone ==
  ASSUME TypeOK, [Next]_vars, NEW r \in Request, phase[r] = "done", ~Respond(r)
  PROVE  Still(r)
<1>1. ~Call(r)
  BY CallAt
<1>2. ~Step(r) /\ ~Fail(r)
  BY DEF Step, Lookup, GateAllows, GateDenies, Create, Resume, Insert, Sent,
         FindMessage, SoftDelete, Reselect, TakenBack, Clear, MarkRead, ListMessages,
         FindByParticipant, Preview, Fail
<1> QED BY <1>1, <1>2, OwnSteps

\* Whatever clears are applied, the marks on record keep up.
LEMMA MarksStep ==
  ASSUME Inv, Inv', [Next]_vars, NEW r \in Request, MarksOnRecord(r)
  PROVE  MarksOnRecord(r)'
<1> SUFFICES ASSUME call'[r].op \in {"list", "inbox"}, phase'[r] # "done"
             PROVE  Marks(clearedAt', call'[r].user) \in marks'[r]
  BY DEF MarksOnRecord
<1> DEFINE u == call[r].user
<1>1. CASE Call(r)
  <2>1. marks'[r] = {Marks(clearedAt, call'[r].user)} /\ clearedAt' = clearedAt
    BY <1>1, CallRecords, CallAt DEF Inv, database
  <2> QED BY <2>1
<1>2. CASE ~Call(r)
  <2>1. phase[r] # "idle" /\ call'[r] = call[r] /\ Recorded(r) /\ ~Respond(r)
    BY <1>2, AskedStill DEF AllOps
  <2>2. phase[r] # "done"
    BY <2>1, DoneIsDone DEF Still, Inv
  <2>3. Marks(clearedAt, u) \in marks'[r]
    BY <2>1, <2>2 DEF MarksOnRecord, Recorded
  <2>4. u \in User
    BY <2>1, CallFields DEF Inv, TypeOK, AllOps
  <2>5. ASSUME NEW q \in Request, Clear(q) PROVE Marks(clearedAt', u) \in marks'[r]
    <3>1. CASE call[q].user = u
      BY <2>1, <2>2, <2>5, <3>1 DEF Clear
    <3>2. CASE call[q].user # u
      <4>1. \A c \in Conversation : clearedAt'[c][u] = clearedAt[c][u]
        BY <2>4, <2>5, <3>2, StampWritten
      <4>2. Marks(clearedAt', u) = Marks(clearedAt, u)
        BY <4>1 DEF Marks
      <4> QED BY <2>3, <4>2
    <3> QED BY <3>1, <3>2
  <2> QED BY <2>1, <2>3, <2>5, StampsSet
<1> QED BY <1>1, <1>2

\* An answer stays what it was shown to be: rows stay stored, participants stay.
LEMMA AnswersStay ==
  ASSUME Inv, [Next]_vars, NEW r \in Request, phase[r] # "idle", BeforeOK(r),
         call'[r] = call[r], reply'[r] = reply[r], before'[r] = before[r], NEW m \in Cleared
  PROVE  /\ ShownBy(r, m) => ShownBy(r, m)'
         /\ ListedSoFar(r, m) => ListedSoFar(r, m)'
         /\ \A cs : NoneForgotten(r, m, cs) => NoneForgotten(r, m, cs)'
<1> DEFINE u == call[r].user
<1>1. ShownBy(r, m) => ShownBy(r, m)'
  BY DEF ShownBy
<1>2. reply[r].convs \in SUBSET Conversation
  BY DEF Inv, TypeOK, HandlerType, Replies
<1>3. ASSUME ListedSoFar(r, m) PROVE ListedSoFar(r, m)'
  <2>1. ASSUME NEW c \in reply[r].convs
        PROVE  /\ u \in members'[c]
               /\ m[c] # Null => \E w \in Rows' : w.conv = c /\ ~Hides(m[c], w)
    <3>1. c \in Conversation /\ u \in members[c]
      BY <1>2, <1>3, <2>1 DEF ListedSoFar
    <3>2. members'[c] = members[c]
      BY <3>1, MembersKept
    <3>3. ASSUME m[c] # Null PROVE \E w \in Rows' : w.conv = c /\ ~Hides(m[c], w)
      <4>1. PICK i \in Message : /\ messages[i] # Null /\ messages[i].conv = c
                                 /\ ~Hides(m[c], messages[i])
        BY <1>3, <2>1, <3>3 DEF ListedSoFar, Rows, Stored
      <4>2. Became(messages[i], messages'[i])
        BY <4>1, RowsKept
      <4>3. messages'[i] \in Rows' /\ messages'[i].conv = c /\ ~Hides(m[c], messages'[i])
        BY <4>1, <4>2 DEF Became, Rows, Stored, Hides
      <4> QED BY <4>3
    <3> QED BY <3>1, <3>2, <3>3
  <2>2. \A w \in reply[r].rows : w.conv \in reply[r].convs /\ ~Hides(m[w.conv], w)
    BY <1>3 DEF ListedSoFar
  <2> QED BY <2>1, <2>2 DEF ListedSoFar
<1>4. ASSUME NEW cs, NoneForgotten(r, m, cs) PROVE NoneForgotten(r, m, cs)'
  <2> SUFFICES ASSUME NEW w \in before[r], u \in members'[w.conv], ~Hides(m[w.conv], w)
               PROVE  w.conv \in reply[r].convs \cup cs
    BY DEF NoneForgotten
  <2>1. w.id \in Message /\ w.conv \in Conversation /\ Became(w, messages[w.id])
    BY DEF BeforeOK, Row
  <2>2. members[w.conv] # {}
    BY <2>1 DEF Became, Inv, TableOK
  <2>3. members'[w.conv] = members[w.conv]
    BY <2>1, <2>2, MembersKept
  <2> QED BY <1>4, <2>3 DEF NoneForgotten
<1> QED BY <1>1, <1>3, <1>4

\* What the query of a thread or of a preview returns, with the marker a it is given.
LEMMA QueryShows ==
  ASSUME Inv, NEW c \in Conversation, NEW a \in Int \cup {Null}, NEW r \in Request, BeforeOK(r)
  PROVE  /\ \A w \in Visible(c, a) : w.conv = c /\ ~Hides(a, w)
         /\ \A w \in before[r] : w.conv = c /\ ~Hides(a, w) =>
              \E v \in Visible(c, a) : v.id = w.id /\ (Deleted(w) => v = w)
<1>1. ASSUME NEW w \in Visible(c, a) PROVE w.conv = c /\ ~Hides(a, w)
  <2>1. Visible(c, a) \in SUBSET Row
    BY VisibleType DEF Inv, TypeOK
  <2>2. w.createdAt \in Int
    BY <1>1, <2>1 DEF Row, Instant
  <2> QED BY <1>1, <2>2 DEF Visible, Shows, Hides
<1>2. ASSUME NEW w \in before[r], w.conv = c, ~Hides(a, w)
      PROVE  \E v \in Visible(c, a) : v.id = w.id /\ (Deleted(w) => v = w)
  <2>1. w.id \in Message /\ w.createdAt \in Int /\ Became(w, messages[w.id])
    BY DEF BeforeOK, Row, Instant
  <2>2. messages[w.id] \in Rows
    BY <2>1 DEF Became, Rows, Stored
  <2>3. messages[w.id] \in Visible(c, a)
    BY <1>2, <2>1, <2>2 DEF Became, Visible, Shows, Hides
  <2> QED BY <2>1, <2>3 DEF Became
<1> QED BY <1>1, <1>2

\* A thread as it was asked for is what the reader gets.
LEMMA ThreadStep ==
  ASSUME Inv, Inv', [Next]_vars, NEW r \in Request,
         BeforeOK(r), Unanswered(r), MarksOnRecord(r), ThreadOnPath(r)
  PROVE  ThreadOnPath(r)'
<1> SUFFICES ASSUME Asks(r, "list")' PROVE ThreadOnPath(r)'
  BY DEF ThreadOnPath
<1> DEFINE c == call[r].conv
           u == call[r].user
<1>0. HandlerType /\ ClientType
  BY DEF Inv, TypeOK
<1>1. CASE Call(r)
  <2>1. phase'[r] = "lookup" /\ reply' = reply /\ phase[r] = "idle"
    BY <1>1, CallAt DEF Inv, Asks
  <2>2. reply'[r].outcome # "ok"
    BY <2>1, Outcomes DEF Unanswered, NoReply
  <2> QED BY <2>1, <2>2 DEF ThreadOnPath, Ok
<1>2. CASE ~Call(r)
  <2>1. phase[r] # "idle" /\ call'[r] = call[r] /\ Recorded(r) /\ ~Respond(r)
    BY <1>2, AskedStill DEF Asks, AllOps
  <2>2. Asks(r, "list") /\ c \in Conversation /\ u \in User
    BY <1>0, <2>1, CallFields DEF Asks, AllOps
  <2>3. \A m \in marks[r] : m \in Cleared /\ m \in marks'[r]
    BY <1>0, <2>1 DEF ClientType, Recorded
  <2>4. ASSUME phase'[r] = "page" => \E m \in marks'[r] : m[c] = snap'[r][c],
               Ok(r)' => \E m \in marks'[r] : ShownBy(r, m)'
        PROVE  ThreadOnPath(r)'
    BY <2>1, <2>4 DEF ThreadOnPath
  <2>5. CASE Still(r)
    <3>1. phase'[r] = "page" => \E m \in marks'[r] : m[c] = snap'[r][c]
      BY <2>2, <2>3, <2>5 DEF Still, ThreadOnPath
    <3>2. ASSUME Ok(r)' PROVE \E m \in marks'[r] : ShownBy(r, m)'
      <4>1. PICK m \in marks[r] : ShownBy(r, m)
        BY <2>2, <2>5, <3>2 DEF ThreadOnPath, Still, Ok
      <4>2. ShownBy(r, m)'
        BY <2>1, <2>3, <2>5, <4>1, AnswersStay DEF Still, Recorded
      <4> QED BY <2>3, <4>2
    <3> QED BY <2>4, <3>1, <3>2
  <2>6. CASE Fail(r)
    <3>1. phase'[r] = "done" /\ reply'[r].outcome = "Error"
      BY <2>6, RefusalSays DEF Fail, Failure
    <3> QED BY <3>1, Outcomes DEF ThreadOnPath, Ok
  <2>7. CASE Lookup(r)
    <3>1. ASSUME NEW o \in Refusal, Refuse(r, o) PROVE ThreadOnPath(r)'
      <4>1. phase'[r] = "done" /\ reply'[r].outcome \in Refusal
        BY <3>1, RefusalSays
      <4> QED BY <4>1, Outcomes DEF ThreadOnPath, Ok
    <3>2. CASE Goto(r, AfterLookup[call[r].op]) /\ reply' = reply
      <4>1. snap'[r][c] = clearedAt[c][u]
        BY <1>0, <2>2, <2>7, <3>2, Outcomes DEF Lookup, HandlerType, Asks, database,
           Refuse, Answer, Cleared, Goto, AfterLookup
      <4>2. Marks(clearedAt, u) \in marks[r] /\ Marks(clearedAt, u)[c] = clearedAt[c][u]
        BY <2>2, <2>7 DEF Lookup, MarksOnRecord, Asks, Marks
      <4>3. reply'[r].outcome # "ok"
        BY <2>7, <3>2, Outcomes DEF Lookup, Unanswered, NoReply
      <4>4. \E m \in marks'[r] : m[c] = snap'[r][c]
        BY <2>3, <4>1, <4>2
      <4> QED BY <2>4, <4>3, <4>4 DEF Ok
    <3>3. {"ConversationNotFound", "NotAParticipant"} \subseteq Refusal
      BY DEF Refusal
    <3> QED BY <2>7, <3>1, <3>2, <3>3 DEF Lookup
  <2>8. CASE ListMessages(r)
    <3>1. phase[r] = "page" /\ Answer(r, "ok", Visible(c, snap[r][c]), {})
      BY <2>8 DEF ListMessages
    <3>2. phase'[r] = "done" /\ reply'[r].rows = Visible(c, snap[r][c])
      BY <3>1, AnswerSays
    <3>3. PICK m \in marks[r] : m[c] = snap[r][c]
      BY <2>2, <3>1 DEF ThreadOnPath
    <3>4. m \in marks'[r] /\ m[c] \in Int \cup {Null}
      BY <2>2, <2>3 DEF Cleared, Instant
    <3>5. /\ \A w \in Visible(c, m[c]) : w.conv = c /\ ~Hides(m[c], w)
          /\ \A w \in before[r] : w.conv = c /\ ~Hides(m[c], w) =>
               \E v \in Visible(c, m[c]) : v.id = w.id /\ (Deleted(w) => v = w)
      <4> DEFINE a == m[c]
      <4>1. a \in Int \cup {Null} /\ c \in Conversation
        BY <2>2, <3>4
      <4> HIDE DEF a, c
      <4>2. /\ \A w \in Visible(c, a) : w.conv = c /\ ~Hides(a, w)
            /\ \A w \in before[r] : w.conv = c /\ ~Hides(a, w) =>
                 \E v \in Visible(c, a) : v.id = w.id /\ (Deleted(w) => v = w)
        BY <4>1, QueryShows
      <4> QED BY <4>2 DEF a
    <3>6. ShownBy(r, m)'
      BY <2>1, <3>2, <3>3, <3>5 DEF ShownBy, Recorded
    <3> QED BY <2>4, <3>2, <3>4, <3>6
  <2> QED BY <1>2, <2>1, <2>2, <2>5, <2>6, <2>7, <2>8, OwnSteps, ReaderSteps DEF Inv
<1> QED BY <1>1, <1>2

\* A preview adds a conversation rightly, or leaves it out rightly.
LEMMA PreviewStep ==
  ASSUME Inv, RowsInPast, NEW r \in Request, Asks(r, "inbox"), Preview(r),
         BeforeOK(r), InboxOnPath(r)
  PROVE  InboxOnPath(r)'
<1> DEFINE u == call[r].user
<1>0. /\ phase[r] = "preview" /\ u \in User
      /\ UNCHANGED <<messages, members, call, before, marks>>
  <2>1. phase[r] = "preview" /\ UNCHANGED <<messages, members, call, before, marks>>
    BY DEF Preview, database, history
  <2>2. u \in User
    BY CallFields DEF Inv, TypeOK, Asks, AllOps
  <2> QED BY <2>1, <2>2
<1>1. PICK m \in marks[r] : Previewing(r, m)
  BY <1>0 DEF InboxOnPath
<1>2. PICK c \in todo[r] :
        \E ws \in {{w} : w \in Latest(Visible(c, snap[r][c]))}
                    \cup (IF Latest(Visible(c, snap[r][c])) = {} THEN {{}} ELSE {}) :
          LET rows == reply[r].rows \cup ws
              convs == IF Listed(snap[r][c], ws) THEN reply[r].convs \cup {c} ELSE reply[r].convs IN
          IF todo[r] = {c} THEN Answer(r, "ok", rows, convs)
          ELSE /\ todo' = [todo EXCEPT ![r] = @ \ {c}]
               /\ reply' = [reply EXCEPT ![r].rows = rows, ![r].convs = convs]
               /\ UNCHANGED <<phase, at, snap, row>>
  BY DEF Preview
<1>3. PICK ws \in {{w} : w \in Latest(Visible(c, snap[r][c]))}
                    \cup (IF Latest(Visible(c, snap[r][c])) = {} THEN {{}} ELSE {}) :
        LET rows == reply[r].rows \cup ws
            convs == IF Listed(snap[r][c], ws) THEN reply[r].convs \cup {c} ELSE reply[r].convs IN
        IF todo[r] = {c} THEN Answer(r, "ok", rows, convs)
        ELSE /\ todo' = [todo EXCEPT ![r] = @ \ {c}]
             /\ reply' = [reply EXCEPT ![r].rows = rows, ![r].convs = convs]
             /\ UNCHANGED <<phase, at, snap, row>>
  BY <1>2
<1> DEFINE after == snap[r][c]
           rows == reply[r].rows \cup ws
           convs == IF Listed(after, ws) THEN reply[r].convs \cup {c} ELSE reply[r].convs
<1>4. /\ c \in Conversation /\ u \in members[c] /\ after = m[c]
      /\ after \in Int \cup {Null}
  <2>1. c \in Conversation
    BY DEF Inv, TypeOK, HandlerType
  <2>2. m \in Cleared /\ u \in members[c] /\ after = m[c]
    BY <1>1 DEF Previewing
  <2> QED BY <2>1, <2>2 DEF Cleared, Instant
<1>5. ws \subseteq Visible(c, after) /\ (Visible(c, after) # {} => ws # {})
  <2>1. Visible(c, after) \subseteq Rows
    BY DEF Visible
  <2>2. Visible(c, after) # {} => Latest(Visible(c, after)) # {}
    BY <2>1, LatestExists
  <2>3. Latest(Visible(c, after)) \subseteq Visible(c, after)
    BY DEF Latest
  <2> QED BY <2>2, <2>3
<1> HIDE DEF after
<1>6. /\ \A w \in Visible(c, after) : w.conv = c /\ ~Hides(after, w)
      /\ \A w \in before[r] : w.conv = c /\ ~Hides(after, w) => Visible(c, after) # {}
  <2>1. /\ \A w \in Visible(c, after) : w.conv = c /\ ~Hides(after, w)
        /\ \A w \in before[r] : w.conv = c /\ ~Hides(after, w) =>
             \E v \in Visible(c, after) : v.id = w.id /\ (Deleted(w) => v = w)
    BY <1>4, QueryShows
  <2> QED BY <2>1
<1>7. \A w \in ws : w.conv = c /\ ~Hides(m[c], w) /\ w \in Rows
  BY <1>4, <1>5, <1>6 DEF Visible
<1>8. \A w \in before[r] : w.conv = c /\ ~Hides(m[c], w) => ws # {}
  BY <1>4, <1>5, <1>6
<1>9. \A d \in convs :
        u \in members[d] /\ (m[d] # Null => \E w \in Rows : w.conv = d /\ ~Hides(m[d], w))
  BY <1>1, <1>4, <1>7 DEF Previewing, ListedSoFar, Listed
<1>10. \A w \in rows : w.conv \in convs /\ ~Hides(m[w.conv], w)
  BY <1>1, <1>7 DEF Previewing, ListedSoFar, Listed
<1>11. \A w \in before[r] : u \in members[w.conv] /\ ~Hides(m[w.conv], w) =>
                              w.conv \in convs \cup (todo[r] \ {c})
  BY <1>1, <1>8 DEF Previewing, NoneForgotten, Listed
<1> HIDE DEF rows, convs, after
<1>12. reply'[r].rows = rows /\ reply'[r].convs = convs
  <2>1. CASE todo[r] = {c}
    <3>1. Answer(r, "ok", rows, convs)
      BY <1>3, <2>1 DEF rows, convs, after
    <3> QED BY <3>1, AnswerSays
  <2>2. CASE todo[r] # {c}
    <3>1. reply' = [reply EXCEPT ![r].rows = rows, ![r].convs = convs]
      BY <1>3, <2>2 DEF rows, convs, after
    <3>2. reply \in [Request -> Replies]
      BY DEF Inv, TypeOK, HandlerType
    <3> QED BY <3>1, <3>2 DEF Replies
  <2> QED BY <2>1, <2>2
<1>13. ListedSoFar(r, m)'
  BY <1>0, <1>9, <1>10, <1>12 DEF ListedSoFar, Rows, Stored
<1>14. CASE todo[r] = {c}
  <2>1. phase'[r] = "done"
    BY <1>3, <1>14, AnswerSays
  <2>2. ListedBy(r, m)'
    BY <1>13, <1>0, <1>11, <1>12, <1>14 DEF ListedSoFar, ListedBy
  <2> QED BY <1>0, <2>1, <2>2 DEF InboxOnPath
<1>15. CASE todo[r] # {c}
  <2>1. todo' = [todo EXCEPT ![r] = @ \ {c}] /\ UNCHANGED <<phase, snap>>
    BY <1>3, <1>15
  <2>2. todo'[r] = todo[r] \ {c}
    BY <2>1 DEF Inv, TypeOK, HandlerType
  <2>3. Previewing(r, m)'
    BY <1>0, <1>1, <1>11, <1>12, <1>13, <2>1, <2>2 DEF Previewing, NoneForgotten
  <2>4. reply'[r].outcome # "ok"
    <3>1. reply'[r].outcome = reply[r].outcome
      <4>1. reply' = [reply EXCEPT ![r].rows = rows, ![r].convs = convs]
        BY <1>3, <1>15 DEF rows, convs, after
      <4>2. reply \in [Request -> Replies]
        BY DEF Inv, TypeOK, HandlerType
      <4> QED BY <4>1, <4>2 DEF Replies
    <3>2. reply[r].outcome = Null
      BY <1>0 DEF Inv, OnPath
    <3> QED BY <3>1, <3>2, Outcomes
  <2> QED BY <1>0, <2>3, <2>4 DEF InboxOnPath, Ok
<1> QED BY <1>14, <1>15

\* The list of conversations as it was asked for is what the user gets.
LEMMA InboxStep ==
  ASSUME Inv, Inv', RowsInPast, [Next]_vars, NEW r \in Request,
         BeforeOK(r), Unanswered(r), MarksOnRecord(r), InboxOnPath(r)
  PROVE  InboxOnPath(r)'
<1> SUFFICES ASSUME Asks(r, "inbox")' PROVE InboxOnPath(r)'
  BY DEF InboxOnPath
<1> DEFINE u == call[r].user
<1>0. HandlerType /\ ClientType
  BY DEF Inv, TypeOK
<1>1. CASE Call(r)
  <2>1. phase'[r] = "inbox" /\ reply' = reply /\ phase[r] = "idle"
    BY <1>1, CallAt DEF Inv, Asks
  <2>2. reply'[r].outcome # "ok"
    BY <2>1, Outcomes DEF Unanswered, NoReply
  <2> QED BY <2>1, <2>2 DEF InboxOnPath, Ok
<1>2. CASE ~Call(r)
  <2>1. phase[r] # "idle" /\ call'[r] = call[r] /\ Recorded(r) /\ ~Respond(r)
    BY <1>2, AskedStill DEF Asks, AllOps
  <2>2. Asks(r, "inbox") /\ u \in User
    BY <1>0, <2>1, CallFields DEF Asks, AllOps
  <2>3. \A m \in marks[r] : m \in Cleared /\ m \in marks'[r]
    BY <1>0, <2>1 DEF ClientType, Recorded
  <2>5. CASE Still(r)
    <3>1. \A m \in marks[r] :
            /\ ListedSoFar(r, m) => ListedSoFar(r, m)'
            /\ \A cs : NoneForgotten(r, m, cs) => NoneForgotten(r, m, cs)'
      BY <2>1, <2>3, <2>5, AnswersStay DEF Still, Recorded
    <3>2. ASSUME phase'[r] = "preview" PROVE \E m \in marks'[r] : Previewing(r, m)'
      <4>1. PICK m \in marks[r] : Previewing(r, m)
        BY <2>2, <2>5, <3>2 DEF InboxOnPath, Still
      <4>2. ASSUME NEW c \in todo[r] PROVE u \in members'[c] /\ snap[r][c] = m[c]
        <5>1. c \in Conversation /\ u \in members[c] /\ snap[r][c] = m[c]
          BY <1>0, <4>1 DEF HandlerType, Previewing
        <5>2. members'[c] = members[c]
          BY <5>1, MembersKept
        <5> QED BY <5>1, <5>2
      <4>3. ListedSoFar(r, m)' /\ NoneForgotten(r, m, todo[r])'
        <5>1. ListedSoFar(r, m) /\ NoneForgotten(r, m, todo[r]) /\ todo'[r] = todo[r]
          BY <2>5, <4>1 DEF Previewing, Still
        <5> QED BY <3>1, <5>1 DEF NoneForgotten
      <4>4. Previewing(r, m)'
        BY <2>1, <2>3, <2>5, <4>2, <4>3 DEF Previewing, Still
      <4> QED BY <2>3, <4>4
    <3>3. ASSUME Ok(r)' PROVE \E m \in marks'[r] : ListedBy(r, m)'
      <4>1. PICK m \in marks[r] : ListedBy(r, m)
        BY <2>2, <2>5, <3>3 DEF InboxOnPath, Still, Ok
      <4>2. ListedSoFar(r, m) /\ NoneForgotten(r, m, {})
        BY <4>1 DEF ListedBy, ListedSoFar, NoneForgotten
      <4>3. ListedSoFar(r, m)' /\ NoneForgotten(r, m, {})'
        BY <3>1, <4>2
      <4>4. ListedBy(r, m)'
        BY <4>3 DEF ListedBy, ListedSoFar, NoneForgotten
      <4> QED BY <2>3, <4>4
    <3> QED BY <3>2, <3>3 DEF InboxOnPath
  <2>6. CASE Fail(r)
    <3>1. phase'[r] = "done" /\ reply'[r].outcome = "Error"
      BY <2>6, RefusalSays DEF Fail, Failure
    <3> QED BY <3>1, Outcomes DEF InboxOnPath, Ok
  <2>7. CASE FindByParticipant(r)
    <3> DEFINE Mine == {c \in Conversation : u \in members[c]}
    <3>1. phase[r] = "inbox" /\ UNCHANGED <<members, clearedAt, call, before>>
      BY <2>7 DEF FindByParticipant, database, history
    <3>2. PICK m \in marks[r], mine \in {Mine} :
            m \in Cleared /\ \A c \in Conversation : m[c] = clearedAt[c][u]
      BY <2>2, <2>3, <3>1 DEF MarksOnRecord, Asks, Marks
    <3>3. CASE mine = {} /\ Answer(r, "ok", {}, {})
      <4>1. phase'[r] = "done" /\ reply'[r].rows = {} /\ reply'[r].convs = {}
        BY <3>3, AnswerSays
      <4>2. \A w \in before[r] : u \notin members[w.conv]
        BY <3>2, <3>3 DEF BeforeOK, Row
      <4>3. ListedBy(r, m)'
        BY <3>1, <4>1, <4>2 DEF ListedBy
      <4> QED BY <2>3, <4>1, <4>3 DEF InboxOnPath
    <3>4. CASE /\ todo' = [todo EXCEPT ![r] = mine] /\ Goto(r, "preview") /\ reply' = reply
               /\ snap' = [snap EXCEPT ![r] =
                             [c \in Conversation |-> IF c \in mine THEN clearedAt[c][u] ELSE Null]]
      <4>1. reply'[r] = NoReply
        BY <3>1, <3>4 DEF Unanswered
      <4>2. todo'[r] = mine /\ \A c \in mine : snap'[r][c] = clearedAt[c][u]
        BY <1>0, <3>4 DEF HandlerType
      <4>3. ListedSoFar(r, m)'
        BY <4>1 DEF ListedSoFar, NoReply
      <4>4. NoneForgotten(r, m, mine)'
        <5> SUFFICES ASSUME NEW w \in before[r], u \in members[w.conv]
                     PROVE  w.conv \in mine
          BY <3>1 DEF NoneForgotten
        <5>1. w.conv \in Conversation
          BY DEF BeforeOK, Row
        <5> QED BY <3>2, <5>1
      <4>5. Previewing(r, m)'
        <5>1. \A c \in mine : u \in members[c] /\ snap'[r][c] = m[c]
          BY <3>2, <4>2
        <5> QED BY <3>1, <3>2, <4>2, <4>3, <4>4, <5>1 DEF Previewing, NoneForgotten
      <4>6. reply'[r].outcome # "ok"
        BY <4>1, Outcomes DEF NoReply
      <4> QED BY <2>3, <4>5, <4>6 DEF InboxOnPath, Ok
    <3> QED BY <2>7, <3>2, <3>3, <3>4 DEF FindByParticipant
  <2>8. CASE Preview(r)
    BY <2>2, <2>8, PreviewStep
  <2> QED BY <1>2, <2>1, <2>2, <2>5, <2>6, <2>7, <2>8, OwnSteps, ReaderSteps DEF Inv
<1> QED BY <1>1, <1>2

\* At first nobody reads anything.
LEMMA ReadsInit == Init => ReadsInv
<1> SUFFICES ASSUME Init PROVE ReadsInv
  OBVIOUS
<1>1. Inv
  BY InitInv
<1>2. RowsInPast
  BY DEF Init, RowsInPast
<1>3. ASSUME NEW r \in Request
      PROVE  /\ BeforeOK(r) /\ Unanswered(r) /\ MarksOnRecord(r)
             /\ ThreadOnPath(r) /\ InboxOnPath(r)
  <2>1. call[r].op \notin {"list", "inbox"}
    BY Outcomes DEF Init, NoCall, AllOps
  <2> QED BY <2>1 DEF Init, BeforeOK, Unanswered, MarksOnRecord, ThreadOnPath, InboxOnPath, Asks
<1> QED BY <1>1, <1>2, <1>3 DEF ReadsInv

\* Every step, of a reader or of anyone else, keeps what readers are promised.
LEMMA ReadsStep == ReadsInv /\ [Next]_vars => ReadsInv'
<1> SUFFICES ASSUME ReadsInv, [Next]_vars PROVE ReadsInv'
  OBVIOUS
<1>1. Inv /\ Inv' /\ RowsInPast /\ RowsInPast'
  BY InvNext, PastStep DEF ReadsInv
<1>2. ASSUME NEW r \in Request
      PROVE  /\ BeforeOK(r)' /\ Unanswered(r)' /\ MarksOnRecord(r)'
             /\ ThreadOnPath(r)' /\ InboxOnPath(r)'
  BY <1>1, BeforeStep, UnansweredStep, MarksStep, ThreadStep, InboxStep DEF ReadsInv
<1> QED BY <1>1, <1>2 DEF ReadsInv

\* The inductive invariant behind the reads.
THEOREM ReadsInvariance == Spec => []ReadsInv
<1>1. ReadsInv /\ [Next]_vars => ReadsInv'
  BY ReadsStep
<1> QED BY <1>1, ReadsInit, PTL DEF Spec

\* listMessages: as of one moment between its two queries, nothing the reader had
\* cleared, everything else that was stored when the thread was asked for, and no text
\* taken back before that, whatever anyone sends, deletes and clears meanwhile.
THEOREM ThreadsAreCurrent == Spec => []ThreadIsCurrent
<1>1. ReadsInv => ThreadIsCurrent
  BY DEF ReadsInv, ThreadOnPath, ThreadIsCurrent
<1> QED BY <1>1, ReadsInvariance, PTL

\* listConversations: read in as many queries as there are conversations, and still it
\* lists, as of one moment, those with something the user had not cleared and those
\* never cleared, and no other.
THEOREM ListMatchesThreads == Spec => []ListAgrees
<1>1. ReadsInv => ListAgrees
  BY DEF ReadsInv, InboxOnPath, ListAgrees
<1> QED BY <1>1, ReadsInvariance, PTL

-----------------------------------------------------------------------------
(* Reading a clock and storing what it said.                               *)

\* Cutting to milliseconds goes back, and keeps the order of instants.
LEMMA TruncateMonotone ==
  ASSUME NEW s \in Int, NEW t \in Int, s <= t
  PROVE  Truncate(s) <= s /\ Truncate(s) <= Truncate(t)
<1>1. Truncate(s) <= s
  BY ServiceAssumption DEF Truncate
<1>2. Truncate(s) <= Truncate(t)
  BY ServiceAssumption DEF Truncate
<1> QED BY <1>1, <1>2

\* What a clock has shown it has shown for good.
LEMMA ShownStays ==
  ASSUME Inv, [Next]_vars, NEW v, Shown(v) PROVE Shown(v)'
<1>1. clock \in Nat /\ clock' \in Nat /\ clock <= clock'
  BY ClockAdvances
<1>2. 0..clock \subseteq 0..clock'
  BY <1>1
<1> QED BY <1>2 DEF Shown

\* What a clock shows now: it has shown it, it is no earlier than what any clock
\* has shown, but for what the clocks differ by, and it reaches any moment so far.
LEMMA DateIsNow ==
  ASSUME Inv, NEW d \in Date
  PROVE  /\ d # Null /\ d \in Int /\ Shown(d)
         /\ \A k : Shown(k) => NoEarlier(d, k)
         /\ \A ts \in SUBSET Nat : ts # {} /\ (\A t \in ts : t <= clock) => Reaches(d, ts)
<1>1. PICK s \in Skew : d = Truncate(clock + s)
  BY DEF Date
<1>2. clock \in Nat /\ clock \in 0..clock /\ s \in Int /\ clock + s \in Int
  BY ServiceAssumption DEF Inv, TypeOK, DatabaseType
<1>3. d \in Int /\ d # Null
  BY <1>1, <1>2, TruncateType, ServiceAssumption
<1>4. Shown(d)
  BY <1>1, <1>2 DEF Shown
<1>5. ASSUME NEW t \in 0..clock, NEW z \in Int PROVE Truncate(t + z) \in Int /\ Truncate(t + z) <= t + z
  BY <1>2, TruncateType, TruncateMonotone
<1>6. ASSUME NEW x \in Int, x <= clock + s PROVE Truncate(x) \in Int /\ d >= Truncate(x)
  BY <1>1, <1>2, <1>3, <1>6, TruncateType, TruncateMonotone
<1>7. ASSUME NEW k, Shown(k) PROVE NoEarlier(d, k)
  <2>1. PICK z \in Skew, t \in 0..clock : k = Truncate(t + z)
    BY <1>7 DEF Shown
  <2>2. z \in Int
    BY ServiceAssumption
  <2>3. k \in Int /\ k <= t + z
    BY <1>5, <2>1, <2>2
  <2>4. k + s - z \in Int /\ k + s - z <= clock + s
    BY <1>2, <2>2, <2>3
  <2>5. d >= Truncate(k + s - z)
    BY <1>6, <2>4
  <2> QED BY <1>3, <2>5 DEF NoEarlier
<1>8. ASSUME NEW ts \in SUBSET Nat, ts # {}, \A t \in ts : t <= clock PROVE Reaches(d, ts)
  <2>1. PICK t \in ts : t \in Nat /\ t <= clock
    BY <1>8
  <2>2. t + s \in Int /\ t + s <= clock + s
    BY <1>2, <2>1
  <2>3. d >= Truncate(t + s)
    BY <1>6, <2>2
  <2> QED BY <1>3, <2>1, <2>3 DEF Reaches
<1> QED BY <1>3, <1>4, <1>7, <1>8

\* Nothing is stored that no clock has shown.
LEMMA MarkersShownStep ==
  ASSUME MarkersInv, [Next]_vars PROVE MarkersShown'
<1>0. Inv /\ MarkersShown /\ \A r \in Request : MarkerOnPath(r)
  BY DEF MarkersInv
<1> SUFFICES ASSUME NEW c \in Conversation, NEW u \in User
             PROVE  /\ (clearedAt[c][u] # Null => Shown(clearedAt[c][u]))'
                    /\ (lastReadAt[c][u] # Null => Shown(lastReadAt[c][u]))'
  BY DEF MarkersShown
<1>1. ASSUME NEW v, Shown(v) PROVE \A x : x = v => Shown(x)'
  BY <1>0, <1>1, ShownStays
<1>2. ASSUME NEW r \in Request, Clear(r) \/ MarkRead(r) PROVE Shown(at[r])
  BY <1>0, <1>2, StampWritten DEF MarkerOnPath, Writing
<1>3. clearedAt'[c][u] # Null => \E v : Shown(v) /\ clearedAt'[c][u] = v
  <2>1. CASE clearedAt' = clearedAt
    BY <1>0, <2>1 DEF MarkersShown
  <2>2. ASSUME NEW r \in Request, Clear(r)
        PROVE  clearedAt'[c][u] \in {at[r], clearedAt[c][u]}
    BY <1>0, <2>2, StampWritten
  <2> QED BY <1>0, <1>2, <2>1, <2>2, StampsSet DEF MarkersShown
<1>4. lastReadAt'[c][u] # Null => \E v : Shown(v) /\ lastReadAt'[c][u] = v
  <2>1. CASE lastReadAt' = lastReadAt
    BY <1>0, <2>1 DEF MarkersShown
  <2>2. ASSUME NEW r \in Request, MarkRead(r)
        PROVE  lastReadAt'[c][u] \in {at[r], lastReadAt[c][u]}
    BY <1>0, <2>2, StampWritten
  <2> QED BY <1>0, <1>2, <2>1, <2>2, StampsSet DEF MarkersShown
<1> QED BY <1>1, <1>3, <1>4 DEF Shown

\* A request that goes on to write a marker looks a conversation up first.
LEMMA LookupReads ==
  ASSUME Inv, NEW r \in Request, Lookup(r), phase'[r] # "done"
  PROVE  IF call[r].op = "clear" THEN at'[r] \in Date ELSE at'[r] = at[r]
<1>1. ASSUME NEW o, Refuse(r, o) PROVE FALSE
  BY <1>1, RefusalSays
<1> QED BY <1>1 DEF Lookup, Inv, TypeOK, HandlerType

\* What a request is about to write does not fall behind what it found.
LEMMA MarkerStep ==
  ASSUME MarkersInv, Inv', [Next]_vars, NEW r \in Request PROVE MarkerOnPath(r)'
<1>0. Inv /\ MarkersShown /\ Unanswered(r) /\ MarkerOnPath(r) /\ HandlerType
  BY DEF MarkersInv, Inv, TypeOK
<1>1. ASSUME NEW v, Shown(v) PROVE \A x : x = v => Shown(x)'
  BY <1>0, <1>1, ShownStays
<1>2. CASE Still(r)
  BY <1>0, <1>1, <1>2 DEF Still, Recorded, MarkerOnPath, Writing, Asks
<1>3. CASE Call(r)
  <2> DEFINE k == call'[r]
  <2>1. clearedAt' = clearedAt /\ lastReadAt' = lastReadAt /\ phase'[r] # "clear"
    BY <1>0, <1>3, CallAt DEF Inv, database
  <2>2. k.op \in {"clear", "read"} => k.conv \in Conversation /\ k.user \in User
    <3>1. k \in Calls
      BY DEF Inv, TypeOK, ClientType
    <3> HIDE DEF k
    <3> QED BY <3>1, Outcomes DEF Calls, NoCall, AllOps
  <2>3. known'[r] # Null => Shown(known'[r])
    BY <1>0, <1>3, <2>2, CallRecords DEF MarkersShown, Inv
  <2>4. CASE Writing(r)'
    <3>1. at'[r] \in Date
      BY <1>0, <1>3, <2>1, <2>4, CallAt DEF Writing, Asks, Inv
    <3>2. at'[r] # Null /\ Shown(at'[r]) /\ (known'[r] # Null => NoEarlier(at'[r], known'[r]))
      BY <1>0, <2>3, <3>1, DateIsNow
    <3> QED BY <1>1, <2>3, <3>2 DEF MarkerOnPath, NoEarlier
  <2> QED BY <1>1, <2>3, <2>4 DEF MarkerOnPath
<1>4. CASE Respond(r)
  <2>1. known'[r] = Null /\ phase'[r] = "idle" /\ call'[r] = NoCall
    BY <1>0, <1>4 DEF Respond, Goto, Inv, TypeOK, HandlerType, ClientType
  <2>2. ~Writing(r)'
    BY <2>1 DEF Writing
  <2> QED BY <2>1, <2>2 DEF MarkerOnPath
<1>5. CASE Step(r) \/ Fail(r)
  <2>1. known'[r] = known[r] /\ call'[r] = call[r]
    <3>1. known'[r] = known[r]
      BY <1>0, <1>5, RecordsKept DEF Inv, Recorded
    <3>2. call' = call
      BY <1>5 DEF Step, Lookup, GateAllows, GateDenies, Create, Resume, Insert, Sent,
                FindMessage, SoftDelete, Reselect, TakenBack, Clear, MarkRead, ListMessages,
                FindByParticipant, Preview, Fail
    <3> QED BY <3>1, <3>2
  <2>2. known'[r] # Null => Shown(known'[r])
    BY <1>0, <2>1 DEF MarkerOnPath
  <2>3. CASE Writing(r)'
    <3>1. call[r].op \in {"clear", "read"} /\ phase'[r] \notin {"done", "resume"}
      BY <2>1, <2>3 DEF Writing, Inv, OnPath, Asks
    <3>2. ~Fail(r)
      BY <1>0, <3>1, RefusalSays DEF Fail
    <3>3. ~Clear(r) /\ ~MarkRead(r)
      BY <1>0, <3>1 DEF Clear, MarkRead, Goto, HandlerType
    <3>4. ~Resume(r)
      BY <1>0, <3>1, AnswerSays DEF Resume
    <3>5. Lookup(r) /\ phase[r] = "lookup"
      BY <1>0, <1>5, <3>1, <3>2, <3>3, <3>4, ReaderSteps DEF Asks
    <3>6. IF call[r].op = "clear" THEN at'[r] \in Date ELSE at'[r] = at[r] /\ Writing(r)
      BY <1>0, <3>1, <3>5, LookupReads DEF Writing, Asks
    <3>7. at'[r] # Null /\ Shown(at'[r]) /\ (known'[r] # Null => NoEarlier(at'[r], known'[r]))
      BY <1>0, <2>1, <2>2, <3>6, DateIsNow DEF MarkerOnPath
    <3> QED BY <1>1, <2>2, <3>7 DEF MarkerOnPath, NoEarlier
  <2> QED BY <1>1, <2>2, <2>3 DEF MarkerOnPath
<1> QED BY <1>0, <1>2, <1>3, <1>4, <1>5, OwnSteps DEF Inv

\* Two clears of one user in one conversation ask the same.
LEMMA SameClear ==
  ASSUME TypeOK, NEW q \in Request, NEW r \in Request, Asks(q, "clear"), Asks(r, "clear"),
         call[q].conv = call[r].conv, call[q].user = call[r].user
  PROVE  call[q] = call[r]
<1>1. call[q] \in Calls /\ call[r] \in Calls
  BY DEF TypeOK, ClientType
<1>2. \A k \in Calls : k.op = "clear" =>
        k = [op |-> "clear", user |-> k.user, conv |-> k.conv, msg |-> Null, with |-> {}]
  BY Outcomes DEF Calls, NoCall, AllOps
<1> QED BY <1>1, <1>2 DEF Asks

\* What has been cleared up to some moment is not uncovered by a clear it raced.
LEMMA ReachedStays ==
  ASSUME MarkersInv, [Next]_vars, NEW r \in Request, Asks(r, "clear"),
         Reaches(clearedAt[call[r].conv][call[r].user], since[r])
  PROVE  Reaches(clearedAt'[call[r].conv][call[r].user], since[r])
<1> DEFINE c == call[r].conv
           u == call[r].user
<1>0. Inv /\ TypeOK /\ \A q \in Request : Harmless(q, r)
  BY DEF MarkersInv, Inv
<1>1. c \in Conversation /\ u \in User
  BY <1>0, CallFields DEF TypeOK, Asks, AllOps
<1>2. CASE clearedAt' = clearedAt
  BY <1>2
<1>3. ASSUME NEW q \in Request, Clear(q) PROVE Reaches(clearedAt'[c][u], since[r])
  <2>1. /\ Asks(q, "clear") /\ phase[q] = "clear"
        /\ clearedAt'[c][u] = IF c = call[q].conv /\ u = call[q].user
                              THEN at[q] ELSE clearedAt[c][u]
    BY <1>0, <1>1, <1>3, StampWritten
  <2>2. CASE c = call[q].conv /\ u = call[q].user
    <3>1. call[q] = call[r]
      BY <1>0, <2>1, <2>2, SameClear
    <3> QED BY <1>0, <2>1, <2>2, <3>1 DEF Harmless
  <2> QED BY <2>1, <2>2
<1> QED BY <1>0, <1>2, <1>3, StampsSet

\* A clear covers what it promises, whichever of its rivals is applied last.
LEMMA ClearStep ==
  ASSUME MarkersInv, Inv', [Next]_vars, NEW r \in Request PROVE ClearOnPath(r)'
<1> SUFFICES ASSUME Asks(r, "clear")' PROVE ClearOnPath(r)'
  BY DEF ClearOnPath
<1>0. Inv /\ TypeOK /\ HandlerType /\ Unanswered(r) /\ ClearOnPath(r) /\ Harmless(r, r)
  BY DEF MarkersInv, Inv, TypeOK
<1>1. clock \in Nat /\ clock' \in Nat /\ clock <= clock'
  BY <1>0, ClockAdvances
<1>2. CASE Call(r)
  <2> DEFINE k == call'[r]
  <2>1. phase'[r] = "lookup" /\ reply' = reply /\ phase[r] = "idle"
    BY <1>0, <1>2, CallAt DEF Asks
  <2>2. reply'[r].outcome # "ok"
    BY <1>0, <2>1, Outcomes DEF Unanswered, NoReply
  <2>3. since'[r] = {clock} \cup UNION {since[q] : q \in Racing(k)}
    BY <1>0, <1>2, CallRecords DEF Asks
  <2>4. ASSUME NEW q \in Racing(k), NEW t \in since[q] PROVE t <= clock
    <3>1. q \in Request /\ Asks(q, "clear")
      BY DEF Racing, Asks
    <3> QED BY <3>1, <2>4 DEF MarkersInv, ClearOnPath
  <2>5. \A t \in since'[r] : t \in Nat /\ t <= clock
    BY <1>0, <1>1, <2>3, <2>4 DEF TypeOK, ClientType, Racing
  <2>6. since'[r] # {} /\ \A t \in since'[r] : t <= clock'
    BY <1>1, <2>3, <2>5
  <2> QED BY <2>1, <2>2, <2>6 DEF ClearOnPath, Ok
<1>3. CASE ~Call(r)
  <2> DEFINE c == call[r].conv
             u == call[r].user
  <2>1. phase[r] # "idle" /\ call'[r] = call[r] /\ Recorded(r) /\ ~Respond(r)
    BY <1>0, <1>3, AskedStill DEF Asks, AllOps
  <2>2. Asks(r, "clear") /\ c \in Conversation /\ u \in User
    BY <1>0, <2>1, CallFields DEF Asks, AllOps, TypeOK
  <2>3. since'[r] = since[r] /\ since[r] # {} /\ \A t \in since[r] : t \in Nat /\ t <= clock
    BY <1>0, <2>1, <2>2 DEF Recorded, ClearOnPath, TypeOK, ClientType
  <2>4. \A t \in since'[r] : t <= clock'
    BY <1>1, <2>3
  <2>5. ASSUME phase'[r] = "resume" \/ Ok(r)' => Reaches(clearedAt'[c][u], since[r])
        PROVE  ClearOnPath(r)'
    <3>1. phase'[r] = "resume" \/ Ok(r)' =>
            Reaches(clearedAt'[call'[r].conv][call'[r].user], since'[r])
      BY <2>1, <2>3, <2>5
    <3> QED BY <2>3, <2>4, <3>1 DEF ClearOnPath, Reaches
  <2>6. ASSUME phase[r] = "resume" \/ Ok(r) PROVE Reaches(clearedAt'[c][u], since[r])
    BY <1>0, <2>2, <2>6, ReachedStays DEF ClearOnPath
  <2>7. CASE Still(r)
    BY <2>5, <2>6, <2>7 DEF Still, Ok
  <2>8. CASE Fail(r)
    <3>1. phase'[r] = "done" /\ reply'[r].outcome = "Error"
      BY <1>0, <2>8, RefusalSays DEF Fail, Failure
    <3> QED BY <2>5, <3>1, Outcomes DEF Ok
  <2>9. CASE Lookup(r)
    <3>1. \/ phase'[r] = "clear" /\ reply' = reply
          \/ \E o \in Refusal : Refuse(r, o)
      BY <1>0, <2>2, <2>9 DEF Lookup, Goto, AfterLookup, HandlerType, Asks, Refusal
    <3>2. CASE phase'[r] = "clear" /\ reply' = reply
      <4>1. reply'[r].outcome # "ok"
        BY <1>0, <2>9, <3>2, Outcomes DEF Lookup, Unanswered, NoReply
      <4> QED BY <2>5, <3>2, <4>1 DEF Ok
    <3>3. ASSUME NEW o \in Refusal, Refuse(r, o) PROVE ClearOnPath(r)'
      <4>1. phase'[r] = "done" /\ reply'[r].outcome \in Refusal
        BY <1>0, <3>3, RefusalSays
      <4> QED BY <2>5, <4>1, Outcomes DEF Ok
    <3> QED BY <3>1, <3>2, <3>3
  <2>10. CASE Clear(r)
    <3>1. phase[r] = "clear" /\ clearedAt'[c][u] = at[r]
      BY <1>0, <2>2, <2>10, StampWritten
    <3>2. Reaches(at[r], since[r])
      BY <1>0, <2>2, <3>1 DEF Harmless
    <3> QED BY <2>5, <3>1, <3>2
  <2>11. CASE Resume(r)
    BY <2>5, <2>6, <2>11 DEF Resume
  <2> QED
    BY <1>0, <1>3, <2>1, <2>2, <2>7, <2>8, <2>9, <2>10, <2>11, OwnSteps, ReaderSteps
<1> QED BY <1>2, <1>3

\* No clear still to be applied undoes one it races.
LEMMA HarmlessStep ==
  ASSUME MarkersInv, Inv', [Next]_vars, NEW q \in Request, NEW r \in Request
  PROVE  Harmless(q, r)'
<1> SUFFICES ASSUME Asks(r, "clear")', call'[q] = call'[r], phase'[q] = "clear"
             PROVE  Reaches(at'[q], since'[r])
  BY DEF Harmless, Reaches
<1>0. Inv /\ TypeOK /\ HandlerType /\ Harmless(q, r) /\ Harmless(q, q) /\ ClearOnPath(r)
  BY DEF MarkersInv, Inv, TypeOK
<1>1. CASE Call(r)
  <2>1. phase'[r] = "lookup" /\ q # r
    BY <1>0, <1>1, CallAt DEF Asks
  <2>2. Still(q)
    BY <1>0, <1>1, <2>1, OthersCall
  <2>3. Asks(q, "clear") /\ call[q] = call'[r] /\ phase[q] = "clear" /\ at'[q] = at[q]
    BY <2>2 DEF Still, Asks
  <2>4. since'[r] = {clock} \cup UNION {since[p] : p \in Racing(call'[r])}
    BY <1>0, <1>1, CallRecords DEF Asks
  <2>5. since[q] \subseteq since'[r]
    BY <2>3, <2>4 DEF Racing
  <2>6. Reaches(at[q], since[q])
    BY <1>0, <2>3 DEF Harmless
  <2> QED BY <2>3, <2>5, <2>6 DEF Reaches
<1>2. CASE ~Call(r)
  <2>1. call'[r] = call[r] /\ Recorded(r)
    BY <1>0, <1>2, AskedStill DEF Asks, AllOps
  <2>2. Asks(r, "clear") /\ since'[r] = since[r]
    BY <2>1 DEF Asks, Recorded
  <2>3. since[r] # {} /\ since[r] \in SUBSET Nat /\ \A t \in since[r] : t <= clock
    BY <1>0, <2>2 DEF ClearOnPath, TypeOK, ClientType
  <2>4. ~Call(q)
    BY <1>0, CallAt
  <2>5. call'[q] = call[q] /\ Asks(q, "clear") /\ ~Respond(q)
    BY <1>0, <2>4, AskedStill DEF Asks, AllOps
  <2>6. CASE Still(q)
    BY <1>0, <2>1, <2>2, <2>5, <2>6 DEF Still, Harmless
  <2>7. CASE Lookup(q)
    <3>1. at'[q] \in Date
      BY <1>0, <2>5, <2>7, LookupReads DEF Asks
    <3> QED BY <1>0, <2>2, <2>3, <3>1, DateIsNow
  <2>8. ~Clear(q)
    BY <1>0 DEF Clear, Goto, HandlerType
  <2>9. ~Resume(q)
    BY <1>0, AnswerSays DEF Resume
  <2>10. ~Fail(q)
    BY <1>0, RefusalSays DEF Fail
  <2> QED
    BY <1>0, <2>4, <2>5, <2>6, <2>7, <2>8, <2>9, <2>10, OwnSteps, ReaderSteps
<1> QED BY <1>1, <1>2

\* The inductive invariant behind the markers.
THEOREM MarkersInvariance == Spec => []MarkersInv
<1>1. Init => MarkersInv
  <2> SUFFICES ASSUME Init PROVE MarkersInv
    OBVIOUS
  <2>1. Inv
    BY InitInv
  <2>2. MarkersShown
    BY DEF Init, MarkersShown
  <2>3. ASSUME NEW r \in Request
        PROVE  /\ call[r].op \notin {"clear", "read"} /\ phase[r] = "idle"
               /\ known[r] = Null /\ reply[r] = NoReply
    BY Outcomes DEF Init, NoCall, AllOps
  <2> QED BY <2>1, <2>2, <2>3 DEF MarkersInv, Unanswered, MarkerOnPath, Writing, ClearOnPath,
                                  Harmless, Asks
<1>2. ASSUME MarkersInv, [Next]_vars PROVE MarkersInv'
  <2>1. Inv'
    BY <1>2, InvNext DEF MarkersInv
  <2>2. MarkersShown'
    BY <1>2, MarkersShownStep
  <2>3. ASSUME NEW r \in Request PROVE Unanswered(r)' /\ MarkerOnPath(r)' /\ ClearOnPath(r)'
    <3>1. Unanswered(r)'
      BY <1>2, UnansweredStep DEF MarkersInv
    <3> QED BY <1>2, <2>1, <3>1, MarkerStep, ClearStep
  <2>4. ASSUME NEW q \in Request, NEW r \in Request PROVE Harmless(q, r)'
    BY <1>2, <2>1, HarmlessStep
  <2> QED BY <2>1, <2>2, <2>3, <2>4 DEF MarkersInv
<1> QED BY <1>1, <1>2, PTL DEF Spec

\* deleteConversation: an acknowledged clear hides all that the clock of every host,
\* cut to milliseconds, had reached when the first of the clears it races was called,
\* whichever of them is applied last.
THEOREM ClearsHide == Spec => []ClearHidesHistory
<1>1. MarkersInv => ClearHidesHistory
  <2> SUFFICES ASSUME MarkersInv, NEW r \in Request, Asks(r, "clear"), Ok(r),
                      NEW w \in Rows, w.conv = call[r].conv,
                      \A t \in since[r], s \in Skew : w.createdAt <= Truncate(t + s)
               PROVE  Hidden(call[r].user, w)
    BY DEF ClearHidesHistory
  <2> DEFINE a == clearedAt[call[r].conv][call[r].user]
  <2>0. TypeOK /\ Reaches(a, since[r])
    BY DEF MarkersInv, ClearOnPath, Inv
  <2>1. call[r].conv \in Conversation /\ call[r].user \in User
    BY <2>0, CallFields DEF TypeOK, Asks, AllOps
  <2>2. a # Null /\ a \in Int
    BY <2>0, <2>1 DEF Reaches, TypeOK, DatabaseType, Instant
  <2>3. PICK s \in Skew, t \in since[r] : a >= Truncate(t + s)
    BY <2>0 DEF Reaches
  <2>4. Truncate(t + s) \in Int
    <3>1. t \in Nat /\ s \in Int
      BY <2>0, ServiceAssumption DEF TypeOK, ClientType
    <3> QED BY <3>1, TruncateType
  <2>5. w.createdAt \in Int
    BY <2>0, RowsType DEF TypeOK, Row, Instant
  <2>6. w.createdAt <= a
    BY <2>2, <2>3, <2>4, <2>5
  <2> QED BY <2>2, <2>6 DEF Hidden, Hides
<1> QED BY <1>1, MarkersInvariance, PTL

\* deleteConversation and markRead: the last UPDATE wins, and still no marker falls
\* behind the one its request found, but for what the hosts' clocks differ by.
THEOREM MarkersOnlyAdvance == Spec => MarkersAdvance
<1> DEFINE Advances ==
      \A r \in Request :
        LET c == call[r].conv  u == call[r].user IN
        known[r] # Null =>
          /\ Clear(r) => NoEarlier(clearedAt'[c][u], known[r])
          /\ MarkRead(r) => NoEarlier(lastReadAt'[c][u], known[r])
<1>1. ASSUME MarkersInv, [Next]_vars PROVE [Advances]_vars
  <2> SUFFICES ASSUME NEW r \in Request, known[r] # Null, Clear(r) \/ MarkRead(r)
               PROVE  LET c == call[r].conv  u == call[r].user IN
                      /\ Clear(r) => NoEarlier(clearedAt'[c][u], known[r])
                      /\ MarkRead(r) => NoEarlier(lastReadAt'[c][u], known[r])
    OBVIOUS
  <2>1. Inv /\ MarkerOnPath(r)
    BY <1>1 DEF MarkersInv
  <2>2. call[r].op \in {"clear", "read"} /\ Writing(r)
    BY <2>1 DEF Clear, MarkRead, Writing, Inv, OnPath, Asks
  <2>3. call[r].conv \in Conversation /\ call[r].user \in User
    BY <2>1, <2>2, CallFields DEF Inv, TypeOK, AllOps
  <2>4. NoEarlier(at[r], known[r])
    BY <2>1, <2>2 DEF MarkerOnPath
  <2> QED BY <2>1, <2>3, <2>4, StampWritten
<1> QED BY <1>1, MarkersInvariance, PTL DEF Spec, MarkersAdvance

-----------------------------------------------------------------------------
(* Taking a message back, on the bus.                                      *)

\* A message once in doubt stays in doubt.
LEMMA UnsureGrows == ASSUME Inv, [Next]_vars PROVE unsure \subseteq unsure'
<1>1. CASE Tick \/ (\E g \in Group : Relate(g) \/ Revoke(g)) \/ UNCHANGED vars
  BY <1>1 DEF Tick, Relate, Revoke, vars, history
<1>2. ASSUME NEW r \in Request, Call(r) PROVE UNCHANGED unsure
  <2>1. ASSUME NEW k, Arrive(r, k) PROVE UNCHANGED unsure
    BY <2>1 DEF Arrive
  <2> QED BY <1>2, <2>1 DEF Call, CallCreate, CallInbox, CallOnConversation, CallRead,
                          CallSend, CallDelete
<1>3. ASSUME NEW r \in Request, Step(r) \/ Fail(r) \/ Respond(r) PROVE unsure \subseteq unsure'
  <2>1. CASE SoftDelete(r) \/ Fail(r)
    BY <2>1 DEF SoftDelete, Fail
  <2>2. CASE ~SoftDelete(r) /\ ~Fail(r)
    BY <1>3, <2>2 DEF Step, Lookup, GateAllows, GateDenies, Create, Resume, Insert, Sent,
                FindMessage, Reselect, TakenBack, Clear, MarkRead, ListMessages,
                FindByParticipant, Preview, Respond, history
  <2> QED BY <2>1, <2>2
<1> QED BY <1>1, <1>2, <1>3 DEF Next

\* A message goes from text to tombstone in one step, seen by the send still to publish it.
LEMMA TakenBackIn ==
  ASSUME Inv, [Next]_vars, NEW m \in Message,
         messages'[m] # Null, Deleted(messages'[m]), messages'[m] # messages[m]
  PROVE  \E r \in Request : /\ SoftDelete(r) /\ call'[r] = call[r] /\ call[r].msg = m
                            /\ phase'[r] = "tombstoned"
                            /\ Unpublished(m) => m \in unsure'
<1>0. HandlerType /\ DatabaseType
  BY DEF Inv, TypeOK
<1>1. messages' # messages
  OBVIOUS
<1>2. PICK r \in Request : Create(r) \/ Insert(r) \/ SoftDelete(r)
  BY <1>1, Writers
<1>3. ~Create(r)
  BY <1>1 DEF Create
<1>4. ~Insert(r)
  BY <1>0 DEF Insert, DatabaseType, Deleted
<1>5. SoftDelete(r)
  BY <1>2, <1>3, <1>4
<1>6. call[r].msg = m /\ call' = call
  BY <1>0, <1>5 DEF SoftDelete, DatabaseType
<1>7. phase'[r] = "tombstoned" /\ unsure' = unsure \cup {i \in {m} : Unpublished(i)}
  BY <1>0, <1>1, <1>5, <1>6 DEF SoftDelete, Goto, HandlerType
<1> QED BY <1>5, <1>6, <1>7

\* Only two awaits publish, each the row its handler holds.
LEMMA Published ==
  ASSUME Inv, [Next]_vars
  PROVE  \/ UNCHANGED frame
         \/ \E q \in Request :
              /\ Sent(q) \/ TakenBack(q)
              /\ call[q].msg \in Message
              /\ frame' = [frame EXCEPT ![call[q].msg] = row[q]]
<1>1. CASE Tick \/ (\E g \in Group : Relate(g) \/ Revoke(g)) \/ UNCHANGED vars
  BY <1>1 DEF Tick, Relate, Revoke, vars, outside
<1>2. ASSUME NEW r \in Request, Call(r) PROVE UNCHANGED frame
  BY <1>2, CallAt DEF Inv, outside
<1>3. ASSUME NEW r \in Request, Sent(r) \/ TakenBack(r)
      PROVE  /\ call[r].msg \in Message
             /\ frame' = [frame EXCEPT ![call[r].msg] = row[r]]
  <2>1. /\ phase[r] \in {"inserted", "tombstoned"}
        /\ frame' = [frame EXCEPT ![row[r].id] = row[r]]
    BY <1>3 DEF Sent, TakenBack, Publish
  <2>2. call[r].op \in {"send", "delete"} /\ call[r].msg \in Message
    BY <2>1, CallFields DEF Inv, TypeOK, OnPath, AllOps
  <2>3. row[r].id = messages[call[r].msg].id /\ messages[call[r].msg] # Null
    <3>1. OnPath(r) /\ SendOnPath(r) /\ DeleteOnPath(r)
      BY DEF Inv
    <3>2. messages[call[r].msg] \in Row \cup {Null}
      BY <2>2 DEF Inv, TypeOK, DatabaseType
    <3> QED BY <2>1, <3>1, <3>2 DEF OnPath, SendOnPath, DeleteOnPath, Asks, Original, Row
  <2>4. row[r].id = call[r].msg
    BY <2>2, <2>3 DEF Inv, TableOK
  <2> QED BY <2>1, <2>2, <2>4
<1>4. ASSUME NEW r \in Request, Step(r) \/ Fail(r) \/ Respond(r), ~Sent(r), ~TakenBack(r)
      PROVE  UNCHANGED frame
  BY <1>4 DEF Step, Lookup, GateAllows, GateDenies, Create, Resume, Insert, FindMessage,
              SoftDelete, Reselect, Clear, MarkRead, ListMessages, FindByParticipant,
              Preview, Fail, Respond, outside
<1> QED BY <1>1, <1>2, <1>3, <1>4 DEF Next

\* A handler that has a tombstone publishes it, unless it is cut off.
LEMMA TombstonedNext ==
  ASSUME Inv, [Next]_vars, NEW r \in Request, phase[r] = "tombstoned"
  PROVE  Still(r) \/ TakenBack(r) \/ call[r].msg \in unsure'
<1>1. ~Call(r) /\ ~Respond(r)
  BY CallAt DEF Inv, Respond
<1>2. Fail(r) => call[r].msg \in unsure'
  BY DEF Fail
<1>3. Step(r) => TakenBack(r)
  BY DEF Step, Lookup, GateAllows, GateDenies, Create, Resume, Insert, Sent, FindMessage,
         SoftDelete, Reselect, Clear, MarkRead, ListMessages, FindByParticipant, Preview
<1> QED BY <1>1, <1>2, <1>3, OwnSteps DEF Inv

\* A handler only comes to publish a message by storing it.
LEMMA InsertedNext ==
  ASSUME Inv, [Next]_vars, NEW r \in Request, phase'[r] = "inserted"
  PROVE  Still(r) \/ Insert(r)
<1>0. HandlerType
  BY DEF Inv, TypeOK
<1>1. ~Call(r)
  BY CallAt DEF Inv
<1>2. ASSUME NEW o, NEW ws, NEW cs, Answer(r, o, ws, cs) PROVE FALSE
  BY <1>2, AnswerSays
<1>3. ASSUME NEW p \in Phase \ {"inserted"}, Goto(r, p) PROVE FALSE
  BY <1>0, <1>3 DEF Goto, HandlerType
<1>4. ~Respond(r) /\ ~Fail(r)
  BY <1>2, <1>3 DEF Respond, Fail, Refuse, Phase
<1>5. ~GateDenies(r) /\ ~Resume(r) /\ ~Sent(r) /\ ~TakenBack(r) /\ ~ListMessages(r)
  BY <1>2 DEF GateDenies, Refuse, Resume, Sent, TakenBack, ListMessages
<1>6. ~GateAllows(r) /\ ~Create(r) /\ ~Reselect(r) /\ ~Clear(r) /\ ~MarkRead(r)
  BY <1>3 DEF GateAllows, Create, Reselect, Clear, MarkRead, Phase
<1>7. ~SoftDelete(r)
  BY <1>3 DEF SoftDelete, Phase
<1>8. ~Lookup(r)
  <2>1. Lookup(r) => call[r].op \in {"get", "list", "send", "delete", "clear", "read"}
    BY DEF Lookup, Inv, OnPath
  <2>2. call[r].op \in {"get", "list", "send", "delete", "clear", "read"} =>
          AfterLookup[call[r].op] \in Phase \ {"inserted"}
    BY DEF AfterLookup, Phase
  <2> QED BY <1>2, <1>3, <2>1, <2>2 DEF Lookup, Refuse
<1>9. ~FindMessage(r) /\ ~FindByParticipant(r)
  BY <1>2, <1>3 DEF FindMessage, FindByParticipant, Refuse, Phase
<1>10. ~Preview(r)
  BY <1>2 DEF Preview
<1> QED
  BY <1>1, <1>4, <1>5, <1>6, <1>7, <1>8, <1>9, <1>10, OwnSteps DEF Inv, Step

\* A send whose message is taken back before it is published is on record as such.
LEMMA SendOnBusStep ==
  ASSUME Inv, [Next]_vars, NEW r \in Request, SendOnBus(r) PROVE SendOnBus(r)'
<1> SUFFICES ASSUME phase'[r] = "inserted", Deleted(messages'[call'[r].msg])
             PROVE  call'[r].msg \in unsure'
  BY DEF SendOnBus, Deleted
<1>1. CASE Still(r)
  <2> DEFINE m == call[r].msg
  <2>1. phase[r] = "inserted" /\ call'[r] = call[r]
    BY <1>1 DEF Still
  <2>2. Asks(r, "send") /\ m \in Message /\ messages[m] # Null
    <3>1. Asks(r, "send") /\ SendOnPath(r) /\ ClientType
      BY <2>1 DEF Inv, OnPath, Asks, TypeOK
    <3> QED BY <2>1, <3>1, CallFields DEF SendOnPath, Asks, AllOps
  <2>3. messages'[m] # Null
    BY <2>2, RowsKept DEF Became
  <2>4. CASE messages'[m] = messages[m]
    BY <2>1, <2>4, UnsureGrows DEF SendOnBus
  <2>5. CASE messages'[m] # messages[m]
    <3>1. Unpublished(m)
      BY <2>1 DEF Unpublished
    <3> QED BY <2>1, <2>2, <2>3, <2>5, <3>1, TakenBackIn
  <2> QED BY <2>4, <2>5
<1>2. CASE Insert(r)
  <2>1. call[r].msg \in Message
    BY <1>2, Inserted DEF Inv, TypeOK, DatabaseType
  <2> QED BY <1>2, <2>1 DEF Insert, Deleted, Inv, TypeOK, DatabaseType
<1> QED BY <1>1, <1>2, InsertedNext

\* Nothing undoes the tombstone on the bus but what is on record as in doubt.
LEMMA TombstoneStep ==
  ASSUME BusInv, [Next]_vars PROVE DeletionReachesBus'
<1> SUFFICES ASSUME NEW m \in Message, messages'[m] # Null, Deleted(messages'[m]), m \notin unsure'
             PROVE  \/ frame'[m] = messages'[m]
                    \/ \E r \in Request : phase'[r] = "tombstoned" /\ call'[r].msg = m
  BY DEF DeletionReachesBus
<1>0. Inv /\ OutsideType
  BY DEF BusInv, Inv, TypeOK
<1>1. CASE messages'[m] # messages[m]
  BY <1>0, <1>1, TakenBackIn
<1>2. CASE messages'[m] = messages[m]
  <2>1. m \notin unsure
    BY <1>0, UnsureGrows
  <2>2. ASSUME NEW r \in Request, phase[r] = "tombstoned", call[r].msg = m
        PROVE  frame'[m] = messages'[m] \/ (phase'[r] = "tombstoned" /\ call'[r].msg = m)
    <3>1. CASE TakenBack(r)
      <4>1. row[r] = messages[m] /\ row[r].id = m
        <5>1. Asks(r, "delete") /\ DeleteOnPath(r)
          BY <1>0, <2>2 DEF Inv, OnPath, Asks
        <5> QED BY <1>0, <2>2, <5>1 DEF DeleteOnPath, Inv, TableOK
      <4> QED BY <1>0, <1>2, <3>1, <4>1 DEF TakenBack, Publish, OutsideType
    <3>2. CASE Still(r)
      BY <2>2, <3>2 DEF Still
    <3> QED BY <1>0, <2>2, <3>1, <3>2, TombstonedNext
  <2>3. CASE frame[m] = messages[m]
    <3>1. ASSUME NEW q \in Request, Sent(q) \/ TakenBack(q), call[q].msg = m
          PROVE  row[q] = messages[m]
      <4>1. CASE Sent(q)
        <5>1. phase[q] = "inserted"
          BY <4>1 DEF Sent
        <5>2. m \in unsure
          BY <1>2, <3>1, <5>1 DEF BusInv, SendOnBus
        <5> QED BY <2>1, <5>2
      <4>2. CASE TakenBack(q)
        <5>1. phase[q] = "tombstoned"
          BY <4>2 DEF TakenBack
        <5>2. Asks(q, "delete") /\ DeleteOnPath(q)
          BY <1>0, <5>1 DEF Inv, OnPath, Asks
        <5> QED BY <3>1, <5>1, <5>2 DEF DeleteOnPath
      <4> QED BY <3>1, <4>1, <4>2
    <3>2. frame'[m] = messages[m]
      BY <1>0, <2>3, <3>1, Published DEF OutsideType
    <3> QED BY <1>2, <3>2
  <2>4. \/ frame[m] = messages[m]
        \/ \E r \in Request : phase[r] = "tombstoned" /\ call[r].msg = m
    BY <1>2, <2>1 DEF BusInv, DeletionReachesBus
  <2> QED BY <2>2, <2>3, <2>4
<1> QED BY <1>1, <1>2

\* deleteMessage: the last frame on the bus for a deleted message is its tombstone, or
\* the handler that deleted it is about to publish it, so no socket is left showing the
\* text, but for the two cases the code leaves open: a handler cut off between the
\* UPDATE and the publication, and a deletion that overtakes the send of its message.
THEOREM DeletesReachTheBus == Spec => []DeletionReachesBus
<1>1. Init => BusInv
  <2> SUFFICES ASSUME Init PROVE BusInv
    OBVIOUS
  <2>1. Inv
    BY InitInv
  <2> QED BY <2>1 DEF Init, BusInv, DeletionReachesBus, SendOnBus
<1>2. ASSUME BusInv, [Next]_vars PROVE BusInv'
  <2>1. Inv' /\ DeletionReachesBus'
    BY <1>2, InvNext, TombstoneStep DEF BusInv
  <2>2. ASSUME NEW r \in Request PROVE SendOnBus(r)'
    BY <1>2, SendOnBusStep DEF BusInv
  <2> QED BY <2>1, <2>2 DEF BusInv
<1>3. BusInv => DeletionReachesBus
  BY DEF BusInv
<1> QED BY <1>1, <1>2, <1>3, PTL DEF Spec

=============================================================================
