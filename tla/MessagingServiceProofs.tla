------------------------ MODULE MessagingServiceProofs ------------------------
(***************************************************************************)
(* Proofs about MessagingService.  Inv is inductive; the safety properties *)
(* follow from it, and so does that the service implements MessageLedger.  *)
(***************************************************************************)
EXTENDS MessagingService, TLAPS

\* new Date() is a whole number of ticks: dropping the part of a millisecond
\* leaves an instant.
LEMMA TruncateType == ASSUME NEW t \in Int PROVE Truncate(t) \in Int
  BY ServiceAssumption DEF Truncate

\* Every clock a host may read shows an instant.
LEMMA DateType == ASSUME clock \in Nat PROVE Date \in SUBSET Int
  BY ServiceAssumption, TruncateType DEF Date

\* The locals of a handler that has not read cleared_at yet.
LEMMA NeverClearedType == NeverCleared \in Cleared
  BY DEF NeverCleared, Cleared

\* The table holds rows.
LEMMA RowsType == ASSUME DatabaseType PROVE Rows \in SUBSET Row
  BY DEF Rows, Stored, DatabaseType

\* So does any page of it.
LEMMA VisibleType ==
  ASSUME DatabaseType, NEW c, NEW after PROVE Visible(c, after) \in SUBSET Row
  BY RowsType DEF Visible

\* The service starts with every variable in its type.
LEMMA InitType == Init => TypeOK
<1> SUFFICES ASSUME Init PROVE TypeOK
  OBVIOUS
<1> USE ServiceAssumption DEF Init
<1>1. DatabaseType
  <2>1. members \in [Conversation -> SUBSET User]
    OBVIOUS
  <2>2. messages \in [Message -> Row \cup {Null}]
    OBVIOUS
  <2> QED BY <2>1, <2>2 DEF DatabaseType, Instant
<1>2. HandlerType
  <2>1. reply \in [Request -> Replies]
    BY DEF Replies, NoReply
  <2>2. snap \in [Request -> Cleared]
    BY NeverClearedType
  <2> QED BY <2>1, <2>2 DEF HandlerType, Phase, Instant
<1>3. ClientType
  <2>1. NoCall \in Calls
    BY DEF NoCall, Calls
  <2> QED BY <2>1 DEF ClientType
<1>4. OutsideType
  BY DEF OutsideType
<1> QED BY <1>1, <1>2, <1>3, <1>4 DEF TypeOK

\* What a call carries depends on what it asks.
LEMMA CallFields ==
  ASSUME ClientType, NEW r \in Request
  PROVE  /\ call[r].op = Null => call[r] = NoCall
         /\ call[r].op \in AllOps => call[r].user \in User
         /\ call[r].op \in AllOps \ {"inbox"} => call[r].conv \in Conversation
         /\ call[r].op \in {"send", "delete"} => call[r].msg \in Message
         /\ call[r].op = "create" => call[r].with \in Group
<1>1. call[r] \in Calls
  BY DEF ClientType
<1>2. Null \notin AllOps
  BY ServiceAssumption
<1>3. CASE call[r] = NoCall
  BY <1>2, <1>3 DEF NoCall, AllOps
<1>4. CASE call[r] # NoCall
  BY <1>1, <1>2, <1>4 DEF Calls, AllOps
<1> QED BY <1>3, <1>4

\* Moving on to another await keeps the phases in their type.
LEMMA GotoType ==
  ASSUME HandlerType, NEW r \in Request, NEW p \in Phase, Goto(r, p)
  PROVE  phase' \in [Request -> Phase]
  BY DEF HandlerType, Goto

\* An answer made of rows and conversations leaves a handler well typed.
LEMMA AnswerType ==
  ASSUME HandlerType, NEW r \in Request, NEW o \in Refusal \cup {"ok", "Error", Null},
         NEW ws \in SUBSET Row, NEW cs \in SUBSET Conversation, Answer(r, o, ws, cs)
  PROVE  HandlerType'
<1>1. phase' \in [Request -> Phase]
  BY DEF HandlerType, Answer, Goto, Phase
<1>2. reply' \in [Request -> Replies]
  <2>1. [outcome |-> o, rows |-> ws, convs |-> cs] \in Replies
    BY DEF Replies
  <2> QED BY <2>1 DEF HandlerType, Answer
<1>3. snap' \in [Request -> Cleared]
  BY NeverClearedType DEF HandlerType, Answer
<1> QED BY <1>1, <1>2, <1>3 DEF HandlerType, Answer

\* So does a refusal.
LEMMA RefuseType ==
  ASSUME HandlerType, NEW r \in Request, NEW o \in Refusal \cup {"Error"}, Refuse(r, o)
  PROVE  HandlerType'
  BY AnswerType DEF Refuse


-----------------------------------------------------------------------------
(* Type correctness is preserved.  The phase a lookup leads to and the row *)
(* a handler publishes have their types only because of OnPath and the     *)
(* facts about rows in hand, so the step is taken from Inv.                *)

\* An arriving request touches neither the tables nor what is outside.
LEMMA ArriveType ==
  ASSUME TypeOK, NEW r \in Request, NEW k \in Calls, Arrive(r, k)
  PROVE  DatabaseType' /\ ClientType' /\ OutsideType'
<1>1. Rows \in SUBSET Row
  BY RowsType DEF TypeOK
<1>2. before' \in [Request -> SUBSET Row]
  BY <1>1 DEF Arrive, TypeOK, ClientType
<1>3. /\ k.op \in {"list", "inbox", "clear", "read"} => k.user \in User
      /\ k.op \in {"clear", "read"} => k.conv \in Conversation
  BY ServiceAssumption DEF Calls, NoCall, AllOps
<1>4. marks' \in [Request -> SUBSET Cleared]
  <2>1. k.op \in {"list", "inbox"} => Marks(clearedAt, k.user) \in Cleared
    BY <1>3 DEF Marks, Cleared, TypeOK, DatabaseType
  <2> QED BY <2>1 DEF Arrive, TypeOK, ClientType
<1>5. since' \in [Request -> SUBSET Nat]
  <2>1. {clock} \cup UNION {since[q] : q \in Racing(k)} \in SUBSET Nat
    BY DEF Racing, TypeOK, DatabaseType, ClientType
  <2> QED BY <2>1 DEF Arrive, TypeOK, ClientType
<1>6. known' \in [Request -> Instant \cup {Null}]
  BY <1>3 DEF Arrive, TypeOK, DatabaseType, ClientType
<1>7. ClientType'
  BY <1>2, <1>4, <1>5, <1>6 DEF Arrive, TypeOK, ClientType, database
<1> QED BY <1>7 DEF Arrive, TypeOK, DatabaseType, OutsideType, database, outside

\* Every kind of request arrives well typed (the routes of conversations-router).
LEMMA CallType ==
  ASSUME TypeOK, NEW r \in Request, NEW u \in User, 
         \/ CallCreate(r, u) \/ CallInbox(r, u) \/ CallOnConversation(r, u)
         \/ CallRead(r, u) \/ CallSend(r, u) \/ CallDelete(r, u)
  PROVE  TypeOK'
<1> DEFINE Unstarted == UNCHANGED <<at, snap, row, todo, reply>>
<1>0. ASSUME NEW p \in Phase, Goto(r, p), Unstarted PROVE HandlerType'
  BY <1>0, GotoType DEF TypeOK, HandlerType
<1>1. CASE CallCreate(r, u)
  <2>1. PICK c \in Conversation, g \in Group : 
           /\ Arrive(r, Request0("create", u, c, Null, g))
           /\ Goto(r, "gate") /\ Unstarted
    BY <1>1 DEF CallCreate
  <2>2. Request0("create", u, c, Null, g) \in Calls
    BY DEF Request0, Calls
  <2> QED BY <1>0, <2>1, <2>2, ArriveType DEF TypeOK, Phase
<1>2. CASE CallInbox(r, u)
  <2>1. Request0("inbox", u, Null, Null, {}) \in Calls
    BY DEF Request0, Calls
  <2> QED BY <1>0, <1>2, <2>1, ArriveType DEF CallInbox, TypeOK, Phase
<1>3. CASE CallOnConversation(r, u)
  <2>1. PICK op \in {"get", "list", "clear"}, c \in Conversation :
           /\ Arrive(r, Request0(op, u, c, Null, {}))
           /\ Goto(r, "lookup") /\ Unstarted
    BY <1>3 DEF CallOnConversation
  <2>2. Request0(op, u, c, Null, {}) \in Calls
    BY DEF Request0, Calls
  <2> QED BY <1>0, <2>1, <2>2, ArriveType DEF TypeOK, Phase
<1>4. CASE CallRead(r, u)
  <2>1. PICK c \in Conversation, d \in Date :
           /\ Arrive(r, Request0("read", u, c, Null, {}))
           /\ at' = [at EXCEPT ![r] = d]
           /\ Goto(r, "lookup") /\ UNCHANGED <<snap, row, todo, reply>>
    BY <1>4 DEF CallRead
  <2>2. Request0("read", u, c, Null, {}) \in Calls
    BY DEF Request0, Calls
  <2>3. d \in Int
    BY DateType DEF TypeOK, DatabaseType
  <2>4. phase' \in [Request -> Phase]
    BY <2>1, GotoType DEF TypeOK, Phase
  <2>5. HandlerType'
    BY <2>1, <2>3, <2>4 DEF TypeOK, HandlerType, Instant
  <2> QED BY <2>1, <2>2, <2>5, ArriveType DEF TypeOK
<1>5. CASE CallSend(r, u)
  <2>1. PICK c \in Conversation, m \in Message :
           /\ Arrive(r, Request0("send", u, c, m, {}))
           /\ (Goto(r, "lookup") /\ Unstarted) \/ Refuse(r, "EmptyMessage")
    BY <1>5 DEF CallSend
  <2>2. Request0("send", u, c, m, {}) \in Calls
    BY DEF Request0, Calls
  <2>3. HandlerType'
    BY <1>0, <2>1, RefuseType DEF TypeOK, Phase, Refusal
  <2> QED BY <2>1, <2>2, <2>3, ArriveType DEF TypeOK
<1>6. CASE CallDelete(r, u)
  <2>1. PICK c \in Conversation, m \in Message :
           /\ Arrive(r, Request0("delete", u, c, m, {}))
           /\ Goto(r, "lookup") /\ Unstarted
    BY <1>6 DEF CallDelete
  <2>2. Request0("delete", u, c, m, {}) \in Calls
    BY DEF Request0, Calls
  <2> QED BY <1>0, <2>1, <2>2, ArriveType DEF TypeOK, Phase
<1> QED BY <1>1, <1>2, <1>3, <1>4, <1>5, <1>6

\* What a handler does next, after the await it waits at.
LEMMA StepType ==
  ASSUME Inv, NEW r \in Request, Step(r) \/ Fail(r) \/ Respond(r)
  PROVE  TypeOK'
<1>a. /\ HandlerType /\ DatabaseType /\ ClientType /\ OutsideType
      /\ OnPath(r) /\ SendOnPath(r) /\ DeleteOnPath(r)
  BY DEF Inv, TypeOK
<1> USE DEF TypeOK
<1>b. ASSUME UNCHANGED <<database, related, call, history>> PROVE DatabaseType' /\ ClientType'
  BY <1>a, <1>b DEF database, history, DatabaseType, ClientType
<1>c. ASSUME UNCHANGED outside PROVE OutsideType'
  BY <1>a, <1>c DEF outside, OutsideType
<1>d. ASSUME NEW p \in Phase, Goto(r, p), UNCHANGED <<at, snap, row, todo, reply>>
      PROVE  HandlerType'
  BY <1>a, <1>d, GotoType DEF HandlerType
<1>e. ASSUME NEW o \in Refusal \cup {"Error"}, Refuse(r, o) PROVE HandlerType'
  BY <1>a, <1>e, RefuseType
<1>1. CASE Lookup(r)
  <2>1. UNCHANGED <<database, related, call, outside, history>>
    BY <1>1 DEF Lookup
  <2>2. CASE Refuse(r, "ConversationNotFound") \/ Refuse(r, "NotAParticipant")
    BY <1>b, <1>c, <1>e, <2>1, <2>2 DEF Refusal
  <2>3. CASE ~(Refuse(r, "ConversationNotFound") \/ Refuse(r, "NotAParticipant"))
    <3> DEFINE c == call[r].conv
               u == call[r].user
               op == call[r].op
    <3>1. /\ phase[r] = "lookup" /\ u \in members[c] /\ Goto(r, AfterLookup[op])
          /\ IF op = "clear" THEN \E d \in Date : at' = [at EXCEPT ![r] = d]
                             ELSE UNCHANGED at
          /\ snap' = IF op = "list" THEN [snap EXCEPT ![r][c] = clearedAt[c][u]]
                                    ELSE snap
          /\ UNCHANGED <<row, todo, reply>>
      BY <1>1, <2>3 DEF Lookup
    <3>2. op \in {"get", "list", "send", "delete", "clear", "read"}
      BY <1>a, <3>1 DEF OnPath
    <3>3. AfterLookup[op] \in Phase
      BY <3>2 DEF AfterLookup, Phase
    <3>4. phase' \in [Request -> Phase]
      BY <1>a, <3>1, <3>3, GotoType
    <3>5. at' \in [Request -> Instant \cup {Null}]
      BY <1>a, <3>1, DateType DEF HandlerType, DatabaseType, Instant
    <3>6. c \in Conversation /\ u \in User
      BY CallFields, <1>a, <3>2 DEF AllOps
    <3>7. snap' \in [Request -> Cleared]
      BY <1>a, <3>1, <3>6 DEF HandlerType, DatabaseType, Cleared
    <3>8. HandlerType'
      BY <1>a, <3>1, <3>4, <3>5, <3>7 DEF HandlerType
    <3> QED BY <1>b, <1>c, <2>1, <3>8
  <2> QED BY <2>2, <2>3
<1>2. CASE GateAllows(r) \/ GateDenies(r)
  BY <1>b, <1>c, <1>d, <1>e, <1>2 DEF GateAllows, GateDenies, Phase, Refusal
<1>3. CASE Create(r)
  <2>1. call[r].conv \in Conversation /\ call[r].with \in SUBSET User
    <3>1. call[r].op = "create"
      BY <1>3, <1>a DEF Create, OnPath
    <3> QED BY CallFields, <3>1, <1>a, ServiceAssumption DEF AllOps
  <2>2. members' \in [Conversation -> SUBSET User]
    BY <1>a, <1>3, <2>1 DEF Create, DatabaseType
  <2>3. DatabaseType' /\ ClientType'
    BY <1>a, <1>3, <2>2 DEF Create, DatabaseType, ClientType, history
  <2> QED BY <1>3, <1>c, <1>d, <2>3 DEF Create, Phase
<1>4. CASE Resume(r) \/ ListMessages(r)
  <2>1. HandlerType'
    BY <1>4, <1>a, AnswerType, VisibleType DEF Resume, ListMessages
  <2> QED BY <1>b, <1>c, <1>4, <2>1 DEF Resume, ListMessages
<1>5. CASE Insert(r)
  <2> DEFINE new == [id |-> call[r].msg, conv |-> call[r].conv, sender |-> call[r].user,
              body |-> "text", createdAt |-> clock, deletedAt |-> Null]
  <2>1. call[r].op = "send"
    BY <1>5, <1>a DEF Insert, OnPath
  <2>2. call[r].msg \in Message /\ call[r].conv \in Conversation /\ call[r].user \in User
    BY CallFields, <1>a, <2>1 DEF AllOps
  <2>3. new \in Row
    <3>1. clock \in Int
      BY <1>a DEF DatabaseType
    <3> QED BY <2>2, <3>1 DEF Row, Instant
  <2>4. messages' \in [Message -> Row \cup {Null}] /\ row' \in [Request -> Row \cup {Null}]
    BY <1>a, <1>5, <2>2, <2>3 DEF Insert, DatabaseType, HandlerType
  <2>5. phase' \in [Request -> Phase]
    BY <1>a, <1>5, GotoType DEF Insert, Phase
  <2> QED BY <1>a, <1>5, <1>c, <2>4, <2>5
          DEF Insert, DatabaseType, HandlerType, ClientType, history
<1>6. CASE Sent(r)
  <2>1. call[r].op = "send" /\ call[r].msg \in Message
    BY CallFields, <1>6, <1>a DEF Sent, OnPath, AllOps
  <2>2. messages[call[r].msg] \in Row /\ row[r] = Original(messages[call[r].msg])
    BY <1>6, <1>a, <2>1 DEF Sent, SendOnPath, Asks, DatabaseType
  <2>3. row[r] \in Row /\ row[r].id \in Message /\ row[r].conv \in Conversation
    BY <2>2 DEF Original, Row
  <2>4. HandlerType'
    <3>1. {row[r]} \in SUBSET Row
      BY <2>3
    <3>2. Answer(r, "ok", {row[r]}, {})
      BY <1>6 DEF Sent
    <3> QED BY <1>a, <3>1, <3>2, AnswerType
  <2>5. OutsideType'
    BY <1>6, <1>a, <2>3 DEF Sent, OutsideType, Publish, Recipients, DatabaseType
  <2> QED BY <1>6, <1>b, <2>4, <2>5 DEF Sent
<1>7. CASE FindMessage(r)
  <2>1. UNCHANGED <<database, related, call, outside, history>>
    BY <1>7 DEF FindMessage
  <2>2. call[r].op = "delete" /\ call[r].msg \in Message
    BY CallFields, <1>7, <1>a DEF FindMessage, OnPath, AllOps
  <2>3. messages[call[r].msg] # Null => messages[call[r].msg] \in Row
    BY <2>2, <1>a DEF DatabaseType
  <2>4. CASE Refuse(r, "MessageNotFound") \/ Refuse(r, "NotMessageAuthor")
    BY <1>b, <1>c, <1>e, <2>1, <2>4 DEF Refusal
  <2>5. CASE /\ messages[call[r].msg] # Null
             /\ Answer(r, "ok", {messages[call[r].msg]}, {})
    <3>1. HandlerType'
      <4>1. {messages[call[r].msg]} \in SUBSET Row
        BY <2>3, <2>5
      <4> QED BY <2>5, <4>1, <1>a, AnswerType
    <3> QED BY <1>b, <1>c, <2>1, <3>1
  <2>6. CASE /\ Goto(r, "update") /\ \E d \in Date : at' = [at EXCEPT ![r] = d]
             /\ UNCHANGED <<snap, row, todo, reply>>
    <3>1. phase' \in [Request -> Phase]
      BY <1>a, <2>6, GotoType DEF Phase
    <3>2. at' \in [Request -> Instant \cup {Null}]
      BY <1>a, <2>6, DateType DEF HandlerType, DatabaseType, Instant
    <3> QED BY <1>a, <1>b, <1>c, <2>1, <2>6, <3>1, <3>2 DEF HandlerType
  <2> QED BY <1>7, <2>4, <2>5, <2>6 DEF FindMessage
<1>8. CASE SoftDelete(r) \/ Reselect(r)
  <2>1. call[r].op = "delete" /\ call[r].msg \in Message
    BY CallFields, <1>8, <1>a DEF SoftDelete, Reselect, OnPath, AllOps
  <2>2. messages[call[r].msg] \in Row
    BY <1>8, <2>1, <1>a DEF SoftDelete, Reselect, DeleteOnPath, Asks, DatabaseType
  <2>3. Tombstone(messages[call[r].msg], at[r]) \in Row
    BY <2>2, <1>a DEF Tombstone, Row, HandlerType
  <2>4. messages' \in [Message -> Row \cup {Null}] /\ row' \in [Request -> Row \cup {Null}]
    BY <1>8, <1>a, <2>1, <2>2, <2>3 DEF SoftDelete, Reselect, DatabaseType, HandlerType, database
  <2>5. phase' \in [Request -> Phase]
    BY <1>a, <1>8, GotoType DEF SoftDelete, Reselect, Phase
  <2>6. unsure' \in SUBSET Message
    BY <1>a, <1>8, <2>1 DEF SoftDelete, Reselect, ClientType, history
  <2> QED BY <1>a, <1>8, <1>c, <2>4, <2>5, <2>6
          DEF SoftDelete, Reselect, DatabaseType, HandlerType, ClientType, history, database
<1>9. CASE TakenBack(r)
  <2>1. call[r].op = "delete" /\ call[r].msg \in Message
    BY CallFields, <1>9, <1>a DEF TakenBack, OnPath, AllOps
  <2>2. row[r] \in Row /\ row[r].id \in Message
    BY <1>9, <2>1, <1>a DEF TakenBack, DeleteOnPath, Asks, DatabaseType, Row
  <2>3. HandlerType'
    BY <1>9, <1>a, <2>2, AnswerType DEF TakenBack
  <2>4. OutsideType'
    BY <1>9, <1>a, <2>2 DEF TakenBack, OutsideType, Publish
  <2> QED BY <1>9, <1>b, <2>3, <2>4 DEF TakenBack
<1>10. CASE Clear(r) \/ MarkRead(r)
  <2>1. call[r].conv \in Conversation /\ call[r].user \in User
    BY CallFields, <1>10, <1>a DEF Clear, MarkRead, OnPath, AllOps
  <2>2. at[r] \in Instant \cup {Null}
    BY <1>a DEF HandlerType
  <2>3. CASE Clear(r)
    <3>1. clearedAt' = [clearedAt EXCEPT ![call[r].conv][call[r].user] = at[r]]
      BY <2>3 DEF Clear, Stamp
    <3>2. clearedAt' \in [Conversation -> [User -> Instant \cup {Null}]]
      BY <1>a, <2>1, <2>2, <3>1 DEF DatabaseType
    <3>3. DatabaseType'
      BY <2>3, <3>2, <1>a DEF Clear, DatabaseType
    <3>4. marks' \in [Request -> SUBSET Cleared]
      <4>1. Marks(clearedAt', call[r].user) \in Cleared
        BY <2>1, <3>2 DEF Marks, Cleared
      <4> QED BY <2>3, <4>1, <1>a DEF Clear, ClientType
    <3>5. ClientType'
      BY <2>3, <3>4, <1>a DEF Clear, ClientType
    <3> QED BY <2>3, <3>3, <3>5, <1>a, <1>c, <1>d DEF Clear, Phase
  <2>4. CASE MarkRead(r)
    <3>1. lastReadAt' = [lastReadAt EXCEPT ![call[r].conv][call[r].user] = at[r]]
      BY <2>4 DEF MarkRead, Stamp
    <3>2. lastReadAt' \in [Conversation -> [User -> Instant \cup {Null}]]
      BY <1>a, <2>1, <2>2, <3>1 DEF DatabaseType
    <3>3. DatabaseType'
      BY <2>4, <3>2, <1>a DEF MarkRead, DatabaseType
    <3> QED BY <2>4, <3>3, <1>a, <1>c, <1>d DEF MarkRead, ClientType, history, Phase
  <2> QED BY <1>10, <2>3, <2>4
<1>11. CASE FindByParticipant(r)
  <2> DEFINE mine == {c \in Conversation : call[r].user \in members[c]}
             read == [c \in Conversation |-> IF c \in mine THEN clearedAt[c][call[r].user]
                                                           ELSE Null]
  <2>1. call[r].user \in User
    BY CallFields, <1>11, <1>a DEF FindByParticipant, OnPath, AllOps
  <2>2. read \in Cleared
    BY <2>1, <1>a DEF DatabaseType, Cleared
  <2>3. CASE Answer(r, "ok", {}, {})
    BY <1>11, <1>a, <1>b, <1>c, <2>3, AnswerType DEF FindByParticipant
  <2>4. CASE /\ Goto(r, "preview") /\ todo' = [todo EXCEPT ![r] = mine]
             /\ snap' = [snap EXCEPT ![r] = read] /\ UNCHANGED <<at, row, reply>>
    <3>1. HandlerType'
      BY <1>a, <2>2, <2>4, GotoType DEF HandlerType, Phase
    <3> QED BY <1>11, <1>b, <1>c, <3>1 DEF FindByParticipant
  <2> QED BY <1>11, <2>3, <2>4 DEF FindByParticipant
<1>12. CASE Preview(r)
  <2>1. PICK c \in todo[r] :
          LET last == Latest(Visible(c, snap[r][c])) IN
          \E ws \in {{w} : w \in last} \cup (IF last = {} THEN {{}} ELSE {}) :
            LET rows == reply[r].rows \cup ws
                convs == IF Listed(snap[r][c], ws) THEN reply[r].convs \cup {c}
                                                   ELSE reply[r].convs IN
            IF todo[r] = {c} THEN Answer(r, "ok", rows, convs)
            ELSE /\ todo' = [todo EXCEPT ![r] = @ \ {c}]
                 /\ reply' = [reply EXCEPT ![r].rows = rows, ![r].convs = convs]
                 /\ UNCHANGED <<phase, at, snap, row>>
    BY <1>12 DEF Preview
  <2> DEFINE last == Latest(Visible(c, snap[r][c]))
  <2>2. PICK ws \in {{w} : w \in last} \cup (IF last = {} THEN {{}} ELSE {}) :
            LET rows == reply[r].rows \cup ws
                convs == IF Listed(snap[r][c], ws) THEN reply[r].convs \cup {c}
                                                   ELSE reply[r].convs IN
            IF todo[r] = {c} THEN Answer(r, "ok", rows, convs)
            ELSE /\ todo' = [todo EXCEPT ![r] = @ \ {c}]
                 /\ reply' = [reply EXCEPT ![r].rows = rows, ![r].convs = convs]
                 /\ UNCHANGED <<phase, at, snap, row>>
    BY <2>1
  <2> DEFINE rows == reply[r].rows \cup ws
             convs == IF Listed(snap[r][c], ws) THEN reply[r].convs \cup {c}
                                                ELSE reply[r].convs
  <2>3. ws \in SUBSET Row /\ c \in Conversation
    <3>1. last \in SUBSET Row
      BY <1>a, VisibleType DEF Latest
    <3> QED BY <1>a, <2>2, <3>1 DEF HandlerType
  <2>4. rows \in SUBSET Row /\ convs \in SUBSET Conversation /\ reply[r] \in Replies
    BY <1>a, <2>3 DEF HandlerType, Replies
  <2>5. HandlerType'
    <3>1. CASE todo[r] = {c}
      BY <1>a, <2>2, <2>4, <3>1, AnswerType
    <3>2. CASE todo[r] # {c}
      <4>1. reply' \in [Request -> Replies]
        BY <1>a, <2>2, <2>4, <3>2 DEF HandlerType, Replies
      <4> QED BY <1>a, <2>2, <3>2, <4>1 DEF HandlerType
    <3> QED BY <3>1, <3>2
  <2> QED BY <1>12, <1>b, <1>c, <2>5 DEF Preview
<1>13. CASE Fail(r)
  <2>1. call[r].msg \in Message \/ phase[r] # "tombstoned"
    BY CallFields, <1>a DEF OnPath, AllOps
  <2>2. ClientType'
    BY <1>13, <1>a, <2>1 DEF Fail, ClientType
  <2> QED BY <1>13, <1>a, <1>c, <1>e, <2>2 DEF Fail, Failure, DatabaseType, database
<1>14. CASE Respond(r)
  <2>1. NoCall \in Calls /\ NoReply \in Replies
    BY DEF NoCall, Calls, NoReply, Replies
  <2>2. HandlerType' /\ ClientType'
    BY <1>14, <1>a, <2>1, GotoType DEF Respond, HandlerType, ClientType, Phase
  <2> QED BY <1>14, <1>a, <1>c, <2>2 DEF Respond, DatabaseType, database
<1> QED BY <1>1, <1>2, <1>3, <1>4, <1>5, <1>6, <1>7, <1>8, <1>9, <1>10, <1>11, <1>12,
           <1>13, <1>14 DEF Step

-----------------------------------------------------------------------------
(* The rest of Inv speaks of one request at a time.  A step of r leaves    *)
(* the others alone, so what is left to show is Path(r)', and for the few  *)
(* steps that write, that the write disturbs nobody else.                  *)

Path(r) ==
  /\ OnPath(r) /\ CreateOnPath(r) /\ SendOnPath(r) /\ DeleteOnPath(r)
  /\ TruthfulWrite(r) /\ RevocationHeld(r) /\ AnswersTombstone(r)

\* Inv, one request at a time.
LEMMA InvPaths ==
  Inv <=> /\ TypeOK /\ OwnIds /\ TableOK /\ OutsideFollowsDatabase
          /\ \A r \in Request : Path(r)
  BY DEF Inv, Path, TruthfulWrites, RevocationHolds, OneTombstone

\* The same, after a step.
LEMMA PathsInvNext ==
  ASSUME TypeOK', OwnIds', TableOK', OutsideFollowsDatabase',
         \A r \in Request : Path(r)'
  PROVE  Inv'
  BY DEF Inv, Path, TruthfulWrites, RevocationHolds, OneTombstone

Same(q) ==
  /\ phase'[q] = phase[q] /\ call'[q] = call[q] /\ at'[q] = at[q]
  /\ row'[q] = row[q] /\ reply'[q] = reply[q] /\ held[q] \subseteq held'[q]
  /\ phase[q] # "idle" /\ related \subseteq held[q] => related' \subseteq held'[q]

\* A request keeps its place when neither it nor a table moves.
LEMMA Undisturbed ==
  ASSUME NEW q \in Request, Path(q), Same(q), UNCHANGED <<messages, members, outside>>
  PROVE  Path(q)'
<1> USE DEF Same, outside, Asks, Ok
<1>1. OnPath(q)'
  BY DEF Path, OnPath
<1>2. CreateOnPath(q)' /\ RevocationHeld(q)'
  BY DEF Path, CreateOnPath, RevocationHeld
<1>3. SendOnPath(q)'
  BY DEF Path, SendOnPath, Original
<1>4. DeleteOnPath(q)'
  BY DEF Path, DeleteOnPath, Deleted
<1>5. TruthfulWrite(q)'
  BY DEF Path, TruthfulWrite
<1>6. AnswersTombstone(q)'
  BY DEF Path, AnswersTombstone, Deleted
<1> QED BY <1>1, <1>2, <1>3, <1>4, <1>5, <1>6 DEF Path

\* What Inv says of the tables survives a step that writes none of them.
LEMMA TablesUnchanged ==
  ASSUME Inv, UNCHANGED <<messages, members, outside>>
  PROVE  TableOK' /\ OutsideFollowsDatabase'
  BY DEF Inv, TableOK, OutsideFollowsDatabase, outside, Deleted, Original

\* Ids stay apart while nobody arrives or leaves.
LEMMA OwnIdsKept == ASSUME OwnIds, UNCHANGED call PROVE OwnIds'
  BY DEF OwnIds, Asks

\* A step of r that stores and publishes no message.
LEMMA LocalStep ==
  ASSUME Inv, NEW r \in Request, TypeOK', Path(r)', OwnIds',
         UNCHANGED <<messages, members, outside>>,
         \A q \in Request : q # r => Same(q)
  PROVE  Inv'
<1>1. \A q \in Request : Path(q)'
  BY InvPaths, Undisturbed
<1> QED BY <1>1, TablesUnchanged, PathsInvNext

\* Moving on to another await is a matter of r alone.
LEMMA GotoAt ==
  ASSUME HandlerType, NEW r \in Request, NEW p, Goto(r, p)
  PROVE  phase'[r] = p /\ \A q \in Request : q # r => phase'[q] = phase[q]
  BY DEF HandlerType, Goto

\* An answer is a matter of r alone.
LEMMA AnswerAt ==
  ASSUME HandlerType, NEW r \in Request, NEW o, NEW ws, NEW cs, Answer(r, o, ws, cs)
  PROVE  /\ phase'[r] = "done"
         /\ reply'[r] = [outcome |-> o, rows |-> ws, convs |-> cs]
         /\ \A q \in Request : q # r =>
              /\ phase'[q] = phase[q] /\ at'[q] = at[q] /\ row'[q] = row[q]
              /\ reply'[q] = reply[q]
  BY DEF HandlerType, Answer, Goto

\* An answer that publishes nothing, with what it may say.
LEMMA AnswerStep ==
  ASSUME Inv, TypeOK', NEW r \in Request, NEW o, NEW ws, NEW cs, Answer(r, o, ws, cs),
         UNCHANGED <<database, related, call, outside, held>>,
         phase[r] # "idle",
         Asks(r, "send") => o # "ok" /\ (o \in Refusal => phase[r] \in {"lookup", "gate"}),
         Asks(r, "create") => /\ o \in Refusal => phase[r] = "gate"
                              /\ o = "ok" => phase[r] = "resume",
         Asks(r, "delete") /\ o = "ok" =>
           LET w == messages[call[r].msg] IN w # Null /\ Deleted(w) /\ ws = {w}
  PROVE  Inv'
<1> USE DEF Asks, Ok
<1>1. HandlerType /\ OutsideFollowsDatabase /\ Path(r) /\ ClientType
  BY InvPaths DEF TypeOK
<1>2. /\ phase'[r] = "done" /\ reply'[r] = [outcome |-> o, rows |-> ws, convs |-> cs]
      /\ UNCHANGED <<messages, members, frame, notified, related, call, held>>
  BY <1>1, AnswerAt DEF database, outside
<1>3. Null \notin Refusal \cup {"ok"} /\ "ok" \notin Refusal
  BY ServiceAssumption DEF Refusal
<1>4. call[r].op \in AllOps
  BY <1>1 DEF Path, OnPath
<1>5. OnPath(r)' /\ CreateOnPath(r)' /\ DeleteOnPath(r)'
  BY <1>1, <1>2, <1>4 DEF Path, OnPath, CreateOnPath, DeleteOnPath
<1>6. SendOnPath(r)' /\ RevocationHeld(r)'
  BY <1>1, <1>2 DEF Path, SendOnPath, RevocationHeld
<1>7. TruthfulWrite(r)'
  <2>1. CASE Asks(r, "send")
    <3>1. call[r].msg \in Message
      BY <1>1, <2>1, CallFields
    <3>2. o \in Refusal => messages[call[r].msg] = Null
      BY <1>1, <2>1 DEF Path, SendOnPath
    <3>3. o \in Refusal => frame[call[r].msg] = Null /\ notified[call[r].msg] = {}
      BY <1>1, <3>1, <3>2 DEF OutsideFollowsDatabase
    <3> QED BY <1>2, <2>1, <3>2, <3>3 DEF TruthfulWrite
  <2>2. CASE Asks(r, "create")
    BY <1>1, <1>2, <2>2 DEF Path, CreateOnPath, TruthfulWrite
  <2> QED BY <1>2, <2>1, <2>2 DEF TruthfulWrite
<1>8. AnswersTombstone(r)'
  <2>1. CASE Asks(r, "delete") /\ o = "ok"
    <3>1. call[r].msg \in Message
      BY <1>1, <2>1, CallFields
    <3>2. messages[call[r].msg].body = ""
      BY <2>1, <3>1 DEF Inv, TableOK
    <3>3. reply'[r].rows = {messages'[call'[r].msg]}
      BY <1>2, <2>1
    <3>4. messages'[call'[r].msg] # Null /\ Deleted(messages'[call'[r].msg])
      BY <1>2, <2>1
    <3>5. messages'[call'[r].msg].body = ""
      BY <1>2, <3>2
    <3> QED BY <3>3, <3>4, <3>5 DEF AnswersTombstone
  <2>2. CASE ~(Asks(r, "delete") /\ o = "ok")
    <3>1. ~(Asks(r, "delete")' /\ Ok(r)')
      BY <1>2, <2>2
    <3> QED BY <3>1 DEF AnswersTombstone
  <2> QED BY <2>1, <2>2
<1>9. \A q \in Request : q # r => Same(q)
  BY <1>1, <1>2, AnswerAt DEF Same
<1>10. OwnIds' /\ UNCHANGED <<messages, members, outside>>
  BY <1>2, OwnIdsKept DEF Inv
<1> QED BY <1>5, <1>6, <1>7, <1>8, <1>9, <1>10, LocalStep DEF Path

\* A tombstone remembers which message it was.
LEMMA OriginalOfTombstone ==
  ASSUME NEW w \in Row, NEW d
  PROVE  /\ Original(Tombstone(w, d)) = Original(w)
         /\ w.body = "text" /\ w.deletedAt = Null => w = Original(w)
  BY DEF Row, Original, Tombstone

\* Requests that only move on: the phase changes, and the handler's locals.
LEMMA MoveStep ==
  ASSUME Inv, TypeOK', NEW r \in Request, NEW p, Goto(r, p),
         UNCHANGED <<messages, members, outside, related, call, held, reply>>,
         \A q \in Request : q # r => at'[q] = at[q] /\ row'[q] = row[q],
         phase[r] # "done", OnPath(r)', CreateOnPath(r)', SendOnPath(r)', DeleteOnPath(r)'
  PROVE  Inv'
<1>1. HandlerType /\ Path(r)
  BY InvPaths DEF TypeOK
<1>2. /\ \A q \in Request : q # r => Same(q)
      /\ UNCHANGED <<messages, members, frame, notified, call, held, reply>>
  BY <1>1, GotoAt DEF Same, outside
<1>3. TruthfulWrite(r)' /\ RevocationHeld(r)' /\ AnswersTombstone(r)'
  BY <1>1, <1>2 DEF Path, TruthfulWrite, RevocationHeld, AnswersTombstone, Asks, Ok, Deleted
<1> QED BY <1>2, <1>3, LocalStep, OwnIdsKept DEF Path, Inv

\* requireParticipant preserves Inv.
LEMMA LookupStep ==
  ASSUME Inv, TypeOK', NEW r \in Request, Lookup(r) PROVE Inv'
<1>1. /\ phase[r] = "lookup" /\ UNCHANGED <<database, related, call, outside, history>>
      /\ HandlerType /\ Path(r)
  BY InvPaths DEF Lookup, TypeOK
<1>2. CASE Refuse(r, "ConversationNotFound") \/ Refuse(r, "NotAParticipant")
  <2>1. ~Asks(r, "create")
    BY <1>1 DEF Path, OnPath, Asks
  <2>2. ASSUME NEW o \in {"ConversationNotFound", "NotAParticipant"}, Refuse(r, o)
        PROVE Inv'
    BY <1>1, <2>1, <2>2, AnswerStep DEF Refuse, history
  <2> QED BY <1>2, <2>2
<1>3. CASE ~(Refuse(r, "ConversationNotFound") \/ Refuse(r, "NotAParticipant"))
  <2> DEFINE op == call[r].op
  <2>1. /\ call[r].user \in members[call[r].conv] /\ Goto(r, AfterLookup[op])
        /\ (\E d : at' = [at EXCEPT ![r] = d]) \/ UNCHANGED at
        /\ UNCHANGED <<row, reply>>
    BY <1>1, <1>3 DEF Lookup
  <2>2. op \in {"get", "list", "send", "delete", "clear", "read"}
    BY <1>1 DEF Path, OnPath
  <2>3. phase'[r] = AfterLookup[op]
    BY <1>1, <2>1, GotoAt
  <2>4. UNCHANGED <<messages, members, related, call, held, reply, frame, notified>>
    BY <1>1, <2>1 DEF database, outside, history
  <2>5. \A q \in Request : q # r => at'[q] = at[q] /\ row'[q] = row[q]
    BY <1>1, <2>1 DEF HandlerType
  <2>6. OnPath(r)' /\ CreateOnPath(r)' /\ DeleteOnPath(r)'
    BY <1>1, <2>2, <2>3, <2>4
       DEF Path, OnPath, CreateOnPath, DeleteOnPath, AfterLookup, Asks, AllOps
  <2>7. SendOnPath(r)'
    BY <1>1, <2>1, <2>2, <2>3, <2>4 DEF Path, SendOnPath, AfterLookup, Asks
  <2> QED BY <1>1, <2>1, <2>4, <2>5, <2>6, <2>7, MoveStep DEF outside
<1> QED BY <1>2, <1>3

\* The gate's answer, or its timeout, preserves Inv.
LEMMA GateStep ==
  ASSUME Inv, TypeOK', NEW r \in Request, GateAllows(r) \/ GateDenies(r) PROVE Inv'
<1>1. HandlerType /\ Path(r) /\ phase[r] = "gate"
  BY InvPaths DEF GateAllows, GateDenies, TypeOK
<1>2. CASE GateDenies(r)
  <2>1. ~Asks(r, "delete")
    BY <1>1 DEF Path, OnPath, Asks
  <2> QED BY <1>1, <1>2, <2>1, AnswerStep DEF GateDenies, Refuse, history
<1>3. CASE GateAllows(r)
  <2>1. Asked(r) \in related /\ Goto(r, IF call[r].op = "create" THEN "create" ELSE "insert")
    BY <1>3 DEF GateAllows
  <2>2. phase'[r] = IF call[r].op = "create" THEN "create" ELSE "insert"
    BY <1>1, <2>1, GotoAt
  <2>3. UNCHANGED <<messages, members, related, call, held, reply, at, row, outside>>
    BY <1>3 DEF GateAllows, database, outside, history
  <2>4. Asked(r) \in held[r]
    BY <1>1, <2>1 DEF Path, OnPath
  <2>5. OnPath(r)' /\ CreateOnPath(r)' /\ DeleteOnPath(r)'
    BY <1>1, <2>2, <2>3, <2>4
       DEF Path, OnPath, CreateOnPath, DeleteOnPath, Asks, AllOps, Asked
  <2>6. SendOnPath(r)'
    BY <1>1, <2>2, <2>3, <2>4 DEF Path, SendOnPath, Asks, Asked, OnPath
  <2> QED BY <1>1, <2>1, <2>3, <2>5, <2>6, MoveStep
<1> QED BY <1>2, <1>3

\* The steps that only read or answer preserve Inv.
LEMMA ReadStep ==
  ASSUME Inv, TypeOK', NEW r \in Request,
         \/ Resume(r) \/ ListMessages(r) \/ FindByParticipant(r) \/ Preview(r)
  PROVE  Inv'
<1>1. /\ HandlerType /\ Path(r)
      /\ UNCHANGED <<database, related, call, outside, history>>
  BY InvPaths DEF Resume, ListMessages, FindByParticipant, Preview, TypeOK
<1>2. phase[r] \in {"resume", "page", "inbox", "preview"} /\ ~Asks(r, "send")
      /\ ~Asks(r, "delete") /\ (Asks(r, "create") => phase[r] = "resume")
  BY <1>1 DEF Resume, ListMessages, FindByParticipant, Preview, Path, OnPath, Asks
<1>3. ASSUME NEW ws, NEW cs, Answer(r, "ok", ws, cs) PROVE Inv'
  BY <1>1, <1>2, <1>3, AnswerStep DEF Refusal, history
<1>4. CASE Resume(r) \/ ListMessages(r)
  BY <1>3, <1>4 DEF Resume, ListMessages
<1>5. CASE FindByParticipant(r)
  <2>1. CASE Answer(r, "ok", {}, {})
    BY <1>3, <2>1
  <2>2. CASE Goto(r, "preview") /\ UNCHANGED <<at, row, reply>>
    <3>1. phase'[r] = "preview"
      BY <1>1, <2>2, GotoAt
    <3>2. UNCHANGED <<messages, members, related, call, held>>
      BY <1>1 DEF database, history
    <3>3. call[r].op = "inbox"
      BY <1>1, <1>5 DEF FindByParticipant, Path, OnPath
    <3>4. phase[r] = "inbox" /\ reply[r].outcome = Null
      BY <1>1, <1>5 DEF FindByParticipant, Path, OnPath
    <3>5. OnPath(r)'
      BY <2>2, <3>1, <3>2, <3>3, <3>4 DEF OnPath, AllOps
    <3>6. CreateOnPath(r)' /\ DeleteOnPath(r)' /\ SendOnPath(r)'
      BY <3>2, <3>3 DEF CreateOnPath, DeleteOnPath, SendOnPath, Asks
    <3> QED BY <1>1, <1>2, <2>2, <3>2, <3>5, <3>6, MoveStep
  <2> QED BY <1>5, <2>1, <2>2 DEF FindByParticipant
<1>6. CASE Preview(r)
  <2>1. CASE \E ws, cs : Answer(r, "ok", ws, cs)
    BY <1>3, <2>1
  <2>2. CASE /\ \E ws, cs : reply' = [reply EXCEPT ![r].rows = ws, ![r].convs = cs]
             /\ UNCHANGED <<phase, at, row>>
    <3>1. PICK ws, cs : reply' = [reply EXCEPT ![r].rows = ws, ![r].convs = cs]
      BY <2>2
    <3>2. /\ reply'[r].outcome = reply[r].outcome
          /\ \A q \in Request : q # r => reply'[q] = reply[q]
      BY <1>1, <3>1 DEF HandlerType, Replies
    <3>3. UNCHANGED <<messages, members, related, call, held, phase, at, row>>
      BY <1>1, <2>2 DEF database, history
    <3>4. call[r].op = "inbox"
      BY <1>1, <1>6 DEF Preview, Path, OnPath
    <3>5. Path(r)'
      BY <1>1, <3>2, <3>3, <3>4
         DEF Path, OnPath, CreateOnPath, DeleteOnPath, SendOnPath, TruthfulWrite,
             RevocationHeld, AnswersTombstone, Asks
    <3>6. \A q \in Request : q # r => Same(q)
      BY <3>2, <3>3 DEF Same
    <3> QED BY <1>1, <3>3, <3>5, <3>6, LocalStep, OwnIdsKept DEF Inv
  <2> QED BY <1>6, <2>1, <2>2 DEF Preview
<1> QED BY <1>4, <1>5, <1>6

\* deleteMessage's checks preserve Inv.
LEMMA FindMessageStep ==
  ASSUME Inv, TypeOK', NEW r \in Request, FindMessage(r) PROVE Inv'
<1> DEFINE w == messages[call[r].msg]
<1>1. /\ HandlerType /\ Path(r) /\ phase[r] = "find" /\ call[r].op = "delete"
      /\ UNCHANGED <<database, related, call, outside, history>>
  BY InvPaths DEF FindMessage, TypeOK, Path, OnPath
<1>2. ASSUME NEW o \in {"MessageNotFound", "NotMessageAuthor"}, Refuse(r, o) PROVE Inv'
  BY <1>1, <1>2, AnswerStep DEF Refuse, Asks, history
<1>3. CASE w # Null /\ Deleted(w) /\ Answer(r, "ok", {w}, {})
  BY <1>1, <1>3, AnswerStep DEF Asks, history
<1>4. CASE /\ w # Null /\ w.conv = call[r].conv /\ w.sender = call[r].user
           /\ Goto(r, "update") /\ (\E d \in Date : at' = [at EXCEPT ![r] = d])
           /\ UNCHANGED <<row, reply>>
  <2>1. phase'[r] = "update"
    BY <1>1, <1>4, GotoAt
  <2>2. at'[r] # Null /\ \A q \in Request : q # r => at'[q] = at[q]
    <3>1. Date \in SUBSET Int
      BY DateType DEF Inv, TypeOK, DatabaseType
    <3> QED BY <1>1, <1>4, <3>1, ServiceAssumption DEF HandlerType
  <2>3. UNCHANGED <<messages, members, related, call, held>>
    BY <1>1 DEF database, history
  <2>4. OnPath(r)' /\ CreateOnPath(r)' /\ DeleteOnPath(r)' /\ SendOnPath(r)'
    BY <1>1, <1>4, <2>1, <2>2, <2>3
       DEF Path, OnPath, CreateOnPath, DeleteOnPath, SendOnPath, Asks
  <2> QED BY <1>1, <1>4, <2>2, <2>3, <2>4, MoveStep
<1> QED BY <1>2, <1>3, <1>4 DEF FindMessage, MayTakeBack

\* Rereading a tombstone after losing the race preserves Inv.
LEMMA ReselectStep ==
  ASSUME Inv, TypeOK', NEW r \in Request, Reselect(r) PROVE Inv'
<1>1. /\ HandlerType /\ Path(r) /\ phase[r] = "reselect" /\ call[r].op = "delete"
      /\ UNCHANGED <<messages, members, related, call, at, reply, outside, held>>
      /\ row' = [row EXCEPT ![r] = messages[call[r].msg]] /\ Goto(r, "tombstoned")
  BY InvPaths DEF Reselect, TypeOK, Path, OnPath, database, history
<1>2. phase'[r] = "tombstoned"
  BY <1>1, GotoAt
<1>3. row'[r] = messages[call[r].msg] /\ \A q \in Request : q # r => row'[q] = row[q]
  BY <1>1 DEF HandlerType
<1>4. OnPath(r)' /\ CreateOnPath(r)' /\ DeleteOnPath(r)' /\ SendOnPath(r)'
  BY <1>1, <1>2, <1>3
     DEF Path, OnPath, CreateOnPath, DeleteOnPath, SendOnPath, Asks, Deleted
<1> QED BY <1>1, <1>3, <1>4, MoveStep

\* deleteConversation and markRead preserve Inv.
LEMMA StampStep ==
  ASSUME Inv, TypeOK', NEW r \in Request, Clear(r) \/ MarkRead(r) PROVE Inv'
<1>1. /\ HandlerType /\ Path(r) /\ phase[r] \in {"clear", "mark"}
      /\ call[r].op \in {"clear", "read"} /\ Goto(r, "resume")
      /\ UNCHANGED <<messages, members, related, call, at, row, reply, outside, held>>
  BY InvPaths DEF Clear, MarkRead, TypeOK, Path, OnPath, history
<1>2. phase'[r] = "resume"
  BY <1>1, GotoAt
<1>3. OnPath(r)' /\ CreateOnPath(r)' /\ DeleteOnPath(r)' /\ SendOnPath(r)'
  BY <1>1, <1>2 DEF Path, OnPath, CreateOnPath, DeleteOnPath, SendOnPath, Asks
<1> QED BY <1>1, <1>3, MoveStep

\* A failed await preserves Inv: "Error" promises nothing.
LEMMA FailStep ==
  ASSUME Inv, TypeOK', NEW r \in Request, Fail(r) PROVE Inv'
<1>1. Answer(r, "Error", {}, {}) /\ phase[r] # "idle"
      /\ UNCHANGED <<database, related, call, outside, held>>
  BY DEF Fail, Refuse, Failure
<1> QED BY <1>1, AnswerStep DEF Refusal

\* Answering the client preserves Inv.
LEMMA RespondStep ==
  ASSUME Inv, TypeOK', NEW r \in Request, Respond(r) PROVE Inv'
<1>1. /\ HandlerType /\ ClientType /\ Path(r) /\ Goto(r, "idle")
      /\ call' = [call EXCEPT ![r] = NoCall] /\ reply' = [reply EXCEPT ![r] = NoReply]
      /\ held' = [held EXCEPT ![r] = {}]
      /\ UNCHANGED <<messages, members, related, at, row, outside>>
  BY InvPaths DEF Respond, TypeOK, database
<1>2. phase'[r] = "idle" /\ call'[r] = NoCall /\ reply'[r].outcome = Null
  BY <1>1, GotoAt DEF HandlerType, ClientType, NoReply
<1>3. \A q \in Request : q # r => Same(q)
  BY <1>1, GotoAt DEF HandlerType, ClientType, Same
<1>4. NoCall.op \notin AllOps
  BY ServiceAssumption DEF NoCall
<1>5. ~Asks(r, "send")' /\ ~Asks(r, "create")' /\ ~Asks(r, "delete")'
  BY <1>2, <1>4 DEF Asks, AllOps
<1>6. Path(r)'
  BY <1>2, <1>5 DEF Path, OnPath, CreateOnPath, DeleteOnPath, SendOnPath, TruthfulWrite,
             RevocationHeld, AnswersTombstone
<1>7. OwnIds'
  <2> SUFFICES ASSUME NEW p \in Request, NEW q \in Request, p # q
               PROVE /\ Asks(p, "send")' /\ Asks(q, "send")' => call'[p].msg # call'[q].msg
                     /\ Asks(p, "create")' /\ Asks(q, "create")' => call'[p].conv # call'[q].conv
    BY DEF OwnIds
  <2>1. CASE p # r /\ q # r
    BY <1>3, <2>1 DEF Same, Inv, OwnIds, Asks
  <2> QED BY <1>5, <2>1
<1> QED BY <1>1, <1>3, <1>6, <1>7, LocalStep

-----------------------------------------------------------------------------
(* A request arrives: its id, if it is to create something, is its own.    *)

\* A new request finds its place on a path, with an id nobody else has.
LEMMA ArriveStep ==
  ASSUME Inv, TypeOK', NEW r \in Request, NEW k \in Calls, Arrive(r, k), k.op \in AllOps,
         k.op = "send" => NewMessage(k.msg), k.op = "create" => NewConversation(k.conv),
         \A q \in Request : q # r => /\ at'[q] = at[q] /\ row'[q] = row[q]
                                     /\ reply'[q] = reply[q] /\ phase'[q] = phase[q],
         \/ /\ reply'[r] = reply[r]
            /\ phase'[r] = CASE k.op = "create" -> "gate" [] k.op = "inbox" -> "inbox"
                             [] OTHER -> "lookup"
         \/ /\ k.op = "send" /\ phase'[r] = "done"
            /\ reply'[r] = [outcome |-> "EmptyMessage", rows |-> {}, convs |-> {}]
  PROVE Inv'
<1>1. /\ HandlerType /\ ClientType /\ Path(r) /\ phase[r] = "idle" /\ call' = [call EXCEPT ![r] = k]
      /\ held' = [held EXCEPT ![r] = IF k.op \in {"create", "send"} THEN related ELSE {}]
      /\ UNCHANGED <<messages, members, related, frame, notified, outside>>
  BY InvPaths DEF Arrive, TypeOK, database, outside
<1>2. /\ call'[r] = k /\ (k.op \in {"create", "send"} => held'[r] = related)
      /\ \A q \in Request : q # r => call'[q] = call[q] /\ held'[q] = held[q]
  BY <1>1 DEF ClientType
<1>3. \A q \in Request : q # r => Same(q)
  BY <1>1, <1>2 DEF Same
<1>4. reply[r].outcome = Null /\ Null # "ok" /\ Null \notin Refusal
  BY <1>1, ServiceAssumption DEF Path, OnPath
<1>5. OnPath(r)'
  BY <1>1, <1>2, <1>4 DEF OnPath, AllOps
<1>6. k.op = "send" => messages[k.msg] = Null /\ frame[k.msg] = Null /\ notified[k.msg] = {}
  <2> SUFFICES ASSUME k.op = "send" 
               PROVE messages[k.msg] = Null /\ frame[k.msg] = Null /\ notified[k.msg] = {}
    OBVIOUS
  <2>1. messages[k.msg] = Null
    BY DEF NewMessage
  <2>2. k.msg \in Message
    <3>1. Null \notin AllOps
      BY ServiceAssumption
    <3> QED BY <3>1 DEF Calls, NoCall, AllOps
  <2> QED BY <2>1, <2>2 DEF Inv, OutsideFollowsDatabase
<1>7. k.op = "create" => members[k.conv] = {}
  BY DEF NewConversation
<1>8. CreateOnPath(r)' /\ SendOnPath(r)' /\ DeleteOnPath(r)'
  BY <1>1, <1>2, <1>6, <1>7 DEF CreateOnPath, SendOnPath, DeleteOnPath, Asks
<1>9. TruthfulWrite(r)' /\ RevocationHeld(r)' /\ AnswersTombstone(r)'
  <2>1. ~Ok(r)' /\ (reply'[r].outcome \in Refusal => k.op = "send")
    BY <1>1, <1>4 DEF Ok
  <2>2. TruthfulWrite(r)'
    BY <1>1, <1>2, <1>6, <2>1 DEF TruthfulWrite, Asks
  <2>3. RevocationHeld(r)'
    BY <1>1, <1>2, <1>6, <1>7 DEF RevocationHeld, Asks
  <2>4. AnswersTombstone(r)'
    BY <2>1 DEF AnswersTombstone
  <2> QED BY <2>2, <2>3, <2>4
<1>10. OwnIds'
  <2> SUFFICES ASSUME NEW p \in Request, NEW q \in Request, p # q
               PROVE /\ Asks(p, "send")' /\ Asks(q, "send")' => call'[p].msg # call'[q].msg
                     /\ Asks(p, "create")' /\ Asks(q, "create")' => call'[p].conv # call'[q].conv
    BY DEF OwnIds
  <2>1. CASE p # r /\ q # r
    BY <1>2, <2>1 DEF Inv, OwnIds, Asks
  <2>2. CASE p = r \/ q = r
    BY <1>2, <2>2 DEF Asks, NewMessage, NewConversation
  <2> QED BY <2>1, <2>2
<1> QED BY <1>1, <1>3, <1>5, <1>8, <1>9, <1>10, LocalStep DEF Path

\* Every kind of request preserves Inv when it arrives.
LEMMA CallStep ==
  ASSUME Inv, TypeOK', NEW r \in Request, NEW u \in User,
         \/ CallCreate(r, u) \/ CallInbox(r, u) \/ CallOnConversation(r, u)
         \/ CallRead(r, u) \/ CallSend(r, u) \/ CallDelete(r, u)
  PROVE  Inv'
<1>1. HandlerType
  BY DEF Inv, TypeOK
<1> DEFINE First(k) == CASE k.op = "create" -> "gate" [] k.op = "inbox" -> "inbox"
                         [] OTHER -> "lookup"
           Others == \A q \in Request : q # r => at'[q] = at[q] /\ row'[q] = row[q]
<1>2. ASSUME NEW k \in Calls, k.op \in AllOps, Arrive(r, k), Goto(r, First(k)),
             k.op = "send" => NewMessage(k.msg),
             k.op = "create" => NewConversation(k.conv),
             reply' = reply, Others
      PROVE  Inv'
  BY <1>1, <1>2, GotoAt, ArriveStep
<1>3. CASE CallCreate(r, u)
  <2>1. PICK c \in Conversation, g \in Group :
           /\ NewConversation(c) /\ Arrive(r, Request0("create", u, c, Null, g))
           /\ Goto(r, "gate") /\ UNCHANGED <<at, snap, row, todo, reply>>
    BY <1>3 DEF CallCreate
  <2>2. Request0("create", u, c, Null, g) \in Calls
    BY DEF Request0, Calls
  <2> QED BY <1>2, <2>1, <2>2 DEF Request0, AllOps
<1>4. CASE CallInbox(r, u)
  <2>1. Request0("inbox", u, Null, Null, {}) \in Calls
    BY DEF Request0, Calls
  <2> QED BY <1>2, <1>4, <2>1 DEF CallInbox, Request0, AllOps
<1>5. CASE CallOnConversation(r, u)
  <2>1. PICK op \in {"get", "list", "clear"}, c \in Conversation :
           /\ Arrive(r, Request0(op, u, c, Null, {}))
           /\ Goto(r, "lookup") /\ UNCHANGED <<at, snap, row, todo, reply>>
    BY <1>5 DEF CallOnConversation
  <2>2. Request0(op, u, c, Null, {}) \in Calls
    BY DEF Request0, Calls
  <2> QED BY <1>2, <2>1, <2>2 DEF Request0, AllOps
<1>6. CASE CallRead(r, u)
  <2>1. PICK c \in Conversation, d \in Date :
           /\ Arrive(r, Request0("read", u, c, Null, {}))
           /\ at' = [at EXCEPT ![r] = d]
           /\ Goto(r, "lookup") /\ UNCHANGED <<snap, row, todo, reply>>
    BY <1>6 DEF CallRead
  <2>2. Request0("read", u, c, Null, {}) \in Calls
    BY DEF Request0, Calls
  <2>3. Others
    BY <1>1, <2>1 DEF HandlerType
  <2> QED BY <1>2, <2>1, <2>2, <2>3 DEF Request0, AllOps
<1>7. CASE CallSend(r, u)
  <2>1. PICK c \in Conversation, m \in Message :
           /\ NewMessage(m) /\ Arrive(r, Request0("send", u, c, m, {}))
           /\ \/ Goto(r, "lookup") /\ UNCHANGED <<at, snap, row, todo, reply>>
              \/ Refuse(r, "EmptyMessage")
    BY <1>7 DEF CallSend
  <2>2. Request0("send", u, c, m, {}) \in Calls
    BY DEF Request0, Calls
  <2>3. CASE Goto(r, "lookup") /\ UNCHANGED <<at, snap, row, todo, reply>>
    BY <1>2, <2>1, <2>2, <2>3 DEF Request0, AllOps
  <2>4. CASE Refuse(r, "EmptyMessage")
    <3>1. Answer(r, "EmptyMessage", {}, {})
      BY <2>4 DEF Refuse
    <3>2. /\ phase'[r] = "done"
          /\ reply'[r] = [outcome |-> "EmptyMessage", rows |-> {}, convs |-> {}]
          /\ \A q \in Request : q # r =>
               /\ phase'[q] = phase[q] /\ at'[q] = at[q] /\ row'[q] = row[q]
               /\ reply'[q] = reply[q]
      BY <1>1, <3>1, AnswerAt
    <3>3. /\ Request0("send", u, c, m, {}).op = "send"
          /\ Request0("send", u, c, m, {}).msg = m
      BY DEF Request0
    <3>4. "send" \in AllOps /\ "send" # "create"
      BY DEF AllOps
    <3> HIDE DEF Request0
    <3> QED BY <2>1, <2>2, <3>2, <3>3, <3>4, ArriveStep
  <2> QED BY <2>1, <2>3, <2>4
<1>8. CASE CallDelete(r, u)
  <2>1. PICK c \in Conversation, m \in Message :
           /\ Arrive(r, Request0("delete", u, c, m, {}))
           /\ Goto(r, "lookup") /\ UNCHANGED <<at, snap, row, todo, reply>>
    BY <1>8 DEF CallDelete
  <2>2. Request0("delete", u, c, m, {}) \in Calls
    BY DEF Request0, Calls
  <2> QED BY <1>2, <2>1, <2>2 DEF Request0, AllOps
<1> QED BY <1>3, <1>4, <1>5, <1>6, <1>7, <1>8

-----------------------------------------------------------------------------
(* The five steps that store or publish something.                         *)

\* A request none of whose messages is touched.
LEMMA Untouched ==
  ASSUME NEW q \in Request, Path(q), Same(q), UNCHANGED <<members, frame, notified>>,
         Asks(q, "send") \/ Asks(q, "delete")
           => messages'[call[q].msg] = messages[call[q].msg]
  PROVE  Path(q)'
<1> USE DEF Same
<1>1. OnPath(q)' /\ CreateOnPath(q)'
  BY DEF Path, OnPath, CreateOnPath, Asks
<1>2. CASE Asks(q, "send")
  <2>1. messages'[call'[q].msg] = messages[call[q].msg]
    BY <1>2
  <2>2. SendOnPath(q)'
    BY <1>2, <2>1 DEF Path, SendOnPath, Asks, Original
  <2>3. DeleteOnPath(q)' /\ AnswersTombstone(q)'
    BY <1>2 DEF DeleteOnPath, AnswersTombstone, Asks
  <2>4. TruthfulWrite(q)' /\ RevocationHeld(q)'
    BY <1>2, <2>1 DEF Path, TruthfulWrite, RevocationHeld, Asks, Ok
  <2> QED BY <1>1, <2>2, <2>3, <2>4 DEF Path
<1>3. CASE Asks(q, "delete")
  <2>1. messages'[call'[q].msg] = messages[call[q].msg]
    BY <1>3
  <2>2. DeleteOnPath(q)'
    BY <1>3, <2>1 DEF Path, DeleteOnPath, Asks, Deleted
  <2>3. AnswersTombstone(q)'
    BY <1>3, <2>1 DEF Path, AnswersTombstone, Asks, Ok, Deleted
  <2>4. SendOnPath(q)' /\ TruthfulWrite(q)' /\ RevocationHeld(q)'
    BY <1>3 DEF SendOnPath, TruthfulWrite, RevocationHeld, Asks
  <2> QED BY <1>1, <2>2, <2>3, <2>4 DEF Path
<1>4. CASE ~Asks(q, "send") /\ ~Asks(q, "delete")
  <2>1. SendOnPath(q)' /\ DeleteOnPath(q)' /\ AnswersTombstone(q)'
    BY <1>4 DEF SendOnPath, DeleteOnPath, AnswersTombstone, Asks
  <2>2. TruthfulWrite(q)' /\ RevocationHeld(q)'
    BY <1>4 DEF Path, TruthfulWrite, RevocationHeld, Asks, Ok
  <2> QED BY <1>1, <2>1, <2>2 DEF Path
<1> QED BY <1>2, <1>3, <1>4

\* The INSERT of sendMessage preserves Inv: the id was nobody's, and a delete that
\* looked for it before has not got past its lookup.
LEMMA InsertStep ==
  ASSUME Inv, TypeOK', NEW r \in Request, Insert(r) PROVE Inv'
<1> DEFINE m == call[r].msg
           k == call[r]
           new == [id |-> m, conv |-> k.conv, sender |-> k.user, body |-> "text",
                   createdAt |-> clock, deletedAt |-> Null]
<1>1. /\ TypeOK /\ OwnIds /\ TableOK /\ OutsideFollowsDatabase /\ Path(r)
      /\ phase[r] = "insert" /\ Asks(r, "send") /\ Goto(r, "inserted")
      /\ messages' = [messages EXCEPT ![m] = new] /\ row' = [row EXCEPT ![r] = new]
      /\ UNCHANGED <<members, related, call, at, reply, frame, notified, held>>
  BY InvPaths DEF Insert, Path, OnPath, Asks, outside, history
<1>2. m \in Message /\ messages[m] = Null /\ k.user \in members[k.conv]
      /\ members[k.conv] \in held[r]
  BY <1>1, CallFields DEF Path, SendOnPath, TypeOK, Asks
<1>3. /\ messages'[m] = new /\ row'[r] = new /\ phase'[r] = "inserted"
      /\ \A i \in Message : i # m => messages'[i] = messages[i]
      /\ \A q \in Request : q # r => row'[q] = row[q] /\ phase'[q] = phase[q]
  BY <1>1, <1>2, GotoAt DEF TypeOK, DatabaseType, HandlerType
<1>4. new # Null /\ Original(new) = new /\ ~Deleted(new)
  <2>1. clock \in Int /\ k.conv \in Conversation /\ k.user \in User
    BY <1>1, CallFields DEF TypeOK, DatabaseType, Asks, AllOps
  <2>2. new \in Row
    BY <1>2, <2>1 DEF Row, Instant
  <2>3. new # Null
    BY <2>2, ServiceAssumption
  <2>4. Original(new) = new
    BY <2>2, OriginalOfTombstone
  <2>5. ~Deleted(new)
    BY DEF Deleted
  <2> QED BY <2>3, <2>4, <2>5
<1>5. TableOK'
  <2> SUFFICES ASSUME NEW i \in Message, messages'[i] # Null
               PROVE  LET w == messages'[i] IN
                      /\ w.id = i /\ w.sender \in members'[w.conv]
                      /\ (Deleted(w) <=> w.body = "")
    BY DEF TableOK, Deleted
  <2>1. CASE i = m
    <3>1. messages'[i] = new /\ ~Deleted(new)
      BY <1>3, <1>4, <2>1
    <3>2. new.id = i /\ new.sender = k.user /\ new.conv = k.conv /\ new.body # ""
      BY <2>1
    <3> HIDE DEF new
    <3> QED BY <1>1, <1>2, <3>1, <3>2
  <2>2. CASE i # m
    <3>1. messages'[i] = messages[i]
      BY <1>3, <2>2
    <3> QED BY <1>1, <3>1 DEF TableOK
  <2> QED BY <2>1, <2>2
<1>6. OutsideFollowsDatabase'
  <2> SUFFICES ASSUME NEW i \in Message
               PROVE  /\ frame'[i] # Null =>
                           /\ messages'[i] # Null
                           /\ frame'[i] \in {messages'[i], Original(messages'[i])}
                      /\ notified'[i] # {} =>
                           /\ messages'[i] # Null
                           /\ notified'[i] = members'[messages'[i].conv] \ {messages'[i].sender}
    BY DEF OutsideFollowsDatabase, Original
  <2>1. CASE i = m
    <3>1. frame[i] = Null /\ notified[i] = {}
      BY <1>1, <1>2, <2>1 DEF OutsideFollowsDatabase
    <3> QED BY <1>1, <3>1
  <2>2. CASE i # m
    <3>1. messages'[i] = messages[i]
      BY <1>3, <2>2
    <3> QED BY <1>1, <3>1 DEF OutsideFollowsDatabase
  <2> QED BY <2>1, <2>2
<1>7. Path(r)'
  <2>1. OnPath(r)' /\ CreateOnPath(r)' /\ DeleteOnPath(r)'
    BY <1>1, <1>3 DEF Path, OnPath, CreateOnPath, DeleteOnPath, Asks
  <2>2. SendOnPath(r)'
    BY <1>1, <1>3, <1>4 DEF SendOnPath, Asks
  <2>3. ~Ok(r)' /\ reply'[r].outcome \notin Refusal
    BY <1>1, ServiceAssumption DEF Path, OnPath, Ok
  <2>4. TruthfulWrite(r)' /\ AnswersTombstone(r)'
    BY <2>3 DEF TruthfulWrite, AnswersTombstone
  <2>5. RevocationHeld(r)'
    BY <1>1, <1>2 DEF RevocationHeld, Asks
  <2> QED BY <2>1, <2>2, <2>4, <2>5 DEF Path
<1>8. ASSUME NEW q \in Request, q # r PROVE Path(q)'
  <2>1. Path(q)
    BY <1>8, InvPaths
  <2>2. /\ phase'[q] = phase[q] /\ row'[q] = row[q]
    BY <1>3, <1>8
  <2>3. OnPath(q)' /\ CreateOnPath(q)'
    BY <1>1, <2>1, <2>2 DEF Path, OnPath, CreateOnPath, Asks
  <2>4. CASE call[q].msg # m \/ ~(Asks(q, "send") \/ Asks(q, "delete"))
    <3>1. Asks(q, "send") \/ Asks(q, "delete") => call[q].msg \in Message
      BY <1>1, CallFields DEF TypeOK, Asks
    <3>2. Asks(q, "send") \/ Asks(q, "delete")
            => messages'[call[q].msg] = messages[call[q].msg]
      BY <1>3, <2>4, <3>1
    <3>3. Same(q)
      BY <1>1, <2>2 DEF Same
    <3> QED BY <1>1, <2>1, <3>2, <3>3, Untouched
  <2>5. CASE call[q].msg = m /\ Asks(q, "delete")
    <3>1. phase[q] \notin {"update", "reselect", "tombstoned"} /\ ~Ok(q)
      BY <1>2, <2>1, <2>5 DEF Path, DeleteOnPath, AnswersTombstone
    <3>2. SendOnPath(q)' /\ DeleteOnPath(q)'
      BY <1>1, <2>2, <2>5, <3>1 DEF SendOnPath, DeleteOnPath, Asks
    <3>3. TruthfulWrite(q)' /\ RevocationHeld(q)' /\ AnswersTombstone(q)'
      BY <1>1, <2>5, <3>1 DEF TruthfulWrite, RevocationHeld, AnswersTombstone, Asks, Ok
    <3> QED BY <2>3, <3>2, <3>3 DEF Path
  <2>6. CASE call[q].msg = m /\ Asks(q, "send")
    BY <1>1, <1>8, <2>6 DEF OwnIds
  <2> QED BY <2>4, <2>5, <2>6
<1> QED BY <1>1, <1>5, <1>6, <1>7, <1>8, PathsInvNext, OwnIdsKept

\* The UPDATE of deleteMessage preserves Inv, whoever else is deleting or has just
\* sent the message.
LEMMA SoftDeleteStep ==
  ASSUME Inv, TypeOK', NEW r \in Request, SoftDelete(r) PROVE Inv'
<1> DEFINE m == call[r].msg
           w == messages[m]
           gone == Tombstone(w, at[r])
<1>1. /\ TypeOK /\ OwnIds /\ TableOK /\ OutsideFollowsDatabase /\ Path(r)
      /\ phase[r] = "update" /\ Asks(r, "delete")
      /\ UNCHANGED <<members, related, call, at, reply, frame, notified, outside, held>>
  BY InvPaths DEF SoftDelete, Path, OnPath, Asks, outside, history
<1>2. m \in Message /\ w # Null /\ w.conv = call[r].conv /\ w.sender = call[r].user
      /\ at[r] # Null /\ w \in Row
  BY <1>1, CallFields DEF Path, DeleteOnPath, TypeOK, DatabaseType, Asks
<1>3. CASE Deleted(w) /\ Goto(r, "reselect") /\ UNCHANGED <<messages, row>>
  <2>1. phase'[r] = "reselect"
    BY <1>1, <1>3, GotoAt DEF TypeOK
  <2>2. OnPath(r)' /\ CreateOnPath(r)' /\ SendOnPath(r)'
    BY <1>1, <1>3, <2>1 DEF Path, OnPath, CreateOnPath, SendOnPath, Asks
  <2>3. DeleteOnPath(r)'
    BY <1>1, <1>2, <1>3, <2>1 DEF DeleteOnPath, Asks, Deleted
  <2> QED BY <1>1, <1>3, <2>2, <2>3, MoveStep
<1>4. CASE /\ ~Deleted(w) /\ Goto(r, "tombstoned")
           /\ messages' = [messages EXCEPT ![m] = gone] /\ row' = [row EXCEPT ![r] = gone]
  <2>1. /\ messages'[m] = gone /\ row'[r] = gone /\ phase'[r] = "tombstoned"
        /\ \A i \in Message : i # m => messages'[i] = messages[i]
        /\ \A q \in Request : q # r => row'[q] = row[q] /\ phase'[q] = phase[q]
    BY <1>1, <1>2, <1>4, GotoAt DEF TypeOK, DatabaseType, HandlerType
  <2>2. /\ gone.id = w.id /\ gone.conv = w.conv /\ gone.sender = w.sender
        /\ gone.body = "" /\ gone.deletedAt = at[r]
    BY <1>2 DEF Tombstone, Row
  <2>3. Deleted(gone) /\ gone # Null
    <3>1. gone \in Row
      BY <1>1, <1>2 DEF Tombstone, Row, TypeOK, HandlerType
    <3> QED BY <1>2, <2>2, <3>1, ServiceAssumption DEF Deleted
  <2>4. Original(gone) = Original(w) /\ w = Original(w)
    <3>1. w.deletedAt = Null /\ w.body = "text"
      BY <1>1, <1>2, <1>4 DEF TableOK, Deleted, Row
    <3> QED BY <1>2, <3>1, OriginalOfTombstone
  <2> HIDE DEF gone
  <2>5. TableOK'
    <3> SUFFICES ASSUME NEW i \in Message, messages'[i] # Null
                 PROVE  LET v == messages'[i] IN
                        /\ v.id = i /\ v.sender \in members'[v.conv]
                        /\ (Deleted(v) <=> v.body = "")
      BY DEF TableOK, Deleted
    <3>1. CASE i = m
      <4>1. w.id = m /\ w.sender \in members[w.conv]
        BY <1>1, <1>2 DEF TableOK
      <4> QED BY <1>1, <2>1, <2>2, <2>3, <3>1, <4>1
    <3>2. CASE i # m
      <4>1. messages'[i] = messages[i]
        BY <2>1, <3>2
      <4> QED BY <1>1, <4>1 DEF TableOK
    <3> QED BY <3>1, <3>2
  <2>6. OutsideFollowsDatabase'
    <3> SUFFICES ASSUME NEW i \in Message
                 PROVE  /\ frame'[i] # Null =>
                             /\ messages'[i] # Null
                             /\ frame'[i] \in {messages'[i], Original(messages'[i])}
                        /\ notified'[i] # {} =>
                             /\ messages'[i] # Null
                             /\ notified'[i] = members'[messages'[i].conv] \ {messages'[i].sender}
      BY DEF OutsideFollowsDatabase, Original
    <3>1. CASE i = m
      <4>1. /\ frame[m] # Null => frame[m] \in {w, Original(w)}
            /\ notified[m] # {} => notified[m] = members[w.conv] \ {w.sender}
        BY <1>1, <1>2 DEF OutsideFollowsDatabase
      <4> QED BY <1>1, <2>1, <2>2, <2>3, <2>4, <3>1, <4>1
    <3>2. CASE i # m
      <4>1. messages'[i] = messages[i]
        BY <2>1, <3>2
      <4> QED BY <1>1, <4>1 DEF OutsideFollowsDatabase
    <3> QED BY <3>1, <3>2
  <2>7. Path(r)'
    <3>1. OnPath(r)' /\ CreateOnPath(r)' /\ SendOnPath(r)'
      BY <1>1, <2>1 DEF Path, OnPath, CreateOnPath, SendOnPath, Asks
    <3>2. DeleteOnPath(r)'
      BY <1>1, <1>2, <2>1, <2>2, <2>3 DEF DeleteOnPath, Asks, Deleted
    <3>3. ~Ok(r)' /\ ~Asks(r, "send")' /\ ~Asks(r, "create")'
      BY <1>1, ServiceAssumption DEF Path, OnPath, Ok, Asks
    <3> QED BY <3>1, <3>2, <3>3 DEF Path, TruthfulWrite, RevocationHeld, AnswersTombstone
  <2>8. ASSUME NEW q \in Request, q # r PROVE Path(q)'
    <3>1. Path(q) /\ Same(q)
      BY <1>1, <2>1, <2>8, InvPaths DEF Same
    <3>2. CASE call[q].msg # m \/ ~(Asks(q, "send") \/ Asks(q, "delete"))
      <4>1. Asks(q, "send") \/ Asks(q, "delete") => call[q].msg \in Message
        BY <1>1, CallFields DEF TypeOK, Asks
      <4> QED BY <1>1, <2>1, <3>1, <3>2, <4>1, Untouched
    <3>3. CASE call[q].msg = m /\ Asks(q, "delete")
      <4>1. phase[q] \notin {"reselect", "tombstoned"} /\ ~Ok(q)
        BY <1>4, <3>1, <3>3 DEF Path, DeleteOnPath, AnswersTombstone
      <4>2. OnPath(q)' /\ CreateOnPath(q)' /\ SendOnPath(q)'
        BY <1>1, <3>1, <3>3 DEF Path, Same, OnPath, CreateOnPath, SendOnPath, Asks
      <4>3. DeleteOnPath(q)'
        BY <1>1, <2>1, <2>2, <2>3, <3>1, <3>3, <4>1 DEF Path, Same, DeleteOnPath, Asks
      <4>4. TruthfulWrite(q)' /\ RevocationHeld(q)' /\ AnswersTombstone(q)'
        BY <3>1, <3>3, <4>1 DEF Same, TruthfulWrite, RevocationHeld, AnswersTombstone, Asks, Ok
      <4> QED BY <4>2, <4>3, <4>4 DEF Path
    <3>4. CASE call[q].msg = m /\ Asks(q, "send")
      <4>1. OnPath(q)' /\ CreateOnPath(q)' /\ DeleteOnPath(q)' /\ AnswersTombstone(q)'
        BY <1>1, <3>1, <3>4
           DEF Path, Same, OnPath, CreateOnPath, DeleteOnPath, AnswersTombstone, Asks
      <4>2. messages'[call'[q].msg] = gone
        BY <1>1, <2>1, <3>4
      <4>3. SendOnPath(q)'
        <5>1. /\ phase'[q] \notin {"lookup", "gate", "insert"}
              /\ phase'[q] = "inserted" => row'[q] = Original(w)
              /\ w.conv = call'[q].conv /\ w.sender = call'[q].user
          BY <1>2, <3>1, <3>4 DEF Path, Same, SendOnPath
        <5>2. phase'[q] = "inserted" => row'[q] = Original(messages'[call'[q].msg])
          BY <2>4, <4>2, <5>1
        <5> QED BY <2>2, <2>3, <4>2, <5>1, <5>2 DEF SendOnPath, Original
      <4>4. TruthfulWrite(q)'
        BY <1>1, <1>2, <2>2, <2>3, <3>1, <3>4, <4>2 DEF Path, Same, TruthfulWrite, Asks, Ok
      <4>5. RevocationHeld(q)'
        BY <1>1, <1>2, <3>1, <3>4 DEF Path, Same, RevocationHeld, Asks
      <4> QED BY <4>1, <4>3, <4>4, <4>5 DEF Path
    <3> QED BY <3>2, <3>3, <3>4
  <2> QED BY <1>1, <2>5, <2>6, <2>7, <2>8, PathsInvNext, OwnIdsKept
<1> QED BY <1>3, <1>4 DEF SoftDelete, Selected

\* A conversation comes into being: nobody holds a message in it, and no other
\* request is creating it.
LEMMA CreateStep ==
  ASSUME Inv, TypeOK', NEW r \in Request, Create(r) PROVE Inv'
<1> DEFINE k == call[r]
           c == k.conv
<1>1. /\ TypeOK /\ OwnIds /\ TableOK /\ OutsideFollowsDatabase /\ Path(r)
      /\ phase[r] = "create" /\ Asks(r, "create") /\ Goto(r, "resume")
      /\ members' = [members EXCEPT ![c] = k.with]
      /\ UNCHANGED <<messages, related, call, at, row, reply, frame, notified, held>>
  BY InvPaths DEF Create, Path, OnPath, Asks, outside, history
<1>2. c \in Conversation /\ members[c] = {} /\ k.with \in held[r] /\ k.with # {}
  BY <1>1, CallFields, ServiceAssumption DEF Path, CreateOnPath, TypeOK, Asks, AllOps
<1>3. /\ members'[c] = k.with /\ phase'[r] = "resume"
      /\ \A d \in Conversation : d # c => members'[d] = members[d]
      /\ \A q \in Request : q # r => phase'[q] = phase[q]
  BY <1>1, <1>2, GotoAt DEF TypeOK, DatabaseType
<1>4. ASSUME NEW i \in Message, messages[i] # Null
      PROVE  messages[i].conv \in Conversation /\ messages[i].conv # c
  <2>1. messages[i] \in Row
    BY <1>1, <1>4 DEF TypeOK, DatabaseType
  <2>2. messages[i].conv \in Conversation
    BY <2>1 DEF Row
  <2>3. messages[i].sender \in members[messages[i].conv]
    BY <1>1, <1>4 DEF TableOK
  <2> QED BY <1>2, <2>2, <2>3
<1>a. \A i \in Message : /\ messages'[i] = messages[i]
                        /\ messages[i] # Null
                             => members'[messages[i].conv] = members[messages[i].conv]
  BY <1>1, <1>3, <1>4
<1>5. TableOK'
  <2> SUFFICES ASSUME NEW i \in Message, messages'[i] # Null
               PROVE  LET w == messages'[i] IN
                      /\ w.id = i /\ w.sender \in members'[w.conv]
                      /\ (Deleted(w) <=> w.body = "")
    BY DEF TableOK, Deleted
  <2>1. messages'[i] = messages[i] /\ messages[i] # Null
    BY <1>1
  <2>2. members'[messages[i].conv] = members[messages[i].conv]
    BY <1>a, <2>1
  <2> QED BY <1>1, <2>1, <2>2 DEF TableOK
<1>6. OutsideFollowsDatabase'
  <2> SUFFICES ASSUME NEW i \in Message
               PROVE  /\ frame'[i] # Null =>
                           /\ messages'[i] # Null
                           /\ frame'[i] \in {messages'[i], Original(messages'[i])}
                      /\ notified'[i] # {} =>
                           /\ messages'[i] # Null
                           /\ notified'[i] = members'[messages'[i].conv] \ {messages'[i].sender}
    BY DEF OutsideFollowsDatabase, Original
  <2> QED BY <1>1, <1>a DEF OutsideFollowsDatabase
<1>7. Path(r)'
  <2>1. OnPath(r)' /\ CreateOnPath(r)'
    BY <1>1, <1>3 DEF Path, OnPath, CreateOnPath, Asks
  <2>2. ~Ok(r)' /\ reply'[r].outcome \notin Refusal
    BY <1>1, ServiceAssumption DEF Path, OnPath, Ok
  <2>3. TruthfulWrite(r)' /\ AnswersTombstone(r)'
    BY <2>2 DEF TruthfulWrite, AnswersTombstone
  <2>4. SendOnPath(r)' /\ DeleteOnPath(r)' /\ RevocationHeld(r)'
    BY <1>1, <1>2, <1>3 DEF SendOnPath, DeleteOnPath, RevocationHeld, Asks
  <2> QED BY <2>1, <2>3, <2>4 DEF Path
<1>8. ASSUME NEW q \in Request, q # r PROVE Path(q)'
  <2>1. Path(q) /\ phase'[q] = phase[q]
    BY <1>3, <1>8, InvPaths
  <2>2. OnPath(q)' /\ DeleteOnPath(q)' /\ AnswersTombstone(q)'
    BY <1>1, <2>1 DEF Path, OnPath, DeleteOnPath, AnswersTombstone, Asks, Ok, Deleted
  <2>3. CASE Asks(q, "create")
    <3>1. call[q].conv # c /\ call[q].conv \in Conversation
      BY <1>1, <1>8, <2>3, CallFields DEF OwnIds, TypeOK, Asks, AllOps
    <3>2. members'[call[q].conv] = members[call[q].conv]
      BY <1>3, <3>1
    <3>3. CreateOnPath(q)' /\ SendOnPath(q)'
      BY <1>1, <2>1, <2>3, <3>2 DEF Path, CreateOnPath, SendOnPath, Asks
    <3>4. TruthfulWrite(q)' /\ RevocationHeld(q)'
      BY <1>1, <2>1, <2>3, <3>2 DEF Path, TruthfulWrite, RevocationHeld, Asks, Ok
    <3> QED BY <2>2, <3>3, <3>4 DEF Path
  <2>4. CASE Asks(q, "send")
    <3>1. call[q].conv \in Conversation /\ call[q].msg \in Message
      BY <1>1, <2>4, CallFields DEF TypeOK, Asks, AllOps
    <3>2. CreateOnPath(q)' /\ TruthfulWrite(q)'
      BY <1>1, <2>1, <2>4 DEF Path, CreateOnPath, TruthfulWrite, Asks, Ok
    <3>3. CASE call[q].conv # c
      <4>1. members'[call[q].conv] = members[call[q].conv]
        BY <1>3, <3>1, <3>3
      <4>2. SendOnPath(q)' /\ RevocationHeld(q)'
        BY <1>1, <2>1, <2>4, <4>1 DEF Path, SendOnPath, RevocationHeld, Asks, Original
      <4> QED BY <2>2, <3>2, <4>2 DEF Path
    <3>4. CASE call[q].conv = c
      <4>1. phase[q] \notin {"gate", "insert"} /\ messages[call[q].msg] = Null
        BY <1>2, <1>4, <2>1, <2>4, <3>1, <3>4 DEF Path, SendOnPath
      <4>2. SendOnPath(q)' /\ RevocationHeld(q)'
        BY <1>1, <2>1, <2>4, <4>1 DEF Path, SendOnPath, RevocationHeld, Asks
      <4> QED BY <2>2, <3>2, <4>2 DEF Path
    <3> QED BY <3>3, <3>4
  <2>5. CASE ~Asks(q, "create") /\ ~Asks(q, "send")
    BY <1>1, <2>2, <2>5
       DEF Path, CreateOnPath, SendOnPath, TruthfulWrite, RevocationHeld, Asks
  <2> QED BY <2>3, <2>4, <2>5
<1> QED BY <1>1, <1>5, <1>6, <1>7, <1>8, PathsInvNext, OwnIdsKept

\* Publishing the row in hand keeps every frame a message as it is or was stored.
LEMMA PublishStep ==
  ASSUME TypeOK, OutsideFollowsDatabase, NEW w, NEW m \in Message,
         w.id = m, messages[m] # Null, w \in {messages[m], Original(messages[m])},
         frame' = Publish(w), UNCHANGED <<messages, members>>,
         \A i \in Message : i # m => notified'[i] = notified[i],
         notified'[m] \in {notified[m], members[messages[m].conv] \ {messages[m].sender}}
  PROVE  OutsideFollowsDatabase'
<1> SUFFICES ASSUME NEW i \in Message
             PROVE  /\ frame'[i] # Null =>
                         /\ messages'[i] # Null
                         /\ frame'[i] \in {messages'[i], Original(messages'[i])}
                    /\ notified'[i] # {} =>
                         /\ messages'[i] # Null
                         /\ notified'[i] = members'[messages'[i].conv] \ {messages'[i].sender}
  BY DEF OutsideFollowsDatabase, Original
<1>1. frame'[i] = IF i = m THEN w ELSE frame[i]
  BY DEF Publish, TypeOK, OutsideType
<1> QED BY <1>1 DEF OutsideFollowsDatabase

\* An answer that publishes: only the frames and notifications of its message move.
LEMMA PublisherStep ==
  ASSUME Inv, TypeOK', NEW r \in Request, NEW m \in Message, m = call[r].msg,
         Answer(r, "ok", {row[r]}, {}),
         UNCHANGED <<database, related, call, history>>, OutsideFollowsDatabase',
         \A i \in Message : i # m => frame'[i] = frame[i] /\ notified'[i] = notified[i],
         messages[m] # Null,
         \/ Asks(r, "send") /\ phase[r] = "inserted"
         \/ Asks(r, "delete") /\ phase[r] = "tombstoned"
  PROVE  Inv'
<1>1. /\ TypeOK /\ OwnIds /\ TableOK /\ Path(r)
      /\ UNCHANGED <<messages, members, related, call, held>>
  BY InvPaths DEF database, history
<1>2. /\ phase'[r] = "done"
      /\ reply'[r] = [outcome |-> "ok", rows |-> {row[r]}, convs |-> {}]
      /\ \A q \in Request : q # r =>
           /\ phase'[q] = phase[q] /\ at'[q] = at[q] /\ row'[q] = row[q]
           /\ reply'[q] = reply[q]
  BY <1>1, AnswerAt DEF TypeOK
<1>3. TableOK' /\ OwnIds'
  BY <1>1, OwnIdsKept DEF TableOK, Deleted
<1>4. Path(r)'
  <2>1. OnPath(r)' /\ CreateOnPath(r)' /\ DeleteOnPath(r)'
    BY <1>1, <1>2 DEF Path, OnPath, CreateOnPath, DeleteOnPath, Asks, AllOps
  <2>2. SendOnPath(r)' /\ RevocationHeld(r)'
    BY <1>1, <1>2 DEF Path, SendOnPath, RevocationHeld, Asks
  <2>3. reply'[r].outcome = "ok" /\ "ok" \notin Refusal /\ reply'[r].rows = {row[r]}
    BY <1>2 DEF Refusal
  <2>4. TruthfulWrite(r)'
    BY <1>1, <2>3 DEF Path, SendOnPath, TruthfulWrite, Asks, Ok
  <2>5. AnswersTombstone(r)'
    BY <1>1, <2>3 DEF Path, DeleteOnPath, AnswersTombstone, TableOK, Asks, Ok, Deleted
  <2> QED BY <2>1, <2>2, <2>4, <2>5 DEF Path
<1>5. ASSUME NEW q \in Request, q # r PROVE Path(q)'
  <2>1. Path(q) /\ Same(q)
    BY <1>1, <1>2, <1>5, InvPaths DEF Same
  <2>2. OnPath(q)' /\ CreateOnPath(q)' /\ RevocationHeld(q)'
    BY <1>1, <2>1 DEF Path, Same, OnPath, CreateOnPath, RevocationHeld, Asks
  <2>3. SendOnPath(q)'
    BY <1>1, <2>1 DEF Path, Same, SendOnPath, Asks, Original
  <2>4. DeleteOnPath(q)' /\ AnswersTombstone(q)'
    BY <1>1, <2>1 DEF Path, Same, DeleteOnPath, AnswersTombstone, Asks, Ok, Deleted
  <2>5. TruthfulWrite(q)'
    <3>1. CASE Asks(q, "send") /\ reply[q].outcome \in Refusal
      <4>1. call[q].msg \in Message /\ messages[call[q].msg] = Null
        BY <1>1, <2>1, <3>1, CallFields DEF Path, TruthfulWrite, TypeOK, Asks, AllOps
      <4> QED BY <1>1, <2>1, <3>1, <4>1 DEF Path, Same, TruthfulWrite, Asks, Ok
    <3>2. CASE ~(Asks(q, "send") /\ reply[q].outcome \in Refusal)
      BY <1>1, <2>1, <3>2 DEF Path, Same, TruthfulWrite, Asks, Ok
    <3> QED BY <3>1, <3>2
  <2> QED BY <2>2, <2>3, <2>4, <2>5 DEF Path
<1> QED BY <1>3, <1>4, <1>5, PathsInvNext

\* Publishing and notifying a message that was sent preserves Inv.
LEMMA SentStep ==
  ASSUME Inv, TypeOK', NEW r \in Request, Sent(r) PROVE Inv'
<1> DEFINE m == call[r].msg
           w == messages[m]
<1>1. /\ TypeOK /\ OutsideFollowsDatabase /\ TableOK /\ Path(r)
      /\ phase[r] = "inserted" /\ Asks(r, "send")
      /\ frame' = Publish(row[r]) /\ UNCHANGED <<messages, members>>
  BY InvPaths DEF Sent, Path, OnPath, Asks, database
<1>2. m \in Message /\ w # Null /\ w \in Row /\ w.id = m /\ row[r] = Original(w)
  BY <1>1, CallFields DEF Path, SendOnPath, TypeOK, DatabaseType, TableOK, Asks, AllOps
<1>3. row[r].id = m /\ row[r].conv = w.conv /\ row[r].sender = w.sender
  BY <1>2 DEF Original, Row
<1>4. notified' = [notified EXCEPT ![m] = members[w.conv] \ {w.sender}]
  <2>1. notified' = [notified EXCEPT ![m] = notified[m] \cup (members[w.conv] \ {w.sender})]
    BY <1>3 DEF Sent, Recipients
  <2>2. notified[m] = {} \/ notified[m] = members[w.conv] \ {w.sender}
    BY <1>1, <1>2 DEF OutsideFollowsDatabase
  <2> QED BY <2>1, <2>2
<1>5. /\ \A i \in Message : i # m => notified'[i] = notified[i] /\ frame'[i] = frame[i]
      /\ notified'[m] = members[w.conv] \ {w.sender}
  BY <1>1, <1>2, <1>3, <1>4 DEF Publish, TypeOK, OutsideType
<1>6. OutsideFollowsDatabase'
  BY <1>1, <1>2, <1>3, <1>5, PublishStep
<1> QED BY <1>1, <1>2, <1>5, <1>6, PublisherStep DEF Sent

\* Publishing a tombstone preserves Inv.
LEMMA TakenBackStep ==
  ASSUME Inv, TypeOK', NEW r \in Request, TakenBack(r) PROVE Inv'
<1> DEFINE m == call[r].msg
           w == messages[m]
<1>1. /\ TypeOK /\ OutsideFollowsDatabase /\ TableOK /\ Path(r)
      /\ phase[r] = "tombstoned" /\ Asks(r, "delete")
      /\ frame' = Publish(row[r]) /\ UNCHANGED <<messages, members, notified>>
  BY InvPaths DEF TakenBack, Path, OnPath, Asks, database
<1>2. m \in Message /\ w # Null /\ w.id = m /\ row[r] = w
  BY <1>1, CallFields DEF Path, DeleteOnPath, TypeOK, DatabaseType, TableOK, Asks, AllOps
<1>3. \A i \in Message : i # m => frame'[i] = frame[i]
  BY <1>1, <1>2 DEF Publish, TypeOK, OutsideType
<1>4. OutsideFollowsDatabase'
  <2>1. row[r].id = m /\ row[r] \in {messages[m], Original(messages[m])}
    BY <1>2
  <2>2. \A i \in Message : notified'[i] = notified[i]
    BY <1>1
  <2>3. UNCHANGED <<messages, members>>
    BY <1>1
  <2> QED BY <1>1, <1>2, <2>1, <2>2, <2>3, PublishStep
<1> QED BY <1>1, <1>2, <1>3, <1>4, PublisherStep DEF TakenBack

-----------------------------------------------------------------------------
(* The environment's steps, and the whole.                                 *)

\* Time passes, and the host changes its mind about a group.
LEMMA EnvironmentStep ==
  ASSUME Inv, Tick \/ (\E g \in Group : Relate(g) \/ Revoke(g)) \/ UNCHANGED vars
  PROVE  Inv'
<1>1. TypeOK /\ OwnIds /\ \A q \in Request : Path(q)
  BY InvPaths
<1>2. /\ UNCHANGED <<messages, members, frame, notified, phase, call, at, snap, row, todo,
                     reply, before, marks, since, known, unsure, clearedAt, lastReadAt>>
      /\ clock' \in Nat /\ related' \in SUBSET Group
      /\ held' \in [Request -> SUBSET Group] /\ \A q \in Request : Same(q)
  <2>1. CASE Tick
    BY <1>1, <2>1 DEF Tick, outside, history, Same, TypeOK, DatabaseType, ClientType
  <2>2. ASSUME NEW g \in Group, Relate(g)
        PROVE  /\ UNCHANGED <<database, phase, call, at, snap, row, todo, reply, outside,
                               before, marks, since, known, unsure>>
               /\ related' \in SUBSET Group /\ held' \in [Request -> SUBSET Group]
               /\ \A q \in Request : Same(q)
    BY <1>1, <2>2 DEF Relate, Same, TypeOK, ClientType
  <2>3. ASSUME NEW g \in Group, Revoke(g)
        PROVE  /\ UNCHANGED <<database, phase, call, at, snap, row, todo, reply, outside, history>>
               /\ related' \in SUBSET Group /\ \A q \in Request : Same(q)
    BY <1>1, <2>3 DEF Revoke, Same, TypeOK, ClientType, history
  <2>4. CASE UNCHANGED vars
    BY <1>1, <2>4 DEF vars, database, outside, history, Same, TypeOK, DatabaseType, ClientType
  <2> QED BY <1>1, <2>1, <2>2, <2>3, <2>4
          DEF database, outside, history, TypeOK, DatabaseType, ClientType
<1>3. TypeOK'
  BY <1>1, <1>2 DEF TypeOK, DatabaseType, HandlerType, ClientType, OutsideType
<1>4. TableOK' /\ OutsideFollowsDatabase'
  BY <1>2, TablesUnchanged DEF outside
<1>5. \A q \in Request : Path(q)'
  BY <1>1, <1>2, Undisturbed DEF outside
<1> QED BY <1>1, <1>2, <1>3, <1>4, <1>5, OwnIdsKept, PathsInvNext

\* Inv holds initially.
LEMMA InitInv == Init => Inv
<1> SUFFICES ASSUME Init PROVE Inv
  OBVIOUS
<1>1. TypeOK
  BY InitType
<1>2. NoCall.op \notin AllOps /\ Null \notin Refusal \cup {"ok"}
  BY ServiceAssumption DEF NoCall
<1>3. \A r \in Request : /\ call[r] = NoCall /\ phase[r] = "idle"
                        /\ reply[r].outcome = Null
  BY DEF Init, NoReply
<1>4. \A m \in Message : messages[m] = Null /\ frame[m] = Null /\ notified[m] = {}
  BY DEF Init
<1>5. OwnIds
  BY <1>2, <1>3 DEF OwnIds, Asks, AllOps
<1>6. TableOK /\ OutsideFollowsDatabase
  BY <1>4 DEF TableOK, OutsideFollowsDatabase
<1>7. ASSUME NEW r \in Request PROVE Path(r)
  <2>1. ~Asks(r, "send") /\ ~Asks(r, "create") /\ ~Asks(r, "delete")
    BY <1>2, <1>3 DEF Asks, AllOps
  <2>2. OnPath(r)
    BY <1>3 DEF OnPath
  <2> QED BY <2>1, <2>2 DEF Path, CreateOnPath, SendOnPath, DeleteOnPath, TruthfulWrite,
             RevocationHeld, AnswersTombstone
<1> QED BY <1>1, <1>5, <1>6, <1>7, InvPaths

\* Every step of the service preserves Inv.
LEMMA InvNext == Inv /\ [Next]_vars => Inv'
<1> SUFFICES ASSUME Inv, [Next]_vars PROVE Inv'
  OBVIOUS
<1>1. CASE Tick \/ (\E g \in Group : Relate(g) \/ Revoke(g)) \/ UNCHANGED vars
  BY <1>1, EnvironmentStep
<1>2. ASSUME NEW r \in Request, Call(r) PROVE Inv'
  BY <1>2, CallType, CallStep DEF Call, Inv
<1>3. ASSUME NEW r \in Request, Step(r) \/ Fail(r) \/ Respond(r) PROVE Inv'
  <2>1. TypeOK'
    BY <1>3, StepType
  <2> QED BY <1>3, <2>1, LookupStep, GateStep, CreateStep, ReadStep, InsertStep, SentStep,
             FindMessageStep, SoftDeleteStep, ReselectStep, TakenBackStep, StampStep,
             FailStep, RespondStep DEF Step
<1> QED BY <1>1, <1>2, <1>3 DEF Next

-----------------------------------------------------------------------------
(* The theorems.                                                           *)

\* The inductive invariant: at every await of every request, what the handler
\* holds is what the database says, whatever else is in flight.
THEOREM Invariance == Spec => []Inv
  BY InitInv, InvNext, PTL DEF Spec

\* Every variable keeps its type; rows, replies and frames are well formed.
THEOREM TypeCorrectness == Spec => []TypeOK
<1>1. Inv => TypeOK
  BY DEF Inv
<1> QED BY <1>1, Invariance, PTL

\* What sendMessage and createConversation answer is what they did: an
\* acknowledged write is stored, a refused one is neither stored nor published.
THEOREM WritesAreTruthful == Spec => []TruthfulWrites
<1>1. Inv => TruthfulWrites
  BY DEF Inv
<1> QED BY <1>1, Invariance, PTL

\* The gate fails closed under every interleaving: nothing is stored for a request
\* the host would have refused at every moment since it began.
THEOREM RevocationIsRespected == Spec => []RevocationHolds
<1>1. Inv => RevocationHolds
  BY DEF Inv
<1> QED BY <1>1, Invariance, PTL

\* deleteMessage is idempotent under races: all its answers are one tombstone.
THEOREM DeletesAgree == Spec => []OneTombstone
<1>1. Inv => OneTombstone
  BY DEF Inv
<1> QED BY <1>1, Invariance, PTL

\* What is on the bus is, or was, in the table, and only the other participants
\* are notified.
THEOREM NothingPublishedEarly == Spec => []OutsideFollowsDatabase
<1>1. Inv => OutsideFollowsDatabase
  BY DEF Inv
<1> QED BY <1>1, Invariance, PTL

\* The only steps that write the two tables the ledger is about.
LEMMA Writers ==
  ASSUME [Next]_vars
  PROVE  \/ UNCHANGED <<members, messages>>
         \/ \E r \in Request : Create(r) \/ Insert(r) \/ SoftDelete(r)
<1>1. CASE Tick \/ (\E g \in Group : Relate(g) \/ Revoke(g)) \/ UNCHANGED vars
  BY <1>1 DEF Tick, Relate, Revoke, vars, database
<1>2. ASSUME NEW r \in Request, Call(r) PROVE UNCHANGED <<members, messages>>
  <2>1. ASSUME NEW k, Arrive(r, k) PROVE UNCHANGED <<members, messages>>
    BY <2>1 DEF Arrive, database
  <2>2. PICK u \in User : \/ CallCreate(r, u) \/ CallInbox(r, u) \/ CallOnConversation(r, u)
                         \/ CallRead(r, u) \/ CallSend(r, u) \/ CallDelete(r, u)
    BY <1>2 DEF Call
  <2>3. CASE CallCreate(r, u) \/ CallInbox(r, u)
    BY <2>1, <2>3 DEF CallCreate, CallInbox
  <2>4. CASE CallOnConversation(r, u) \/ CallRead(r, u)
    BY <2>1, <2>4 DEF CallOnConversation, CallRead
  <2>5. CASE CallSend(r, u) \/ CallDelete(r, u)
    BY <2>1, <2>5 DEF CallSend, CallDelete
  <2> QED BY <2>2, <2>3, <2>4, <2>5
<1>3. ASSUME NEW r \in Request, Fail(r) \/ Respond(r) PROVE UNCHANGED <<members, messages>>
  BY <1>3 DEF Fail, Respond, database
<1>4. ASSUME NEW r \in Request, Step(r)
      PROVE  \/ UNCHANGED <<members, messages>>
             \/ Create(r) \/ Insert(r) \/ SoftDelete(r)
  BY <1>4 DEF Step, Lookup, GateAllows, GateDenies, Resume, Sent, FindMessage, Reselect,
              TakenBack, Clear, MarkRead, ListMessages, FindByParticipant, Preview, database
<1> QED BY <1>1, <1>2, <1>3, <1>4 DEF Next

\* What an INSERT finds and stores.
LEMMA Inserted ==
  ASSUME Inv, NEW r \in Request, Insert(r)
  PROVE  LET m == call[r].msg  w == messages'[m] IN
         /\ m \in Message /\ messages[m] = Null
         /\ messages' = [messages EXCEPT ![m] = w] /\ UNCHANGED members
         /\ w \in Row /\ w.id = m /\ w.body = "text" /\ w.deletedAt = Null
         /\ w.sender \in members[w.conv]
<1>1. TypeOK /\ Path(r) /\ phase[r] = "insert" /\ Asks(r, "send")
  BY InvPaths DEF Insert, Path, OnPath, Asks
<1>2. /\ call[r].msg \in Message /\ call[r].conv \in Conversation /\ call[r].user \in User
      /\ clock \in Int /\ messages \in [Message -> Row \cup {Null}]
  BY <1>1, CallFields DEF TypeOK, DatabaseType, Asks, AllOps
<1>3. messages[call[r].msg] = Null /\ call[r].user \in members[call[r].conv]
  BY <1>1 DEF Path, SendOnPath
<1> DEFINE new == [id |-> call[r].msg, conv |-> call[r].conv, sender |-> call[r].user,
                   body |-> "text", createdAt |-> clock, deletedAt |-> Null]
<1>4. new \in Row
  BY <1>2 DEF Row, Instant
<1>5. /\ messages' = [messages EXCEPT ![call[r].msg] = new] /\ UNCHANGED members
  BY DEF Insert
<1>6. messages'[call[r].msg] = new
  BY <1>2, <1>5
<1> QED BY <1>2, <1>3, <1>4, <1>5, <1>6

\* What an UPDATE that selects its row finds and leaves.
LEMMA SoftDeleted ==
  ASSUME Inv, NEW r \in Request, SoftDelete(r), messages' # messages
  PROVE  LET m == call[r].msg  w == messages[m] IN
         /\ Asks(r, "delete") /\ m \in Message /\ w \in Row /\ UNCHANGED members
         /\ w.sender = call[r].user /\ w.conv = call[r].conv /\ w.deletedAt = Null
         /\ at[r] \in Int
         /\ messages' = [messages EXCEPT ![m].body = "", ![m].deletedAt = at[r]]
<1> DEFINE m == call[r].msg
           w == messages[m]
<1>1. TypeOK /\ Path(r) /\ phase[r] = "update" /\ Asks(r, "delete")
  BY InvPaths DEF SoftDelete, Path, OnPath, Asks
<1>2. /\ m \in Message /\ w \in Row /\ w.sender = call[r].user /\ w.conv = call[r].conv
      /\ at[r] \in Int
  BY <1>1, CallFields
     DEF Path, DeleteOnPath, TypeOK, DatabaseType, HandlerType, Asks, AllOps, Instant
<1>3. /\ ~Deleted(w) /\ messages' = [messages EXCEPT ![m] = Tombstone(w, at[r])]
      /\ UNCHANGED members
  BY DEF SoftDelete, Selected
<1>4. messages' = [messages EXCEPT ![m].body = "", ![m].deletedAt = at[r]]
  BY <1>1, <1>2, <1>3 DEF Tombstone, TypeOK, DatabaseType
<1> QED BY <1>1, <1>2, <1>3, <1>4 DEF Deleted

\* Only a message's author ever takes it back, although the check and the UPDATE
\* are separate awaits of deleteMessage.
THEOREM OnlyAuthorsTakeBack == Spec => AuthorOnly
<1> DEFINE Changed ==
      \A m \in Message :
        messages'[m] # messages[m] /\ messages[m] # Null =>
          \E r \in Request : /\ Asks(r, "delete") /\ call[r].msg = m
                             /\ call[r].user = messages[m].sender
                             /\ call[r].conv = messages[m].conv
<1>1. ASSUME Inv, [Next]_vars PROVE [Changed]_vars
  <2> SUFFICES ASSUME NEW m \in Message, messages'[m] # messages[m], messages[m] # Null
               PROVE  \E r \in Request : /\ Asks(r, "delete") /\ call[r].msg = m
                                         /\ call[r].user = messages[m].sender
                                         /\ call[r].conv = messages[m].conv
    OBVIOUS
  <2>1. PICK r \in Request : Create(r) \/ Insert(r) \/ SoftDelete(r)
    BY <1>1, Writers
  <2>2. messages' # messages
    OBVIOUS
  <2>3. \A i \in Message : i # call[r].msg => messages'[i] = messages[i]
    BY <1>1, <2>1 DEF Create, Insert, SoftDelete, Inv, TypeOK, DatabaseType
  <2>4. call[r].msg = m
    BY <2>3
  <2>5. CASE SoftDelete(r)
    BY <1>1, <2>2, <2>4, <2>5, SoftDeleted
  <2>6. CASE Insert(r)
    BY <1>1, <2>4, <2>6, Inserted
  <2>7. CASE Create(r)
    BY <2>2, <2>7 DEF Create
  <2> QED BY <2>1, <2>5, <2>6, <2>7
<1> QED BY <1>1, Invariance, PTL DEF Spec, AuthorOnly

\* The service implements MessageLedger: conversations are opened once, messages
\* posted once, by participants, and taken back at most once.
THEOREM ImplementsLedger == Spec => LedgerSpec
<1>1. Init => Ledger!Init
  BY ServiceAssumption DEF Init, Ledger!Init
<1>2. ASSUME Inv, [Next]_vars PROVE [Ledger!Next]_(Ledger!ledger)
  <2>1. CASE UNCHANGED <<members, messages>>
    BY <2>1 DEF Ledger!ledger
  <2>2. ASSUME NEW r \in Request, Create(r) PROVE Ledger!Next
    <3> DEFINE c == call[r].conv
    <3>1. Path(r) /\ TypeOK /\ phase[r] = "create" /\ Asks(r, "create")
      BY <1>2, <2>2, InvPaths DEF Create, Path, OnPath, Asks
    <3>2. c \in Conversation /\ members[c] = {} /\ call[r].with \in (SUBSET User) \ {{}}
      BY <3>1, CallFields, ServiceAssumption DEF Path, CreateOnPath, TypeOK, Asks, AllOps
    <3>3. members' = [members EXCEPT ![c] = call[r].with] /\ UNCHANGED messages
      BY <2>2 DEF Create
    <3>4. Ledger!Open(c)
      BY <3>1, <3>2, <3>3 DEF Ledger!Open, TypeOK, DatabaseType
    <3> QED BY <3>2, <3>4 DEF Ledger!Next
  <2>3. ASSUME NEW r \in Request, Insert(r) PROVE Ledger!Next
    <3> DEFINE m == call[r].msg
    <3>1. /\ m \in Message /\ messages[m] = Null
          /\ messages' = [messages EXCEPT ![m] = messages'[m]] /\ UNCHANGED members
          /\ messages'[m] \in Row /\ messages'[m].id = m /\ messages'[m].body = "text"
          /\ messages'[m].deletedAt = Null
          /\ messages'[m].sender \in members[messages'[m].conv]
      BY <1>2, <2>3, Inserted
    <3>2. Ledger!Post(m)
      BY <3>1 DEF Ledger!Post, Ledger!Entry, Row, Instant
    <3> QED BY <3>1, <3>2 DEF Ledger!Next
  <2>4. ASSUME NEW r \in Request, SoftDelete(r), messages' # messages PROVE Ledger!Next
    <3> DEFINE m == call[r].msg
               w == messages[m]
    <3>1. /\ m \in Message /\ w \in Row /\ UNCHANGED members /\ w.deletedAt = Null
          /\ at[r] \in Int
          /\ messages' = [messages EXCEPT ![m].body = "", ![m].deletedAt = at[r]]
      BY <1>2, <2>4, SoftDeleted
    <3>2. messages \in [Message -> Row \cup {Null}] /\ w # Null /\ at[r] # Null
      BY <1>2, <3>1, ServiceAssumption DEF Inv, TypeOK, DatabaseType
    <3>3. messages'[m] = [w EXCEPT !.body = "", !.deletedAt = at[r]]
      BY <3>1, <3>2
    <3>4. messages'[m] \in Row /\ messages'[m].deletedAt = at[r]
      <4> HIDE DEF w
      <4>1. w \in Row /\ at[r] \in Int
        BY <3>1
      <4>2. [w EXCEPT !.body = "", !.deletedAt = at[r]] \in Row
        BY <4>1 DEF Row, Instant
      <4>3. [w EXCEPT !.body = "", !.deletedAt = at[r]].deletedAt = at[r]
        BY <4>1 DEF Row
      <4> QED BY <3>3, <4>2, <4>3
    <3>5. Ledger!TakeBack(m)
      BY <3>1, <3>2, <3>4 DEF Ledger!TakeBack, Ledger!Live, Ledger!Entry, Row, Instant
    <3> QED BY <3>1, <3>5 DEF Ledger!Next
  <2>5. ASSUME NEW r \in Request, SoftDelete(r), messages' = messages
        PROVE  UNCHANGED <<members, messages>>
    BY <2>5 DEF SoftDelete
  <2> QED BY <1>2, <2>1, <2>2, <2>3, <2>4, <2>5, Writers DEF Ledger!ledger
<1> QED BY <1>1, <1>2, Invariance, PTL DEF Spec, LedgerSpec, Ledger!Spec
=============================================================================
