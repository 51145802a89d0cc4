--------------------------- MODULE MessagingService ---------------------------
(***************************************************************************)
(* The core of the service over its Postgres stores: MessagingService and  *)
(* the queries its two stores issue.  A request is a process; every await  *)
(* of the handler is a step of its own, so requests interleave wherever    *)
(* the code lets them: between a lookup and the write it authorised,       *)
(* between a write reaching the database and its result reaching the       *)
(* handler, between reading a clock and storing what it said.              *)
(*                                                                         *)
(* Abstracted: text is "text" or "", ids are model values, a list of       *)
(* messages is a set of rows (paging and its limits are left to the        *)
(* History module), and an error the core does not raise is "Error".       *)
(***************************************************************************)
EXTENDS Integers, FiniteSets

CONSTANTS
  User, Conversation, Message,
  Request,       \* places for requests in flight, reused once answered
  Null,
  Group,         \* sets of users clients ask to talk in
  Seeded,        \* conversation -> participants already stored, or {}
  Op,            \* the operations clients issue
  InFlight,      \* requests one user has in flight at once
  Failures,      \* whether awaits may reject
  HostChanges,   \* whether the host changes its mind about a group
  MaxTime,       \* bound on the database clock
  TicksPerMs,    \* database clock ticks (microseconds) in one ms of a JS Date
  Skew           \* offsets of the service hosts' clocks from the database's

AllOps == {"create", "get", "inbox", "list", "send", "delete", "clear", "read"}

Refusal == {"EmptyMessage", "ConversationNotFound", "NotAParticipant",
            "NotAllowed", "MessageNotFound", "NotMessageAuthor"}

Instant == Int
Row == [id : Message, conv : Conversation, sender : User,
        body : {"text", ""}, createdAt : Instant,
        deletedAt : Instant \cup {Null}]

ASSUME ServiceAssumption ==
  /\ Op \subseteq AllOps
  /\ Group \subseteq (SUBSET User) \ {{}}
  /\ Seeded \in [Conversation -> Group \cup {{}}]
  /\ InFlight \in Nat /\ MaxTime \in Nat
  /\ Failures \in BOOLEAN /\ HostChanges \in BOOLEAN
  /\ TicksPerMs \in Nat \ {0}
  /\ Skew \subseteq Int /\ Skew # {}
  /\ Null \notin Int /\ Null \notin Row
  /\ Null \notin AllOps \cup Refusal \cup {"ok", "Error"}

VARIABLES
  \* the database
  clock, members, clearedAt, lastReadAt, messages,
  \* the host application: the groups its gate says yes to
  related,
  \* each request: where it waits, what was asked, the locals of its handler
  \* (an instant, the requester's clearedAt as read, the row in hand,
  \* the conversations still to preview) and its reply
  phase, call, at, snap, row, todo, reply,
  \* what left the service: the last frame on the bus, the notifications
  frame, notified,
  \* history, of each request since its call: the rows stored then, the groups
  \* related, its reader's cleared_at in all conversations, when the clears it
  \* races were called, the marker it is going to move; and the messages whose
  \* deletion a failure or a race with their own send may keep from the bus
  before, held, marks, since, known, unsure

database == <<clock, members, clearedAt, lastReadAt, messages>>
outside  == <<frame, notified>>
history  == <<before, held, marks, since, known, unsure>>
vars == <<database, related, phase, call, at, snap, row, todo, reply,
          outside, history>>

Phase == {"idle", "lookup", "gate", "create", "insert", "inserted", "find",
          "update", "reselect", "tombstoned", "clear", "mark", "resume",
          "page", "inbox", "preview", "done"}
NoCall == [op |-> Null, user |-> Null, conv |-> Null, msg |-> Null, with |-> {}]
NoReply == [outcome |-> Null, rows |-> {}, convs |-> {}]
Cleared == [Conversation -> Instant \cup {Null}]
NeverCleared == [c \in Conversation |-> Null]

\* new Date() on some host of the service: its own clock, in whole milliseconds.
Truncate(t) == t - (t % TicksPerMs)
Date == {Truncate(clock + s) : s \in Skew}

Stored == {m \in Message : messages[m] # Null}
Rows == {messages[m] : m \in Stored}
Deleted(w) == w.deletedAt # Null

\* Mutant: the boundary instant is let through.
ShowsFrom(w, after) == after # Null => w.createdAt >= after

\* created_at > $2, where the query has an `after`.
Shows(w, after) == after # Null => w.createdAt > after
Visible(c, after) == {w \in Rows : w.conv = c /\ Shows(w, after)}
Latest(ws) == {w \in ws : \A v \in ws : v.createdAt <= w.createdAt}

-----------------------------------------------------------------------------
Init ==
  /\ clock = 0
  /\ members = Seeded
  /\ clearedAt = [c \in Conversation |-> [u \in User |-> Null]]
  /\ lastReadAt = [c \in Conversation |-> [u \in User |-> Null]]
  /\ messages = [m \in Message |-> Null]
  /\ related \in SUBSET Group
  /\ phase = [r \in Request |-> "idle"]
  /\ call = [r \in Request |-> NoCall]
  /\ at = [r \in Request |-> Null]
  /\ snap = [r \in Request |-> NeverCleared]
  /\ row = [r \in Request |-> Null]
  /\ todo = [r \in Request |-> {}]
  /\ reply = [r \in Request |-> NoReply]
  /\ frame = [m \in Message |-> Null]
  /\ notified = [m \in Message |-> {}]
  /\ before = [r \in Request |-> {}]
  /\ held = [r \in Request |-> {}]
  /\ marks = [r \in Request |-> {}]
  /\ since = [r \in Request |-> {}]
  /\ known = [r \in Request |-> Null]
  /\ unsure = {}

-----------------------------------------------------------------------------
(* The environment.                                                        *)

Tick ==
  /\ clock < MaxTime /\ clock' = clock + 1
  /\ UNCHANGED <<members, clearedAt, lastReadAt, messages, related, phase, call,
                 at, snap, row, todo, reply, outside, history>>

\* The host's answer about a group can change at any time.
Relate(g) ==
  /\ HostChanges /\ g \notin related /\ related' = related \cup {g}
  /\ held' = [q \in Request |->
               IF phase[q] = "idle" THEN held[q] ELSE held[q] \cup {g}]
  /\ UNCHANGED <<database, phase, call, at, snap, row, todo, reply, outside,
                 before, marks, since, known, unsure>>

Revoke(g) ==
  /\ HostChanges /\ g \in related /\ related' = related \ {g}
  /\ UNCHANGED <<database, phase, call, at, snap, row, todo, reply, outside, history>>

-----------------------------------------------------------------------------
(* A request arrives (src/http/conversations-router.ts).                   *)

Goto(r, p) == phase' = [phase EXCEPT ![r] = p]

\* The handler returns or throws: its locals are gone, the answer is on its way.
Answer(r, outcome, ws, cs) ==
  /\ Goto(r, "done")
  /\ reply' = [reply EXCEPT ![r] = [outcome |-> outcome, rows |-> ws, convs |-> cs]]
  /\ at' = [at EXCEPT ![r] = Null]
  /\ snap' = [snap EXCEPT ![r] = NeverCleared]
  /\ row' = [row EXCEPT ![r] = Null]
  /\ todo' = [todo EXCEPT ![r] = {}]
Refuse(r, why) == Answer(r, why, {}, {})

Request0(op, u, c, m, g) ==
  [op |-> op, user |-> u, conv |-> c, msg |-> m, with |-> g]

\* A user's cleared_at in every conversation, out of a table of them.
Marks(stamps, u) == [c \in Conversation |-> stamps[c][u]]

\* The same clear, called before and not yet applied.
Racing(k) == {q \in Request : call[q] = k /\ phase[q] \in {"lookup", "clear"}}

Arrive(r, k) ==
  LET reads == k.op \in {"list", "inbox"} IN
  /\ phase[r] = "idle" /\ k.op \in Op
  /\ Cardinality({q \in Request : call[q].user = k.user}) < InFlight
  /\ call' = [call EXCEPT ![r] = k]
  /\ before' = [before EXCEPT ![r] = IF reads THEN Rows ELSE {}]
  /\ held' = [held EXCEPT ![r] = IF k.op \in {"create", "send"} THEN related ELSE {}]
  /\ marks' = [marks EXCEPT ![r] = IF reads THEN {Marks(clearedAt, k.user)} ELSE {}]
  /\ since' = [since EXCEPT ![r] = IF k.op = "clear"
                                  THEN {clock} \cup UNION {since[q] : q \in Racing(k)}
                                  ELSE {}]
  /\ known' = [known EXCEPT ![r] = IF k.op = "clear" THEN clearedAt[k.conv][k.user]
                                  ELSE IF k.op = "read" THEN lastReadAt[k.conv][k.user]
                                  ELSE Null]
  /\ UNCHANGED <<database, related, outside, unsure>>

\* The ids the database is going to generate are picked here, unused so far.
NewConversation(c) ==
  members[c] = {} /\ \A q \in Request : call[q].op = "create" => call[q].conv # c
NewMessage(m) ==
  messages[m] = Null /\ \A q \in Request : call[q].op = "send" => call[q].msg # m

\* The router only lets through a group the caller is part of.
CallCreate(r, u) ==
  \E c \in Conversation, g \in Group :
    /\ NewConversation(c) /\ u \in g
    /\ Arrive(r, Request0("create", u, c, Null, g))
    /\ Goto(r, "gate") /\ UNCHANGED <<at, snap, row, todo, reply>>

CallInbox(r, u) ==
  /\ Arrive(r, Request0("inbox", u, Null, Null, {}))
  /\ Goto(r, "inbox") /\ UNCHANGED <<at, snap, row, todo, reply>>

CallOnConversation(r, u) ==
  \E op \in {"get", "list", "clear"}, c \in Conversation :
    /\ Arrive(r, Request0(op, u, c, Null, {}))
    /\ Goto(r, "lookup") /\ UNCHANGED <<at, snap, row, todo, reply>>

\* The router reads the clock for markRead before the core looks anything up.
CallRead(r, u) ==
  \E c \in Conversation, d \in Date :
    /\ Arrive(r, Request0("read", u, c, Null, {}))
    /\ at' = [at EXCEPT ![r] = d]
    /\ Goto(r, "lookup") /\ UNCHANGED <<snap, row, todo, reply>>

\* A blank body is refused before anything is awaited.
CallSend(r, u) ==
  \E c \in Conversation, m \in Message :
    /\ NewMessage(m)
    /\ Arrive(r, Request0("send", u, c, m, {}))
    /\ \/ Goto(r, "lookup") /\ UNCHANGED <<at, snap, row, todo, reply>>
       \/ Refuse(r, "EmptyMessage")

CallDelete(r, u) ==
  \E c \in Conversation, m \in Message :
    /\ Arrive(r, Request0("delete", u, c, m, {}))
    /\ Goto(r, "lookup") /\ UNCHANGED <<at, snap, row, todo, reply>>

\* The client has its answer; the place is free for another request.
Respond(r) ==
  /\ phase[r] = "done" /\ Goto(r, "idle")
  /\ call' = [call EXCEPT ![r] = NoCall]
  /\ reply' = [reply EXCEPT ![r] = NoReply]
  /\ before' = [before EXCEPT ![r] = {}] /\ held' = [held EXCEPT ![r] = {}]
  /\ marks' = [marks EXCEPT ![r] = {}] /\ since' = [since EXCEPT ![r] = {}]
  /\ known' = [known EXCEPT ![r] = Null]
  /\ UNCHANGED <<database, related, at, snap, row, todo, outside, unsure>>

\* Mutant: a failed await is reported as a refusal.
FailureAsRefusal == "NotAllowed"

\* errorHandler's last resort.
Failure == "Error"

\* Any await may reject: a query fails, its result is lost after the statement
\* took effect, or the process handling the request dies.
Fail(r) ==
  /\ Failures /\ phase[r] \notin {"idle", "done"} /\ Refuse(r, Failure)
  /\ unsure' = unsure \cup {m \in {call[r].msg} : phase[r] = "tombstoned"}
  /\ UNCHANGED <<database, related, call, outside, before, held, marks, since, known>>

-----------------------------------------------------------------------------
(* requireParticipant, and what each operation awaits after it.            *)

\* Mutants: a send trusts the gate's answer of when the conversation was made;
\* a gate that is waited for without a timeout.
SendSkipsGate == [get |-> "resume", list |-> "page", send |-> "insert",
                  delete |-> "find", clear |-> "clear", read |-> "mark"]
GateNeverTimesOut(r) == FALSE

AfterLookup == [get |-> "resume", list |-> "page", send |-> "gate",
                delete |-> "find", clear |-> "clear", read |-> "mark"]

Lookup(r) ==
  LET c == call[r].conv  u == call[r].user  op == call[r].op IN
  /\ phase[r] = "lookup"
  /\ \/ members[c] = {} /\ Refuse(r, "ConversationNotFound")
     \/ members[c] # {} /\ u \notin members[c] /\ Refuse(r, "NotAParticipant")
     \/ /\ u \in members[c] /\ Goto(r, AfterLookup[op])
        \* deleteConversation reads the clock here, before its UPDATE is sent;
        \* listMessages keeps the requester's clearedAt for its SELECT.
        /\ IF op = "clear" THEN \E d \in Date : at' = [at EXCEPT ![r] = d]
                           ELSE UNCHANGED at
        /\ snap' = IF op = "list" THEN [snap EXCEPT ![r][c] = clearedAt[c][u]]
                                  ELSE snap
        /\ UNCHANGED <<row, todo, reply>>
  /\ UNCHANGED <<database, related, call, outside, history>>

\* Who the gate is asked about: the participants, read from the conversation
\* (they never change) or listed by the request that creates one.
Asked(r) == IF call[r].op = "create" THEN call[r].with ELSE members[call[r].conv]

\* The gate says yes only if the host does; it may say no to anything, since an
\* unreachable, slow or malformed answer is a no.
GateAllows(r) ==
  /\ phase[r] = "gate" /\ Asked(r) \in related
  /\ Goto(r, IF call[r].op = "create" THEN "create" ELSE "insert")
  /\ UNCHANGED <<database, related, call, at, snap, row, todo, reply, outside, history>>

GateDenies(r) ==
  /\ phase[r] = "gate" /\ Refuse(r, "NotAllowed")
  /\ UNCHANGED <<database, related, call, outside, history>>

\* One transaction: the conversation and all its participants, or nothing.
Create(r) ==
  /\ phase[r] = "create" /\ Goto(r, "resume")
  /\ members' = [members EXCEPT ![call[r].conv] = call[r].with]
  /\ UNCHANGED <<clock, clearedAt, lastReadAt, messages, related, call, at, snap,
                 row, todo, reply, outside, history>>

Resume(r) ==
  /\ phase[r] = "resume" /\ Answer(r, "ok", {}, {})
  /\ UNCHANGED <<database, related, call, outside, history>>

-----------------------------------------------------------------------------
(* sendMessage.                                                            *)

Insert(r) ==
  LET new == [id |-> call[r].msg, conv |-> call[r].conv, sender |-> call[r].user,
              body |-> "text", createdAt |-> clock, deletedAt |-> Null] IN
  /\ phase[r] = "insert" /\ Goto(r, "inserted")
  /\ messages' = [messages EXCEPT ![call[r].msg] = new]
  /\ row' = [row EXCEPT ![r] = new]
  /\ UNCHANGED <<clock, members, clearedAt, lastReadAt, related, call, at, snap,
                 todo, reply, outside, history>>

\* Mutants: only live messages are published; the id is published for the message;
\* the sender is notified too.
PublishLive(w) == IF Deleted(w) THEN frame ELSE [frame EXCEPT ![w.id] = w]
PublishId(w) == [frame EXCEPT ![w.id] = w.id]
EveryParticipant(w) == members[w.conv]

Publish(w) == [frame EXCEPT ![w.id] = w]
Recipients(w) == members[w.conv] \ {w.sender}

\* messages.create has resolved: publish and notify without waiting, answer.
Sent(r) ==
  LET w == row[r] IN
  /\ phase[r] = "inserted" /\ Answer(r, "ok", {w}, {})
  /\ frame' = Publish(w)
  /\ notified' = [notified EXCEPT ![w.id] = @ \cup Recipients(w)]
  /\ UNCHANGED <<database, related, call, history>>

-----------------------------------------------------------------------------
(* deleteMessage.                                                          *)

\* Mutant: whoever can read a message can delete it.
AnyoneMayTakeBack(w, u) == TRUE

MayTakeBack(w, u) == w.sender = u

FindMessage(r) ==
  LET w == messages[call[r].msg]
      found == w # Null /\ w.conv = call[r].conv IN
  /\ phase[r] = "find"
  /\ \/ ~found /\ Refuse(r, "MessageNotFound")
     \/ /\ found
        /\ \/ ~MayTakeBack(w, call[r].user) /\ Refuse(r, "NotMessageAuthor")
           \/ /\ MayTakeBack(w, call[r].user)
              /\ Deleted(w) /\ Answer(r, "ok", {w}, {})
           \/ /\ MayTakeBack(w, call[r].user)
              /\ ~Deleted(w) /\ Goto(r, "update")
              /\ \E d \in Date : at' = [at EXCEPT ![r] = d]
              /\ UNCHANGED <<snap, row, todo, reply>>
  /\ UNCHANGED <<database, related, call, outside, history>>

\* Mutants: an unguarded UPDATE; an UPDATE that keeps the text.
SelectedAlways(m) == TRUE
MarkOnly(w, d) == [w EXCEPT !.deletedAt = d]

\* WHERE id = $1 AND deleted_at IS NULL
Selected(m) == ~Deleted(messages[m])

Tombstone(w, d) == [w EXCEPT !.body = "", !.deletedAt = d]

\* The send that stored m has yet to publish it.
Unpublished(m) == \E q \in Request : phase[q] = "inserted" /\ call[q].msg = m

\* The UPDATE returns the tombstone it made, or no row when it lost a race.
SoftDelete(r) ==
  LET m == call[r].msg  gone == Tombstone(messages[m], at[r]) IN
  /\ phase[r] = "update"
  /\ \/ /\ Selected(m) /\ Goto(r, "tombstoned")
        /\ messages' = [messages EXCEPT ![m] = gone]
        /\ row' = [row EXCEPT ![r] = gone]
        /\ unsure' = unsure \cup {i \in {m} : Unpublished(i)}
     \/ ~Selected(m) /\ Goto(r, "reselect") /\ UNCHANGED <<messages, row, unsure>>
  /\ UNCHANGED <<clock, members, clearedAt, lastReadAt, related, call, at, snap,
                 todo, reply, outside, before, held, marks, since, known>>

Reselect(r) ==
  /\ phase[r] = "reselect" /\ Goto(r, "tombstoned")
  /\ row' = [row EXCEPT ![r] = messages[call[r].msg]]
  /\ UNCHANGED <<database, related, call, at, snap, todo, reply, outside, history>>

TakenBack(r) ==
  /\ phase[r] = "tombstoned" /\ Answer(r, "ok", {row[r]}, {})
  /\ frame' = Publish(row[r])
  /\ UNCHANGED <<database, related, call, notified, history>>

-----------------------------------------------------------------------------
(* deleteConversation, markRead, and the reads.                            *)

\* Mutants: COALESCE(old, $1); a second call undoes the first.
StampOnce(old, new) == IF old = Null THEN new ELSE old
StampToggles(old, new) == IF old = Null THEN new ELSE Null

\* SET cleared_at = $1, SET last_read_at = $1: the last one applied wins.
Stamp(old, new) == new

Clear(r) ==
  LET u == call[r].user IN
  /\ phase[r] = "clear" /\ Goto(r, "resume")
  /\ clearedAt' = [clearedAt EXCEPT ![call[r].conv][u] = Stamp(@, at[r])]
  /\ marks' = [q \in Request |->
                IF call[q].op \in {"list", "inbox"} /\ call[q].user = u /\ phase[q] # "done"
                THEN marks[q] \cup {Marks(clearedAt', u)} ELSE marks[q]]
  /\ UNCHANGED <<clock, members, lastReadAt, messages, related, call, at, snap,
                 row, todo, reply, outside, before, held, since, known, unsure>>

MarkRead(r) ==
  /\ phase[r] = "mark" /\ Goto(r, "resume")
  /\ lastReadAt' = [lastReadAt EXCEPT ![call[r].conv][call[r].user] = Stamp(@, at[r])]
  /\ UNCHANGED <<clock, members, clearedAt, messages, related, call, at, snap,
                 row, todo, reply, outside, history>>

ListMessages(r) ==
  LET c == call[r].conv IN
  /\ phase[r] = "page" /\ Answer(r, "ok", Visible(c, snap[r][c]), {})
  /\ UNCHANGED <<database, related, call, outside, history>>

FindByParticipant(r) ==
  LET u == call[r].user  mine == {c \in Conversation : u \in members[c]} IN
  /\ phase[r] = "inbox"
  /\ \/ mine = {} /\ Answer(r, "ok", {}, {})
     \/ /\ mine # {} /\ Goto(r, "preview")
        /\ todo' = [todo EXCEPT ![r] = mine]
        /\ snap' = [snap EXCEPT ![r] =
                      [c \in Conversation |-> IF c \in mine THEN clearedAt[c][u] ELSE Null]]
        /\ UNCHANGED <<at, row, reply>>
  /\ UNCHANGED <<database, related, call, outside, history>>

\* Mutant: every conversation is listed.
ListedAlways(after, ws) == TRUE

\* A conversation the user cleared is listed only for what came after.
Listed(after, ws) == after = Null \/ ws # {}

\* The previews are read in parallel, one query each.
Preview(r) ==
  \E c \in todo[r] :
    LET last == Latest(Visible(c, snap[r][c])) IN
    /\ phase[r] = "preview"
    /\ \E ws \in {{w} : w \in last} \cup (IF last = {} THEN {{}} ELSE {}) :
         LET rows == reply[r].rows \cup ws
             convs == IF Listed(snap[r][c], ws) THEN reply[r].convs \cup {c}
                                                 ELSE reply[r].convs IN
         IF todo[r] = {c} THEN Answer(r, "ok", rows, convs)
         ELSE /\ todo' = [todo EXCEPT ![r] = @ \ {c}]
              /\ reply' = [reply EXCEPT ![r].rows = rows, ![r].convs = convs]
              /\ UNCHANGED <<phase, at, snap, row>>
    /\ UNCHANGED <<database, related, call, outside, history>>

-----------------------------------------------------------------------------
Call(r) ==
  \E u \in User :
    \/ CallCreate(r, u) \/ CallInbox(r, u) \/ CallOnConversation(r, u)
    \/ CallRead(r, u) \/ CallSend(r, u) \/ CallDelete(r, u)

\* What the process does about r when nothing goes wrong.
Step(r) ==
  \/ Lookup(r) \/ GateAllows(r) \/ GateDenies(r) \/ Create(r) \/ Resume(r)
  \/ Insert(r) \/ Sent(r)
  \/ FindMessage(r) \/ SoftDelete(r) \/ Reselect(r) \/ TakenBack(r)
  \/ Clear(r) \/ MarkRead(r) \/ ListMessages(r)
  \/ FindByParticipant(r) \/ Preview(r)

Next ==
  \/ Tick
  \/ \E g \in Group : Relate(g) \/ Revoke(g)
  \/ \E r \in Request : Call(r) \/ Step(r) \/ Fail(r) \/ Respond(r)

Spec == Init /\ [][Next]_vars

\* The database answers, and the gate is abandoned after its timeout (5 s in
\* HttpConversationGate): a request that can go on does.
Fairness == \A r \in Request : WF_vars(Step(r))
FairSpec == Spec /\ Fairness

-----------------------------------------------------------------------------
(* Properties.                                                             *)

Calls ==
  {NoCall}
  \cup [op : {"create"}, user : User, conv : Conversation, msg : {Null}, with : Group]
  \cup [op : {"inbox"}, user : User, conv : {Null}, msg : {Null}, with : {{}}]
  \cup [op : {"get", "list", "clear", "read"}, user : User, conv : Conversation,
        msg : {Null}, with : {{}}]
  \cup [op : {"send", "delete"}, user : User, conv : Conversation, msg : Message,
        with : {{}}]
Replies == [outcome : Refusal \cup {"ok", "Error", Null},
            rows : SUBSET Row, convs : SUBSET Conversation]

DatabaseType ==
  /\ clock \in Nat
  /\ members \in [Conversation -> SUBSET User]
  /\ clearedAt \in [Conversation -> [User -> Instant \cup {Null}]]
  /\ lastReadAt \in [Conversation -> [User -> Instant \cup {Null}]]
  /\ messages \in [Message -> Row \cup {Null}]
HandlerType ==
  /\ phase \in [Request -> Phase]
  /\ at \in [Request -> Instant \cup {Null}]
  /\ snap \in [Request -> Cleared]
  /\ row \in [Request -> Row \cup {Null}]
  /\ todo \in [Request -> SUBSET Conversation]
  /\ reply \in [Request -> Replies]
ClientType ==
  /\ related \in SUBSET Group
  /\ call \in [Request -> Calls]
  /\ before \in [Request -> SUBSET Row]
  /\ held \in [Request -> SUBSET Group]
  /\ marks \in [Request -> SUBSET Cleared]
  /\ since \in [Request -> SUBSET Nat]
  /\ known \in [Request -> Instant \cup {Null}]
  /\ unsure \in SUBSET Message
OutsideType ==
  /\ frame \in [Message -> Row \cup {Null}]
  /\ notified \in [Message -> SUBSET User]

\* Every variable has its type.
TypeOK == DatabaseType /\ HandlerType /\ ClientType /\ OutsideType

Asks(r, op) == call[r].op = op
Ok(r) == reply[r].outcome = "ok"

TruthfulWrite(r) ==
  /\ Asks(r, "send") =>
       LET w == messages[call[r].msg] IN
       /\ Ok(r) => w # Null /\ w.conv = call[r].conv /\ w.sender = call[r].user
       /\ reply[r].outcome \in Refusal =>
            w = Null /\ frame[call[r].msg] = Null /\ notified[call[r].msg] = {}
  /\ Asks(r, "create") =>
       /\ Ok(r) => members[call[r].conv] = call[r].with
       /\ reply[r].outcome \in Refusal => members[call[r].conv] = {}

\* sendMessage and createConversation tell the truth: an acknowledged message is
\* stored, in that conversation, by that user, and a refused one never is, nor is
\* it published or notified (an "Error" promises neither).  Likewise for create.
TruthfulWrites == \A r \in Request : TruthfulWrite(r)

RevocationHeld(r) ==
  /\ Asks(r, "send") /\ messages[call[r].msg] # Null
       => members[call[r].conv] \in held[r]
  /\ Asks(r, "create") /\ members[call[r].conv] # {} => call[r].with \in held[r]

\* The gate is asked again on every send: once the host has revoked a group, no
\* request that begins afterwards stores a message in its conversations, however
\* the revocation falls among the awaits; likewise for creating one.
RevocationHolds == \A r \in Request : RevocationHeld(r)

AnswersTombstone(r) ==
  Asks(r, "delete") /\ Ok(r) =>
    LET w == messages[call[r].msg] IN
    w # Null /\ Deleted(w) /\ w.body = "" /\ reply[r].rows = {w}

\* Deleting is idempotent under races: every acknowledged delete of a message
\* answers with the one tombstone in the table, text gone, whoever won.
OneTombstone == \A r \in Request : AnswersTombstone(r)

\* Only its author takes a message back: the check and the UPDATE are two awaits
\* apart, and the row that is emptied is still one the requester sent.
AuthorOnly ==
  [][\A m \in Message :
       messages'[m] # messages[m] /\ messages[m] # Null =>
         \E r \in Request : /\ Asks(r, "delete") /\ call[r].msg = m
                            /\ call[r].user = messages[m].sender
                            /\ call[r].conv = messages[m].conv]_vars

\* A message as it was sent.
Original(w) == [w EXCEPT !.body = "text", !.deletedAt = Null]

\* Nothing leaves the service before it is durable, or reaches the wrong people:
\* a frame is a message as it is or was stored, and only the other participants
\* of a stored message are notified of it.
OutsideFollowsDatabase ==
  \A m \in Message :
    /\ frame[m] # Null =>
         /\ messages[m] # Null
         /\ frame[m] \in {messages[m], Original(messages[m])}
    /\ notified[m] # {} =>
         /\ messages[m] # Null
         /\ notified[m] = members[messages[m].conv] \ {messages[m].sender}

\* What a cleared_at of a hides, as a user understands it.
Hides(a, w) == a # Null /\ w.createdAt <= a
Hidden(u, w) == Hides(clearedAt[w.conv][u], w)

\* A clear covers what was stored when it was called: whatever the clock of every
\* host, cut to milliseconds, had reached when the first of the clears it races was
\* called is hidden once it is acknowledged, although the instant it stores was read
\* an await before the UPDATE and another clear may be applied after it.
ClearHidesHistory ==
  \A r \in Request :
    Asks(r, "clear") /\ Ok(r) =>
      \A w \in Rows :
        /\ w.conv = call[r].conv
        /\ \A t \in since[r], s \in Skew : w.createdAt <= Truncate(t + s)
        => Hidden(call[r].user, w)

\* new is no earlier than old, but for what the clocks of two hosts differ by.
NoEarlier(new, old) == new # Null /\ \E s, t \in Skew : new >= Truncate(old + s - t)

\* clear and markRead keep no maximum, the last UPDATE wins; still neither takes a
\* user further back than the marker that user had when it was called, but for what
\* the hosts' clocks differ by.
MarkersAdvance ==
  [][\A r \in Request :
       LET c == call[r].conv  u == call[r].user IN
       known[r] # Null =>
         /\ Clear(r) => NoEarlier(clearedAt'[c][u], known[r])
         /\ MarkRead(r) => NoEarlier(lastReadAt'[c][u], known[r])]_vars

ShownBy(r, m) ==
  LET c == call[r].conv IN
  /\ \A w \in reply[r].rows : w.conv = c /\ ~Hides(m[c], w)
  /\ \A w \in before[r] :
       w.conv = c /\ ~Hides(m[c], w) =>
         \E v \in reply[r].rows : v.id = w.id /\ (Deleted(w) => v = w)

\* A thread read is complete and current, as of one moment of its two awaits: it
\* shows nothing the reader had cleared by then, everything else stored when it was
\* asked for, and no text deleted before that.
ThreadIsCurrent ==
  \A r \in Request : Asks(r, "list") /\ Ok(r) => \E m \in marks[r] : ShownBy(r, m)

ListedBy(r, m) ==
  LET u == call[r].user IN
  /\ \A c \in reply[r].convs :
       u \in members[c] /\ (m[c] # Null => \E w \in Rows : w.conv = c /\ ~Hides(m[c], w))
  /\ \A w \in reply[r].rows : w.conv \in reply[r].convs /\ ~Hides(m[w.conv], w)
  /\ \A w \in before[r] :
       u \in members[w.conv] /\ ~Hides(m[w.conv], w) => w.conv \in reply[r].convs

\* The list of conversations agrees with the threads as of one moment, although it
\* is read in a query for each: listed are those the user had never cleared and those
\* with something the user had not cleared, none of them is forgotten, and what is
\* previewed is not cleared.
ListAgrees ==
  \A r \in Request : Asks(r, "inbox") /\ Ok(r) => \E m \in marks[r] : ListedBy(r, m)

\* A deletion reaches the open sockets: the last frame published for a deleted
\* message is its tombstone, or the handler that deleted it is about to publish it,
\* however deletes of it race, unless that handler was cut off in between or the
\* message was deleted before its own send had published it.
DeletionReachesBus ==
  \A m \in Message :
    LET w == messages[m] IN
    w # Null /\ Deleted(w) /\ m \notin unsure =>
      \/ frame[m] = w
      \/ \E r \in Request : phase[r] = "tombstoned" /\ call[r].msg = m

\* What a user cleared stays gone: a stored message hidden from a participant is
\* never visible to that participant again.  Two clears that cross break it.
ClearedStaysGone ==
  [][\A w \in Rows, u \in User :
       Hidden(u, w) => clearedAt'[w.conv][u] # Null
                         /\ w.createdAt <= clearedAt'[w.conv][u]]_vars

\* Every request is answered.
Answered == \A r \in Request : (phase[r] # "idle") ~> (phase[r] = "done")

-----------------------------------------------------------------------------
(* The inductive invariant behind the safety properties: where a request   *)
(* waits says what it was asked, what it has read and what it has written. *)

OnPath(r) ==
  LET op == call[r].op  p == phase[r] IN
  /\ p = "idle" => call[r] = NoCall
  /\ p # "idle" => op \in AllOps
  /\ p = "lookup" => op \in {"get", "list", "send", "delete", "clear", "read"}
  /\ p = "gate" => op \in {"create", "send"}
  /\ p = "create" => op = "create"
  /\ p \in {"insert", "inserted"} => op = "send"
  /\ p \in {"find", "update", "reselect", "tombstoned"} => op = "delete"
  /\ p = "clear" => op = "clear"
  /\ p = "mark" => op = "read"
  /\ p = "resume" => op \in {"create", "get", "clear", "read"}
  /\ p = "page" => op = "list"
  /\ p \in {"inbox", "preview"} => op = "inbox"
  /\ p # "done" => reply[r].outcome = Null
  /\ p # "idle" /\ op \in {"create", "send"} => related \subseteq held[r]

CreateOnPath(r) ==
  LET k == call[r] IN
  Asks(r, "create") =>
    /\ phase[r] \in {"gate", "create"} => members[k.conv] = {}
    /\ phase[r] = "create" => k.with \in held[r]
    /\ phase[r] = "resume" => members[k.conv] = k.with

SendOnPath(r) ==
  LET k == call[r]  w == messages[k.msg] IN
  Asks(r, "send") =>
    /\ phase[r] \in {"lookup", "gate", "insert"} => w = Null
    /\ phase[r] \in {"gate", "insert"} => k.user \in members[k.conv]
    /\ phase[r] = "insert" => members[k.conv] \in held[r]
    /\ phase[r] = "inserted" => w # Null /\ row[r] = Original(w)
    /\ w # Null => w.conv = k.conv /\ w.sender = k.user

DeleteOnPath(r) ==
  LET k == call[r]  w == messages[k.msg] IN
  Asks(r, "delete") =>
    /\ phase[r] \in {"update", "reselect", "tombstoned"} =>
         w # Null /\ w.conv = k.conv /\ w.sender = k.user
    /\ phase[r] = "update" => at[r] # Null
    /\ phase[r] \in {"reselect", "tombstoned"} => Deleted(w)
    /\ phase[r] = "tombstoned" => row[r] = w

\* The ids requests are about to create are theirs alone.
OwnIds ==
  \A r, q \in Request :
    r # q => /\ Asks(r, "send") /\ Asks(q, "send") => call[r].msg # call[q].msg
             /\ Asks(r, "create") /\ Asks(q, "create") => call[r].conv # call[q].conv

\* A row is filed under its id, sent by a participant, and blank iff deleted.
TableOK ==
  \A m \in Message :
    LET w == messages[m] IN
    w # Null => w.id = m /\ w.sender \in members[w.conv] /\ (Deleted(w) <=> w.body = "")

Inv ==
  /\ TypeOK /\ OwnIds /\ TableOK /\ OutsideFollowsDatabase
  /\ TruthfulWrites /\ RevocationHolds /\ OneTombstone
  /\ \A r \in Request : OnPath(r) /\ CreateOnPath(r) /\ SendOnPath(r) /\ DeleteOnPath(r)

-----------------------------------------------------------------------------
\* The messages and the participants implement the ledger.
Ledger == INSTANCE MessageLedger
LedgerSpec == Ledger!Spec
=============================================================================
