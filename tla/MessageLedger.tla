---------------------------- MODULE MessageLedger ----------------------------
(***************************************************************************)
(* What the service promises about a message, whatever the interleaving:   *)
(* it is posted once, by a participant of its conversation; it may be      *)
(* taken back once, which empties its text and stamps it; nothing else     *)
(* ever happens to it (src/domain/message.ts, src/ports/message-store.ts). *)
(***************************************************************************)
EXTENDS Integers

CONSTANTS User, Conversation, Message, Null

VARIABLES
  members,  \* conversation -> its participants, {} before it is created
  messages  \* message -> its entry, Null before it is sent

ledger == <<members, messages>>

Entry == [id : Message, conv : Conversation, sender : User,
          body : {"text", ""}, createdAt : Int, deletedAt : Int \cup {Null}]

Live(e) == e # Null /\ e.deletedAt = Null

Init ==
  /\ members \in [Conversation -> SUBSET User]
  /\ messages = [m \in Message |-> Null]

\* The steps constrain the new value, so that both a prover and a model checker
\* can judge a step of the service against them.

\* The participants of a conversation are settled when it is created.
Open(c) ==
  /\ members[c] = {} /\ members'[c] \in (SUBSET User) \ {{}}
  /\ members' = [members EXCEPT ![c] = members'[c]]
  /\ UNCHANGED messages

Post(m) ==
  /\ messages[m] = Null
  /\ messages'[m] \in Entry /\ messages'[m].id = m
  /\ messages'[m].body = "text" /\ messages'[m].deletedAt = Null
  /\ messages'[m].sender \in members[messages'[m].conv]
  /\ messages' = [messages EXCEPT ![m] = messages'[m]]
  /\ UNCHANGED members

\* Only the text and the stamp change: the entry keeps its place.
TakeBack(m) ==
  /\ Live(messages[m])
  /\ messages'[m] \in Entry /\ messages'[m].deletedAt # Null
  /\ messages' = [messages EXCEPT ![m].body = "",
                                 ![m].deletedAt = messages'[m].deletedAt]
  /\ UNCHANGED members

Next ==
  \/ \E c \in Conversation : Open(c)
  \/ \E m \in Message : Post(m) \/ TakeBack(m)

Spec == Init /\ [][Next]_ledger
=============================================================================
