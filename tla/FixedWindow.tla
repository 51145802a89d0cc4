----------------------------- MODULE FixedWindow -----------------------------
(***************************************************************************)
(* What a fixed-window limiter promises: a source's first attempt opens a  *)
(* window, up to Limit attempts are let in while it is open, the rest are  *)
(* refused, and the window closes by itself after Window milliseconds.     *)
(***************************************************************************)
EXTENDS Integers

CONSTANTS Key, Limit, Window, Null

VARIABLES
  now,     \* milliseconds
  open,    \* source -> its open window, Null if it has none
  refused  \* source -> when it was last refused

Init ==
  /\ now = 0
  /\ open = [k \in Key |-> Null]
  /\ refused = [k \in Key |-> Null]

\* Windows that have been open for Window close as time passes.
Advance ==
  /\ now' = now + 1
  /\ open' = [k \in Key |->
               IF open[k] # Null /\ now' - open[k].windowStart >= Window THEN Null
               ELSE open[k]]
  /\ UNCHANGED refused

Admit(k) ==
  /\ \/ /\ open[k] = Null
        /\ open' = [open EXCEPT ![k] = [count |-> 1, windowStart |-> now]]
     \/ /\ open[k] # Null /\ open[k].count < Limit
        /\ open' = [open EXCEPT ![k].count = @ + 1]
  /\ UNCHANGED <<now, refused>>

Refuse(k) ==
  /\ open[k] # Null /\ open[k].count = Limit
  /\ refused' = [refused EXCEPT ![k] = now]
  /\ UNCHANGED <<now, open>>

Next == Advance \/ \E k \in Key : Admit(k) \/ Refuse(k)

Spec == Init /\ [][Next]_<<now, open, refused>>
=============================================================================
