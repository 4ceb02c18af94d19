------------------------------- MODULE Channel -------------------------------
(***************************************************************************)
(* What the owner of a MUSCLE Thread relies on: whatever is sent to the    *)
(* thread before it is told to quit is given to it, once and in the order  *)
(* of sending, and nothing that is sent later.                             *)
(***************************************************************************)
EXTENDS Integers, Sequences

CONSTANT Open   \* the value of limit while the thread has not been told to quit

VARIABLES
  sent,        \* how many messages have been sent; the n-th one is n
  delivered,   \* the messages the thread has been given
  limit        \* how many had been sent when it was told to quit

vars == <<sent, delivered, limit>>

Init == sent = 0 /\ delivered = <<>> /\ limit = Open

Send == sent' = sent + 1 /\ UNCHANGED <<delivered, limit>>

Deliver ==
  LET next == Len(delivered) + 1 IN
  /\ next <= (IF limit = Open THEN sent ELSE limit)
  /\ delivered' = Append(delivered, next)
  /\ UNCHANGED <<sent, limit>>

Close == limit = Open /\ limit' = sent /\ UNCHANGED <<sent, delivered>>

Next == Send \/ Deliver \/ Close

Spec == Init /\ [][Next]_vars
=============================================================================
