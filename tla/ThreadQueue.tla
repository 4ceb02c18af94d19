----------------------------- MODULE ThreadQueue -----------------------------
(***************************************************************************)
(* The mailbox of a MUSCLE Thread (muscle/system/Thread.cpp) as BeShare's  *)
(* MessageTransceiverThreads use it.  Any thread appends to the queue      *)
(* under _queueLock and, only when the queue was empty, sends a wakeup     *)
(* byte AFTER it has released that lock.  The internal thread sleeps until *)
(* a byte arrives, eats the bytes and then pops until the queue is empty.  *)
(* The owner starts the thread once and ends it with a NULL message.       *)
(*                                                                         *)
(* The reply direction (SendMessageToOwner, BThread::SignalOwner) is the   *)
(* same algorithm with a MUSCLE_THREAD_SIGNAL BMessage for the byte; one   *)
(* BMessage is eaten per wakeup there, up to 256 bytes here: RecvSize.     *)
(***************************************************************************)
EXTENDS Integers, Sequences, FiniteSets

CONSTANTS Senders,    \* threads that call SendMessageToInternalThread()
          RecvSize,   \* signal bytes eaten by one wakeup
          NULL,       \* the NULL MessageRef that asks the thread to quit
          MaxSends    \* bound on the messages sent, for TLC

ASSUME RecvSizeAssumption == RecvSize \in Nat \ {0}
ASSUME MaxSendsAssumption == MaxSends \in Nat
ASSUME NullAssumption == NULL \notin Nat

VARIABLES
  queue,      \* tsd._messages
  bytes,      \* wakeup bytes in the socket pair
  sockets,    \* "open" iff _messageSocketsAllocated
  spc,        \* each sender: "idle", or "signal" between unlock and send()
  opc,        \* the owner's progress through Start/Shutdown
  ipc,        \* the internal thread: "none", "waiting", "popping", "exited"
  sent,       \* number of messages sent so far; message n is the n-th one
  handled     \* messages given to MessageReceivedFromOwner(), in order

vars == <<queue, bytes, sockets, spc, opc, ipc, sent, handled>>

OwnerStates == {"new", "allocated", "spawned", "needsSignal", "running",
                "quitSignal", "joining", "closed"}

Init ==
  /\ queue = <<>>
  /\ bytes = 0
  /\ sockets = "none"
  /\ spc = [s \in Senders |-> "idle"]
  /\ opc = "new"
  /\ ipc = "none"
  /\ sent = 0
  /\ handled = <<>>

-----------------------------------------------------------------------------
\* SendMessageAux() up to the unlock: append, and remember whether the queue
\* was empty, which is the only case in which the receiver is signalled.
SendMessageAux(s) ==
  /\ spc[s] = "idle"
  /\ sent < MaxSends
  /\ sent' = sent + 1
  /\ queue' = Append(queue, sent')
  /\ spc' = [spc EXCEPT ![s] = IF Len(queue') = 1 THEN "signal" ELSE "idle"]
  /\ UNCHANGED <<bytes, sockets, opc, ipc, handled>>

\* SignalAux(): one byte, if there is a socket to send it on.
SignalAux == bytes' = IF sockets = "open" THEN bytes + 1 ELSE bytes

\* The rest of SendMessageAux(), under _signalLock only.
SignalInternalThread(s) ==
  /\ spc[s] = "signal"
  /\ SignalAux
  /\ spc' = [spc EXCEPT ![s] = "idle"]
  /\ UNCHANGED <<queue, sockets, opc, ipc, sent, handled>>

-----------------------------------------------------------------------------
\* EnsureServerAllocated(): the socket pair exists before the thread is started.
EnsureServerAllocated ==
  /\ opc = "new"
  /\ opc' = "allocated"
  /\ sockets' = "open"
  /\ UNCHANGED <<queue, bytes, spc, ipc, sent, handled>>

\* Variant: a start that forgets the messages queued before it.
StartWithoutInitialSignal ==
  /\ opc = "allocated"
  /\ opc' = "spawned"
  /\ UNCHANGED <<queue, bytes, sockets, spc, ipc, sent, handled>>

\* StartInternalThread(): read the queue length (no lock), then spawn ...
StartInternalThread ==
  /\ opc = "allocated"
  /\ opc' = IF queue # <<>> THEN "needsSignal" ELSE "spawned"
  /\ UNCHANGED <<queue, bytes, sockets, spc, ipc, sent, handled>>

\* ... the spawned thread enters the server's event loop, waiting for a byte ...
StartInternalThreadAux ==
  /\ opc \in {"spawned", "needsSignal"}
  /\ ipc = "none"
  /\ ipc' = "waiting"
  /\ opc' = IF opc = "spawned" THEN "running" ELSE opc
  /\ UNCHANGED <<queue, bytes, sockets, spc, sent, handled>>

\* ... and messages that were queued before the start are signalled now.
InitialSignal ==
  /\ opc = "needsSignal"
  /\ ipc # "none"
  /\ opc' = "running"
  /\ SignalAux
  /\ UNCHANGED <<queue, sockets, spc, ipc, sent, handled>>

\* Variant: the NULL message is queued but nobody is woken for it.
ShutdownWithoutSignal ==
  /\ opc = "running"
  /\ queue' = Append(queue, NULL)
  /\ opc' = "joining"
  /\ UNCHANGED <<bytes, sockets, spc, ipc, sent, handled>>

\* ShutdownInternalThread(): send the NULL message ...
ShutdownInternalThread ==
  /\ opc = "running"
  /\ queue' = Append(queue, NULL)
  /\ opc' = IF Len(queue') = 1 THEN "quitSignal" ELSE "joining"
  /\ UNCHANGED <<bytes, sockets, spc, ipc, sent, handled>>

QuitSignal ==
  /\ opc = "quitSignal"
  /\ opc' = "joining"
  /\ SignalAux
  /\ UNCHANGED <<queue, sockets, spc, ipc, sent, handled>>

\* ... and WaitForInternalThreadToExit(), which closes the sockets.
WaitForInternalThreadToExit ==
  /\ opc = "joining"
  /\ ipc = "exited"
  /\ opc' = "closed"
  /\ sockets' = "none"
  /\ bytes' = 0
  /\ UNCHANGED <<queue, spc, ipc, sent, handled>>

-----------------------------------------------------------------------------
\* The wakeup: SignalMessageIOGateway reads what it can of the signal bytes.
Wakeup ==
  /\ ipc = "waiting"
  /\ bytes > 0
  /\ bytes' = IF bytes > RecvSize THEN bytes - RecvSize ELSE 0
  /\ ipc' = "popping"
  /\ UNCHANGED <<queue, sockets, spc, opc, sent, handled>>

\* Variant: one message per wakeup byte instead of popping until empty.
PopOnePerWakeup ==
  /\ ipc = "popping"
  /\ queue # <<>>
  /\ queue' = Tail(queue)
  /\ IF Head(queue) = NULL
     THEN ipc' = "exited" /\ UNCHANGED handled
     ELSE handled' = Append(handled, Head(queue)) /\ ipc' = "waiting"
  /\ UNCHANGED <<bytes, sockets, spc, opc, sent>>

\* Variant: RemoveTail() for RemoveHead().
PopTail ==
  /\ ipc = "popping"
  /\ queue # <<>>
  /\ LET last == queue[Len(queue)] IN
     /\ queue' = SubSeq(queue, 1, Len(queue) - 1)
     /\ IF last = NULL
        THEN ipc' = "exited" /\ UNCHANGED handled
        ELSE handled' = Append(handled, last) /\ UNCHANGED ipc
  /\ UNCHANGED <<bytes, sockets, spc, opc, sent>>

\* One turn of the supervisor's loop over WaitForNextMessageFromOwner(ref, 0).
PopMessage ==
  /\ ipc = "popping"
  /\ queue # <<>>
  /\ queue' = Tail(queue)
  /\ IF Head(queue) = NULL
     THEN ipc' = "exited" /\ UNCHANGED handled
     ELSE handled' = Append(handled, Head(queue)) /\ UNCHANGED ipc
  /\ UNCHANGED <<bytes, sockets, spc, opc, sent>>

\* The loop ends when the queue is seen empty; back to the event loop.
QueueEmpty ==
  /\ ipc = "popping"
  /\ queue = <<>>
  /\ ipc' = "waiting"
  /\ UNCHANGED <<queue, bytes, sockets, spc, opc, sent, handled>>

Start == EnsureServerAllocated \/ StartInternalThread
           \/ StartInternalThreadAux \/ InitialSignal
Shutdown == ShutdownInternalThread \/ QuitSignal \/ WaitForInternalThreadToExit
Receive == Wakeup \/ PopMessage \/ QueueEmpty

Next ==
  \/ \E s \in Senders : SendMessageAux(s) \/ SignalInternalThread(s)
  \/ Start
  \/ Shutdown
  \/ Receive

\* The scheduler runs every thread that is not blocked: the receiver, a sender
\* that has decided to signal, and an owner inside Start or Shutdown.  Nobody
\* is obliged to send, and the owner is not obliged to shut the thread down.
Fairness ==
  /\ WF_vars(Receive)
  /\ WF_vars(Start)
  /\ WF_vars(QuitSignal \/ WaitForInternalThreadToExit)
  /\ \A s \in Senders : WF_vars(SignalInternalThread(s))

Spec == Init /\ [][Next]_vars /\ Fairness

-----------------------------------------------------------------------------
\* The queue, the socket, the three kinds of threads and the history keep their types.
TypeOK ==
  /\ queue \in Seq(Nat \cup {NULL})
  /\ bytes \in Nat
  /\ sockets \in {"none", "open"}
  /\ spc \in [Senders -> {"idle", "signal"}]
  /\ opc \in OwnerStates
  /\ ipc \in {"none", "waiting", "popping", "exited"}
  /\ sent \in Nat
  /\ handled \in Seq(Nat)

\* The internal thread never sleeps on a queue that has something in it unless
\* a wakeup byte is in the socket or some thread is about to send one: signalling
\* only on the empty-to-nonempty transition, outside _queueLock, loses nothing.
NoLostWakeup ==
  (ipc = "waiting" /\ queue # <<>>) =>
     \/ bytes > 0
     \/ \E s \in Senders : spc[s] = "signal"
     \/ opc \in {"needsSignal", "quitSignal"}

\* How many messages were sent before the NULL message, once that has been sent.
Limit ==
  IF ipc = "exited" THEN Len(handled)
  ELSE IF \E i \in DOMAIN queue : queue[i] = NULL
  THEN Len(handled) + (CHOOSE i \in DOMAIN queue : queue[i] = NULL) - 1
  ELSE NULL

\* The mailbox is a channel: across any interleaving of the senders, the wakeups and the
\* shutdown, messages reach MessageReceivedFromOwner() in the order in which they were
\* appended, each once, all that were sent before the NULL message and none after it.
Mailbox == INSTANCE Channel WITH delivered <- handled, limit <- Limit, Open <- NULL

IsAChannel == Mailbox!Spec

\* A message sent to a started thread is handled, unless the owner has asked the
\* thread to quit, even when no further message is ever sent.
EveryMessageHandled ==
  \A n \in 1..MaxSends :
     (sent >= n) ~> (Len(handled) >= n \/ opc \in {"quitSignal", "joining", "closed"})

\* ShutdownInternalThread() returns: the join cannot wait for ever.
ShutdownReturns == (opc \in {"quitSignal", "joining"}) ~> (opc = "closed")
=============================================================================
