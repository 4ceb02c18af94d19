------------------------- MODULE ThreadQueue_proofs -------------------------
(***************************************************************************)
(* No wakeup is lost in a MUSCLE Thread's mailbox, for any set of senders, *)
(* any number of messages and any number of bytes eaten per wakeup.        *)
(***************************************************************************)
EXTENDS ThreadQueue, TLAPS

\* A wakeup is on its way to the internal thread: as a byte in the socket, or
\* as a thread that has appended to the empty queue and not yet sent its byte.
WakeupPending ==
  \/ bytes > 0
  \/ \E s \in Senders : spc[s] = "signal"
  \/ opc \in {"needsSignal", "quitSignal"}

\* The sockets exist while the internal thread can sleep on them.
SocketsOpen ==
  /\ opc \notin {"new", "closed"} => sockets = "open"
  /\ opc \in {"new", "allocated", "spawned"} => ipc = "none"
  /\ opc = "closed" => ipc = "exited"

\* NoLostWakeup, extended back to the window between the owner's look at the
\* queue and the first instruction of the thread it spawns.
NoneLost ==
  ((ipc = "waiting" \/ opc = "spawned") /\ queue # <<>>) => WakeupPending

IInv == TypeOK /\ SocketsOpen /\ NoneLost

LEMMA InitIInv == Init => IInv
BY DEF Init, IInv, TypeOK, SocketsOpen, NoneLost, OwnerStates

LEMMA NextTypeOK == TypeOK /\ [Next]_vars => TypeOK'
<1> SUFFICES ASSUME TypeOK, [Next]_vars PROVE TypeOK'
  OBVIOUS
<1> USE DEF TypeOK, OwnerStates
<1>1. CASE \E s \in Senders : SendMessageAux(s)
  BY <1>1 DEF SendMessageAux
<1>2. CASE \E s \in Senders : SignalInternalThread(s)
  BY <1>2 DEF SignalInternalThread, SignalAux
<1>3. CASE Start
  BY <1>3 DEF Start, EnsureServerAllocated, StartInternalThread,
              StartInternalThreadAux, InitialSignal, SignalAux
<1>4. CASE Shutdown
  <2>1. CASE ShutdownInternalThread
    <3>1. NULL \in Nat \cup {NULL}
      OBVIOUS
    <3>2. queue' \in Seq(Nat \cup {NULL})
      BY <2>1, <3>1 DEF ShutdownInternalThread
    <3> QED
      BY <2>1, <3>2 DEF ShutdownInternalThread
  <2>2. CASE QuitSignal \/ WaitForInternalThreadToExit
    BY <2>2 DEF QuitSignal, WaitForInternalThreadToExit, SignalAux
  <2> QED
    BY <1>4, <2>1, <2>2 DEF Shutdown
<1>5. CASE Wakeup
  BY <1>5, RecvSizeAssumption DEF Wakeup
<1>6. CASE PopMessage
  <2>1. Head(queue) \in Nat \cup {NULL} /\ Tail(queue) \in Seq(Nat \cup {NULL})
    BY <1>6 DEF PopMessage
  <2>2. CASE Head(queue) = NULL
    BY <1>6, <2>1, <2>2 DEF PopMessage
  <2>3. CASE Head(queue) \in Nat
    <3>1. handled' = Append(handled, Head(queue)) /\ ipc' = ipc
      BY <1>6, <2>3, NullAssumption DEF PopMessage
    <3>2. handled' \in Seq(Nat)
      BY <2>3, <3>1
    <3>3. queue' = Tail(queue) /\ UNCHANGED <<bytes, sockets, spc, opc, sent>>
      BY <1>6 DEF PopMessage
    <3> QED
      BY <2>1, <3>1, <3>2, <3>3
  <2> QED
    BY <2>1, <2>2, <2>3
<1>7. CASE QueueEmpty
  BY <1>7 DEF QueueEmpty
<1>8. CASE UNCHANGED vars
  BY <1>8 DEF vars
<1> QED
  BY <1>1, <1>2, <1>3, <1>4, <1>5, <1>6, <1>7, <1>8 DEF Next, Receive

LEMMA NextIInv == IInv /\ [Next]_vars => IInv'
<1> SUFFICES ASSUME IInv, [Next]_vars PROVE SocketsOpen' /\ NoneLost'
  BY NextTypeOK DEF IInv
<1> USE DEF IInv, TypeOK, OwnerStates, SocketsOpen, NoneLost, WakeupPending
<1>1. ASSUME NEW s \in Senders, SendMessageAux(s) PROVE SocketsOpen' /\ NoneLost'
  <2>1. queue # <<>> => WakeupPending' \/ ~WakeupPending
    BY <1>1 DEF SendMessageAux
  <2>2. queue = <<>> => spc'[s] = "signal"
    BY <1>1 DEF SendMessageAux
  <2> QED
    BY <1>1, <2>1, <2>2 DEF SendMessageAux
<1>2. ASSUME NEW s \in Senders, SignalInternalThread(s) PROVE SocketsOpen' /\ NoneLost'
  BY <1>2 DEF SignalInternalThread, SignalAux
<1>3. CASE EnsureServerAllocated
  BY <1>3 DEF EnsureServerAllocated
<1>4. CASE StartInternalThread
  BY <1>4 DEF StartInternalThread
<1>5. CASE StartInternalThreadAux
  BY <1>5 DEF StartInternalThreadAux
<1>6. CASE InitialSignal
  BY <1>6 DEF InitialSignal, SignalAux
<1>7. CASE ShutdownInternalThread
  BY <1>7 DEF ShutdownInternalThread
<1>8. CASE QuitSignal
  BY <1>8 DEF QuitSignal, SignalAux
<1>9. CASE WaitForInternalThreadToExit
  BY <1>9 DEF WaitForInternalThreadToExit
<1>10. CASE Wakeup
  BY <1>10 DEF Wakeup
<1>11. CASE PopMessage
  BY <1>11 DEF PopMessage
<1>12. CASE QueueEmpty
  BY <1>12 DEF QueueEmpty
<1>13. CASE UNCHANGED vars
  BY <1>13 DEF vars
<1> QED
  BY <1>1, <1>2, <1>3, <1>4, <1>5, <1>6, <1>7, <1>8, <1>9, <1>10, <1>11, <1>12,
     <1>13 DEF Next, Start, Shutdown, Receive

\* The internal thread of a MUSCLE Thread never sleeps on a non-empty queue
\* without a wakeup on its way (Thread::SendMessageAux, WaitForNextMessageAux).
THEOREM NoLostWakeupHolds == Spec => []NoLostWakeup
<1>1. IInv => NoLostWakeup
  BY DEF IInv, NoneLost, WakeupPending, NoLostWakeup
<1> QED
  BY InitIInv, NextIInv, <1>1, PTL DEF Spec

-----------------------------------------------------------------------------
(* The mailbox is a channel *)

\* The thread has been told to quit: a NULL message was appended.
Quitting == opc \in {"quitSignal", "joining", "closed"}

\* The queue continues, without a gap, what has been handled ...
Continues(k) == \A i \in 1..k : queue[i] = Len(handled) + i

\* ... up to the NULL message at k, which is the only one.
NullAt(k) ==
  /\ k \in 1..Len(queue)
  /\ queue[k] = NULL
  /\ Continues(k - 1)
  /\ \A i \in (k + 1)..Len(queue) : queue[i] \in Nat

\* Before the shutdown nothing is missing; afterwards nothing in front of the NULL
\* message is, until the thread has taken that and is gone.
ChannelInv ==
  /\ TypeOK
  /\ ~Quitting => /\ ipc # "exited"
                  /\ Continues(Len(queue))
                  /\ sent = Len(handled) + Len(queue)
  /\ (Quitting /\ ipc # "exited") => \E k \in Nat : NullAt(k)

\* The three cases of the refinement mapping.
LEMMA LimitOpen == ChannelInv /\ ~Quitting => Limit = NULL
<1> SUFFICES ASSUME ChannelInv, ~Quitting PROVE Limit = NULL
  OBVIOUS
<1>1. \A i \in DOMAIN queue : queue[i] # NULL
  <2> SUFFICES ASSUME NEW i \in 1..Len(queue) PROVE queue[i] # NULL
    BY DEF ChannelInv, TypeOK
  <2>1. queue[i] = Len(handled) + i /\ Len(handled) \in Nat /\ i \in Nat
    BY DEF ChannelInv, Continues, TypeOK
  <2> QED
    BY <2>1, NullAssumption
<1> QED
  BY <1>1 DEF Limit, ChannelInv

LEMMA LimitClosing ==
  \A k \in Nat : TypeOK /\ ipc # "exited" /\ NullAt(k) => Limit = Len(handled) + k - 1
<1> SUFFICES ASSUME TypeOK, ipc # "exited", NEW k \in Nat, NullAt(k)
             PROVE  Limit = Len(handled) + k - 1
  OBVIOUS
<1>1. \A i \in DOMAIN queue : queue[i] = NULL <=> i = k
  <2> SUFFICES ASSUME NEW i \in 1..Len(queue), i # k PROVE queue[i] # NULL
    BY DEF NullAt, TypeOK
  <2>1. CASE i < k
    BY <2>1, NullAssumption DEF NullAt, Continues, TypeOK
  <2>2. CASE i > k
    BY <2>2, NullAssumption DEF NullAt, TypeOK
  <2> QED
    BY <2>1, <2>2 DEF NullAt, TypeOK
<1>2. k \in DOMAIN queue
  BY DEF NullAt, TypeOK
<1>3. (CHOOSE i \in DOMAIN queue : queue[i] = NULL) = k
  BY <1>1, <1>2
<1> QED
  BY <1>1, <1>2, <1>3 DEF Limit

LEMMA LimitExited == ipc = "exited" => Limit = Len(handled)
BY DEF Limit

\* The same of the next state.
LEMMA LimitNext ==
  /\ ChannelInv' /\ ~Quitting' => (Limit = NULL)'
  /\ (\A k \in Nat : TypeOK /\ ipc # "exited" /\ NullAt(k) => Limit = Len(handled) + k - 1)'
  /\ (ipc = "exited" => Limit = Len(handled))'
BY LimitOpen, LimitClosing, LimitExited, PTL

LEMMA InitChannel == Init => ChannelInv /\ Mailbox!Init
<1> SUFFICES ASSUME Init PROVE ChannelInv /\ Mailbox!Init
  OBVIOUS
<1>1. TypeOK
  BY InitIInv DEF IInv
<1>2. ChannelInv /\ ~Quitting
  BY <1>1 DEF Init, ChannelInv, Quitting, Continues
<1> QED
  BY <1>2, LimitOpen DEF Init, Mailbox!Init

\* A step that leaves the queue and the history alone, and does not begin or end
\* the shutdown, is a step the channel does not see.
LEMMA HiddenStep ==
  ASSUME ChannelInv, TypeOK', UNCHANGED <<queue, handled, sent>>, Quitting' = Quitting,
         (ipc = "exited") = (ipc' = "exited")
  PROVE  ChannelInv' /\ UNCHANGED Mailbox!vars
<1>1. ChannelInv'
  BY DEF ChannelInv, Continues, NullAt
<1>2. Limit' = Limit
  BY DEF Limit
<1> QED
  BY <1>1, <1>2 DEF Mailbox!vars

\* A message behind the NULL message changes nothing for the channel.
LEMMA SendStep ==
  ASSUME ChannelInv, TypeOK', NEW s \in Senders, SendMessageAux(s)
  PROVE  ChannelInv' /\ Mailbox!Send
<1>0. PICK n \in Nat : n = Len(queue)
  BY DEF ChannelInv, TypeOK
<1>1. /\ queue \in Seq(Nat \cup {NULL}) /\ n = Len(queue) /\ sent \in Nat
      /\ sent' = sent + 1 /\ queue' = Append(queue, sent + 1) /\ handled' = handled
      /\ opc' = opc /\ ipc' = ipc
  BY <1>0 DEF SendMessageAux, ChannelInv, TypeOK
<1>2. /\ Len(queue') = n + 1 /\ queue'[n + 1] = sent + 1
      /\ \A i \in 1..n : queue'[i] = queue[i]
  BY <1>1
<1>3. Quitting' = Quitting
  BY <1>1 DEF Quitting
<1>4. CASE ~Quitting
  <2>0. /\ Len(handled) \in Nat /\ sent = Len(handled) + n /\ ipc # "exited"
        /\ \A i \in 1..n : queue[i] = Len(handled) + i
    BY <1>1, <1>4 DEF ChannelInv, Continues, TypeOK
  <2>1. Continues(n + 1)'
    <3> SUFFICES ASSUME NEW i \in 1..(n + 1) PROVE queue'[i] = Len(handled) + i
      BY <1>1 DEF Continues
    <3>1. CASE i \in 1..n
      BY <1>2, <2>0, <3>1
    <3>2. CASE i = n + 1
      BY <1>0, <1>2, <2>0, <3>2
    <3> QED
      BY <1>0, <3>1, <3>2
  <2>2. ChannelInv'
    BY <1>1, <1>2, <1>3, <1>4, <2>0, <2>1 DEF ChannelInv
  <2> QED
    BY <1>1, <1>3, <1>4, <2>2, LimitOpen, LimitNext DEF Mailbox!Send
<1>5. CASE Quitting /\ ipc # "exited"
  <2>1. PICK k \in Nat : NullAt(k)
    BY <1>5 DEF ChannelInv
  <2>2. NullAt(k)'
    <3>1. /\ k \in 1..n /\ queue[k] = NULL
          /\ \A i \in 1..(k - 1) : queue[i] = Len(handled) + i
          /\ \A i \in (k + 1)..n : queue[i] \in Nat
      BY <1>1, <2>1 DEF NullAt, Continues
    <3>2. \A i \in 1..(k - 1) : queue'[i] = Len(handled') + i
      BY <1>0, <1>1, <1>2, <3>1
    <3>3. \A i \in (k + 1)..(n + 1) : queue'[i] \in Nat
      BY <1>0, <1>1, <1>2, <3>1
    <3> QED
      BY <1>0, <1>2, <3>1, <3>2, <3>3 DEF NullAt, Continues
  <2>3. ChannelInv'
    BY <1>1, <1>3, <1>5, <2>2 DEF ChannelInv
  <2>4. Limit = Len(handled) + k - 1 /\ Limit' = Len(handled) + k - 1
    BY <1>1, <1>5, <2>1, <2>2, LimitClosing, LimitNext DEF ChannelInv
  <2> QED
    BY <1>1, <2>3, <2>4 DEF Mailbox!Send
<1>6. CASE Quitting /\ ipc = "exited"
  <2>1. ChannelInv'
    BY <1>1, <1>3, <1>6 DEF ChannelInv
  <2>2. Limit' = Limit
    BY <1>1, <1>6 DEF Limit
  <2> QED
    BY <1>1, <2>1, <2>2 DEF Mailbox!Send
<1> QED
  BY <1>4, <1>5, <1>6

\* The NULL message closes the channel.
LEMMA ShutdownStep ==
  ASSUME ChannelInv, TypeOK', ShutdownInternalThread
  PROVE  ChannelInv' /\ Mailbox!Close
<1>0. PICK n \in Nat : n = Len(queue)
  BY DEF ChannelInv, TypeOK
<1>1. /\ queue \in Seq(Nat \cup {NULL}) /\ n = Len(queue) /\ Len(handled) \in Nat
      /\ queue' = Append(queue, NULL) /\ UNCHANGED <<handled, sent, ipc>>
      /\ ~Quitting /\ Quitting'
  BY <1>0 DEF ShutdownInternalThread, ChannelInv, TypeOK, Quitting
<1>2. /\ Len(queue') = n + 1 /\ queue'[n + 1] = NULL
      /\ \A i \in 1..n : queue'[i] = queue[i]
  BY <1>1
<1>3. ipc # "exited" /\ Continues(n) /\ sent = Len(handled) + n
  BY <1>1 DEF ChannelInv
<1>4. NullAt(n + 1)'
  BY <1>1, <1>2, <1>3 DEF NullAt, Continues
<1>5. ChannelInv'
  BY <1>1, <1>4 DEF ChannelInv
<1>6. Limit = NULL /\ Limit' = sent
  BY <1>1, <1>3, <1>4, LimitOpen, LimitNext DEF ChannelInv
<1> QED
  BY <1>1, <1>5, <1>6 DEF Mailbox!Close

\* The head of the queue is the next message, or the NULL message at the limit.
LEMMA PopStep ==
  ASSUME ChannelInv, TypeOK', PopMessage
  PROVE  ChannelInv' /\ (Mailbox!Deliver \/ UNCHANGED Mailbox!vars)
<1> DEFINE h == Len(handled)
<1>0. PICK n \in Nat : n = Len(queue)
  BY DEF ChannelInv, TypeOK
<1>1. /\ queue \in Seq(Nat \cup {NULL}) /\ n = Len(queue) /\ n > 0
      /\ handled \in Seq(Nat) /\ h \in Nat
      /\ queue' = Tail(queue) /\ sent' = sent /\ opc' = opc /\ ipc # "exited"
      /\ Head(queue) = queue[1] /\ Quitting' = Quitting
  BY <1>0 DEF PopMessage, ChannelInv, TypeOK, Quitting
<1>2. Len(queue') = n - 1 /\ \A i \in 1..(n - 1) : queue'[i] = queue[i + 1]
  BY <1>1
<1>3. ASSUME queue[1] = h + 1
      PROVE  handled' = Append(handled, h + 1) /\ ipc' = ipc /\ Len(handled') = h + 1
  BY <1>1, <1>3, NullAssumption DEF PopMessage
<1>4. CASE ~Quitting
  <2>1. queue[1] = h + 1 /\ sent = h + n /\ Continues(n)
    BY <1>1, <1>4 DEF ChannelInv, Continues
  <2>2. Continues(n - 1)'
    <3> SUFFICES ASSUME NEW i \in 1..(n - 1) PROVE queue'[i] = h + 1 + i
      BY <1>3, <2>1 DEF Continues
    <3>1. queue'[i] = queue[i + 1] /\ i + 1 \in 1..n
      BY <1>0, <1>2
    <3> QED
      BY <1>0, <1>1, <2>1, <3>1 DEF Continues
  <2>3. ChannelInv'
    <3>1. sent' = Len(handled') + Len(queue')
      <4>1. Len(handled') = h + 1 /\ Len(queue') = n - 1 /\ sent' = h + n
        BY <1>1, <1>2, <1>3, <2>1
      <4>2. h \in Nat
        BY <1>1
      <4> HIDE DEF h
      <4> QED
        BY <1>0, <4>1, <4>2
    <3> QED
      BY <1>1, <1>2, <1>3, <1>4, <2>1, <2>2, <3>1 DEF ChannelInv
  <2>4. Limit = NULL /\ Limit' = NULL
    BY <1>1, <1>4, <2>3, LimitOpen, LimitNext
  <2>5. h + 1 <= sent
    BY <1>1, <2>1
  <2> QED
    BY <1>1, <1>3, <2>1, <2>3, <2>4, <2>5 DEF Mailbox!Deliver
<1>5. CASE Quitting
  <2>1. PICK k \in Nat : NullAt(k)
    BY <1>1, <1>5 DEF ChannelInv
  <2>2. Limit = h + k - 1
    BY <1>1, <2>1, LimitClosing DEF ChannelInv
  <2>3. CASE k = 1
    <3>1. ipc' = "exited" /\ handled' = handled
      BY <1>1, <2>1, <2>3 DEF PopMessage, NullAt
    <3>2. ChannelInv'
      BY <1>1, <1>5, <3>1 DEF ChannelInv
    <3>3. Limit' = h
      BY <3>1, LimitNext
    <3>4. Limit' = Limit
      BY <1>1, <2>2, <2>3, <3>3
    <3> QED
      BY <1>1, <3>1, <3>2, <3>4 DEF Mailbox!vars
  <2>4. CASE k > 1
    <3>1. queue[1] = h + 1
      BY <1>1, <2>1, <2>4 DEF NullAt, Continues
    <3>2. NullAt(k - 1)'
      <4>1. /\ k \in 1..n /\ queue[k] = NULL
            /\ \A i \in 1..(k - 1) : queue[i] = h + i
            /\ \A i \in (k + 1)..n : queue[i] \in Nat
        BY <1>1, <2>1 DEF NullAt, Continues
      <4>2. k - 1 \in 1..(n - 1) /\ queue'[k - 1] = NULL
        BY <1>0, <1>2, <2>4, <4>1
      <4>3. \A i \in 1..(k - 2) : queue'[i] = h + 1 + i
        <5> SUFFICES ASSUME NEW i \in 1..(k - 2) PROVE queue'[i] = h + 1 + i
          OBVIOUS
        <5>1. queue'[i] = queue[i + 1] /\ i + 1 \in 1..(k - 1)
          BY <1>0, <1>2, <4>1
        <5> QED
          BY <1>1, <4>1, <5>1
      <4>4. \A i \in k..(n - 1) : queue'[i] \in Nat
        BY <1>0, <1>2, <4>1
      <4>5. Continues(k - 2)'
        BY <1>3, <3>1, <4>3 DEF Continues
      <4> QED
        BY <1>0, <1>2, <4>1, <4>2, <4>4, <4>5 DEF NullAt
    <3>3. k - 1 \in Nat
      BY <2>4
    <3>4. ChannelInv'
      BY <1>1, <1>5, <3>2, <3>3 DEF ChannelInv
    <3>5. ipc' # "exited" /\ Len(handled') = h + 1
      BY <1>1, <1>3, <3>1
    <3>6. Limit' = Len(handled') + (k - 1) - 1
      BY <3>2, <3>3, <3>5, LimitNext
    <3>7. Limit' = Limit /\ Limit # NULL /\ h + 1 <= Limit
      BY <1>1, <2>2, <2>4, <3>5, <3>6, NullAssumption
    <3> QED
      BY <1>1, <1>3, <3>1, <3>4, <3>7 DEF Mailbox!Deliver
  <2> QED
    BY <2>1, <2>3, <2>4 DEF NullAt
<1> QED
  BY <1>4, <1>5

LEMMA NextChannel ==
  ChannelInv /\ [Next]_vars => ChannelInv' /\ [Mailbox!Next]_(Mailbox!vars)
<1> SUFFICES ASSUME ChannelInv, [Next]_vars
             PROVE  ChannelInv' /\ [Mailbox!Next]_(Mailbox!vars)
  OBVIOUS
<1>0. TypeOK'
  BY NextTypeOK DEF ChannelInv
<1>1. CASE \E s \in Senders : SendMessageAux(s)
  BY <1>0, <1>1, SendStep DEF Mailbox!Next
<1>2. CASE ShutdownInternalThread
  BY <1>0, <1>2, ShutdownStep DEF Mailbox!Next
<1>3. CASE PopMessage
  BY <1>0, <1>3, PopStep DEF Mailbox!Next
<1>4. CASE \/ \E s \in Senders : SignalInternalThread(s)
           \/ Start \/ QuitSignal \/ WaitForInternalThreadToExit
           \/ Wakeup \/ QueueEmpty \/ UNCHANGED vars
  <2>1. /\ UNCHANGED <<queue, handled, sent>> /\ Quitting' = Quitting
        /\ (ipc = "exited") = (ipc' = "exited")
    BY <1>4 DEF SignalInternalThread, Start, EnsureServerAllocated, StartInternalThread,
       StartInternalThreadAux, InitialSignal, QuitSignal, WaitForInternalThreadToExit,
       Wakeup, QueueEmpty, Quitting, vars
  <2> QED
    BY <1>0, <2>1, HiddenStep
<1> QED
  BY <1>1, <1>2, <1>3, <1>4 DEF Next, Shutdown, Receive

\* The mailbox of a Thread implements the channel its owner relies on: whatever the
\* interleaving of senders, wakeups and shutdown, what was appended before the NULL
\* message is handled, once and in the order of SendMessageAux(), and nothing after.
THEOREM MailboxIsAChannel == Spec => IsAChannel
BY InitChannel, NextChannel, PTL DEF Spec, IsAChannel, Mailbox!Spec
=============================================================================
