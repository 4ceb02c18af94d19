------------------------ MODULE TransferQueue_proofs ------------------------
(***************************************************************************)
(* The transfer list is well-typed and its queue never starts a transfer   *)
(* beyond the user's limits, for any number of sessions, users, files and  *)
(* limits and for every mix of commands.                                   *)
(***************************************************************************)
EXTENDS TransferQueue, FiniteSetTheorems, SequenceTheorems, TLAPS

\* Calls that are not the filling loop of DequeueTransferSessions(upload).
QuietCalls == SessionCalls \cup StageCalls

\* The loop fits: what is active and what it may still start are within the limit.
Fits(c) == Cardinality(ActiveSessions(c.d)) + c.left <= opt.max[c.d]

\* The filling loop is only ever the innermost call, and it fits.
StackOK ==
  \/ todo \in Seq(QuietCalls)
  \/ \E c \in LoopCalls, rest \in Seq(QuietCalls) : todo = <<c>> \o rest /\ Fits(c)

IInv == WindowTypeOK /\ SessionTypeOK /\ StackOK

-----------------------------------------------------------------------------
(* The stack of calls *)

LEMMA QuietOps ==
  ASSUME NEW c \in QuietCalls
  PROVE  /\ c.op # "loop"
         /\ c.op \in SessionOps => c \in SessionCalls
         /\ c.op = "slots" => c.d \in Directions
BY DEF QuietCalls, SessionCalls, StageCalls, SessionOps

LEMMA LoopOps ==
  ASSUME NEW c \in LoopCalls
  PROVE  c.op = "loop" /\ c.d \in Directions /\ c.pos \in Nat \ {0} /\ c.left \in Nat \ {0}
BY DEF LoopCalls

LEMMA LoopHead ==
  ASSUME NEW c \in LoopCalls, NEW rest \in Seq(QuietCalls), todo = <<c>> \o rest
  PROVE  todo # <<>> /\ Head(todo) = c /\ Tail(todo) = rest
OBVIOUS

\* A call other than the loop finds a stack without one.
LEMMA DoingQuiet ==
  ASSUME StackOK, NEW op, Doing(op), op # "loop"
  PROVE  todo \in Seq(QuietCalls) /\ Head(todo) \in QuietCalls /\ Tail(todo) \in Seq(QuietCalls)
<1>1. todo \in Seq(QuietCalls)
  BY LoopHead, LoopOps DEF StackOK, Doing
<1>2. todo # <<>>
  BY DEF Doing
<1> QED
  BY <1>1, <1>2, HeadTailProperties

LEMMA DoingLoop ==
  ASSUME StackOK, Doing("loop")
  PROVE  Head(todo) \in LoopCalls /\ Fits(Head(todo)) /\ Tail(todo) \in Seq(QuietCalls)
<1>1. todo \notin Seq(QuietCalls)
  <2>1. SUFFICES ASSUME todo \in Seq(QuietCalls) PROVE FALSE
    OBVIOUS
  <2>2. Head(todo) \in QuietCalls
    BY <2>1, HeadTailProperties DEF Doing
  <2> QED
    BY <2>2, QuietOps DEF Doing
<1>2. PICK c \in LoopCalls, rest \in Seq(QuietCalls) : todo = <<c>> \o rest /\ Fits(c)
  BY <1>1 DEF StackOK
<1> QED
  BY <1>2, LoopHead

LEMMA QuietStageCalls ==
  /\ DequeueCall \in QuietCalls
  /\ ReorderCall \in QuietCalls
  /\ \A d \in Directions : SlotsCall(d) \in QuietCalls
BY DEF QuietCalls, StageCalls, DequeueCall, ReorderCall, SlotsCall

LEMMA QuietSessionCalls ==
  ASSUME NEW op \in SessionOps, NEW S \in SUBSET Sessions
  PROVE  Call(op, S) \in QuietCalls
BY DEF QuietCalls, SessionCalls, Call

LEMMA CallAllQuiet ==
  ASSUME NEW op \in SessionOps, NEW S \in SUBSET Sessions
  PROVE  CallAll(op, S) \in Seq(QuietCalls)
<1>1. Call(op, S) \in QuietCalls
  BY QuietSessionCalls
<1> QED
  BY <1>1 DEF CallAll

LEMMA NoCallsQuiet == <<>> \in Seq(QuietCalls)
OBVIOUS

LEMMA ThenQuiet ==
  ASSUME StackOK, NEW op, Doing(op), op # "loop",
         NEW calls \in Seq(QuietCalls), Then(calls)
  PROVE  StackOK'
<1>1. Tail(todo) \in Seq(QuietCalls)
  BY DoingQuiet
<1>2. todo' \in Seq(QuietCalls)
  BY <1>1 DEF Then
<1> QED
  BY <1>2 DEF StackOK

LEMMA ReturnQuiet ==
  ASSUME StackOK, NEW op, Doing(op), Return
  PROVE  StackOK'
<1>1. Tail(todo) \in Seq(QuietCalls)
  BY DoingQuiet, DoingLoop
<1> QED
  BY <1>1 DEF Return, StackOK

LEMMA ThenOthersQuiet ==
  ASSUME StackOK, NEW op \in SessionOps, Doing(op), NEW s,
         NEW calls \in Seq(QuietCalls), ThenOthers(calls, s)
  PROVE  StackOK'
<1> DEFINE others == Head(todo).s \ {s}
<1>0. op # "loop"
  BY DEF SessionOps
<1>1. Head(todo) \in QuietCalls /\ Tail(todo) \in Seq(QuietCalls)
  BY <1>0, DoingQuiet
<1>2. Head(todo) \in SessionCalls
  BY <1>1, QuietOps DEF Doing
<1>3. others \subseteq Sessions /\ Head(todo).op \in SessionOps
  BY <1>2 DEF SessionCalls
<1>4. CallAll(Head(todo).op, others) \in Seq(QuietCalls)
  BY <1>3, CallAllQuiet
<1>5. todo' = calls \o CallAll(Head(todo).op, others) \o Tail(todo)
  BY DEF ThenOthers
<1> HIDE DEF others
<1>6. todo' \in Seq(QuietCalls)
  BY <1>1, <1>4, <1>5, ConcatProperties
<1> QED
  BY <1>6 DEF StackOK

LEMMA HeadSessions ==
  ASSUME StackOK, NEW op \in SessionOps, Doing(op)
  PROVE  Head(todo).s \subseteq Sessions
<1>0. op # "loop"
  BY DEF SessionOps
<1>1. Head(todo) \in QuietCalls
  BY <1>0, DoingQuiet
<1>2. Head(todo) \in SessionCalls
  BY <1>1, QuietOps DEF Doing
<1> QED
  BY <1>2 DEF SessionCalls

-----------------------------------------------------------------------------
(* Types: what a session's own operations do *)

LEMMA AbortType ==
  ASSUME SessionTypeOK, NEW s \in Sessions, NEW error \in BOOLEAN,
         AbortSession(s, error), ticking' \subseteq Sessions
  PROVE  SessionTypeOK'
<1>1. removing' \in Seq(Sessions)
  BY DEF AbortSession, SessionTypeOK
<1>2. errored' \subseteq Sessions
  BY DEF AbortSession, SessionTypeOK
<1>3. mtt' \in [Sessions -> {"none", "idle", "running"}]
  BY DEF AbortSession, SessionTypeOK
<1> QED
  BY <1>1, <1>2, <1>3 DEF AbortSession, SessionTypeOK, peerVars

LEMMA TickType ==
  ASSUME SessionTypeOK, NEW s \in Sessions, Tick(s)
  PROVE  ticking' \subseteq Sessions
BY DEF Tick, SessionTypeOK

LEMMA DoUploadType ==
  ASSUME SessionTypeOK, NEW s \in Sessions, DoUpload(s), ticking' \subseteq Sessions
  PROVE  SessionTypeOK'
<1>1. CASE AbortSession(s, TRUE)
  BY <1>1, AbortType
<1>2. CASE ~AbortSession(s, TRUE)
  <2>1. /\ \/ toSend[s] > 0 /\ toSend' = [toSend EXCEPT ![s] = toSend[s] - 1]
           \/ toSend' = toSend
        /\ draining' = draining \/ draining' = draining \cup {s}
        /\ ending' = ending \/ ending' = ending \cup {s}
        /\ waiting' = waiting \ {s}
        /\ UNCHANGED <<peerVars, linkVars, outcomeVars, halted, removing>>
    BY <1>2 DEF DoUpload
  <2>2. toSend' \in [Sessions -> 0..MaxFiles]
    <3>1. toSend[s] \in 0..MaxFiles
      BY DEF SessionTypeOK
    <3>2. toSend[s] > 0 => toSend[s] - 1 \in 0..MaxFiles
      BY <3>1, MaxFilesAssumption
    <3> QED
      BY <2>1, <3>2 DEF SessionTypeOK
  <2>3. draining' \subseteq Sessions
    BY <2>1 DEF SessionTypeOK
  <2>4. ending' \subseteq Sessions
    BY <2>1 DEF SessionTypeOK
  <2> QED
    BY <2>1, <2>2, <2>3, <2>4 DEF SessionTypeOK, peerVars, linkVars, outcomeVars
<1> QED
  BY <1>1, <1>2

LEMMA BeginTransferType ==
  ASSUME SessionTypeOK, NEW s \in Sessions, BeginTransfer(s)
  PROVE  SessionTypeOK'
<1>1. ticking' \subseteq Sessions
  BY TickType DEF BeginTransfer
<1>2. CASE DoUpload(s)
  BY <1>1, <1>2, DoUploadType
<1>3. CASE LeaveQueue(s) /\ UNCHANGED <<mtt, connecting>>
  BY <1>1, <1>3 DEF LeaveQueue, SessionTypeOK, peerVars, outcomeVars, uploadVars
<1>4. CASE /\ LeaveQueue(s)
           /\ mtt' = [mtt EXCEPT ![s] = "running"]
           /\ connecting' = connecting \cup {s}
  BY <1>1, <1>4 DEF LeaveQueue, SessionTypeOK, peerVars, outcomeVars, uploadVars
<1>5. CASE UNCHANGED <<peerVars, linkVars, outcomeVars, uploadVars, waiting, halted, removing>>
  BY <1>1, <1>5 DEF SessionTypeOK, peerVars, linkVars, outcomeVars, uploadVars
<1> QED
  BY <1>2, <1>3, <1>4, <1>5 DEF BeginTransfer, Begin

LEMMA RestartType ==
  ASSUME SessionTypeOK, NEW s \in Sessions, RestartSession(s)
  PROVE  SessionTypeOK'
<1>1. dir' \in [Sessions -> Directions]
  BY DEF RestartSession, SessionTypeOK, Directions
<1>2. mtt' \in [Sessions -> {"none", "idle", "running"}]
  BY DEF RestartSession, SessionTypeOK
<1>3. accepting' \subseteq Sessions
  BY DEF RestartSession, SessionTypeOK
<1> QED
  BY <1>1, <1>2, <1>3 DEF RestartSession, SessionTypeOK

LEMMA RequeueType ==
  ASSUME SessionTypeOK, NEW S \in SUBSET Sessions, RequeueTransfer(S),
         halted' \subseteq Sessions,
         UNCHANGED <<peerVars, linkVars, outcomeVars, uploadVars, removing>>
  PROVE  SessionTypeOK'
BY DEF RequeueTransfer, SessionTypeOK, peerVars, linkVars, outcomeVars, uploadVars

LEMMA SameSessionsType ==
  ASSUME SessionTypeOK, UNCHANGED <<sessionVars, removing>>
  PROVE  SessionTypeOK'
BY DEF SessionTypeOK, sessionVars, peerVars, linkVars, outcomeVars, uploadVars

LEMMA SameWindowType ==
  ASSUME WindowTypeOK, UNCHANGED windowVars
  PROVE  WindowTypeOK'
BY DEF WindowTypeOK, windowVars

LEMMA AbortCallsQuiet ==
  ASSUME NEW s \in Sessions, NEW error \in BOOLEAN, NEW restart \in BOOLEAN
  PROVE  AbortCalls(s, error, restart) \in Seq(QuietCalls)
<1>1. <<DequeueCall>> \in Seq(QuietCalls) /\ <<>> \in Seq(QuietCalls)
  BY QuietStageCalls
<1>2. Call("restart", {s}) \in QuietCalls
  BY QuietSessionCalls DEF SessionOps
<1>3. <<Call("restart", {s}), DequeueCall>> \in Seq(QuietCalls)
  BY <1>2, QuietStageCalls
<1>4. (IF mtt[s] # "none" /\ ~RemovesItself(s, ~error) THEN <<DequeueCall>> ELSE <<>>)
        \in Seq(QuietCalls)
  BY <1>1
<1>5. (IF restart /\ s \in autoRestart THEN <<Call("restart", {s}), DequeueCall>> ELSE <<>>)
        \in Seq(QuietCalls)
  BY <1>1, <1>3
<1> QED
  BY <1>4, <1>5, ConcatProperties DEF AbortCalls

LEMMA UploadsAreSessions == WindowTypeOK => Alive \subseteq Sessions /\ Uploads \subseteq Sessions
BY DEF WindowTypeOK, Alive, Uploads, Range

-----------------------------------------------------------------------------
(* The sessions that hold a slot *)

LEMMA ActiveFinite ==
  ASSUME WindowTypeOK, NEW d
  PROVE  IsFiniteSet(ActiveSessions(d)) /\ Cardinality(ActiveSessions(d)) \in Nat
<1>1. ActiveSessions(d) \subseteq Sessions
  BY UploadsAreSessions DEF ActiveSessions
<1> QED
  BY <1>1, SessionsAssumption, FS_Subset, FS_CardinalityType

\* CountActiveSessions(upload, NULL) counts them all.
LEMMA CountAll ==
  ASSUME NEW d
  PROVE  CountActiveSessions(d, Anon) = Cardinality(ActiveSessions(d))
<1>1. {s \in ActiveSessions(d) : Anon = Anon \/ user[s] = Anon} = ActiveSessions(d)
  OBVIOUS
<1> QED
  BY <1>1 DEF CountActiveSessions

LEMMA SameActive ==
  ASSUME UNCHANGED <<windowVars, sessionVars>>, NEW d
  PROVE  ActiveSessions(d)' = ActiveSessions(d)
<1>1. list' = list /\ dir' = dir /\ waiting' = waiting /\ finished' = finished
  BY DEF windowVars, sessionVars, peerVars, outcomeVars
<1> QED
  BY <1>1 DEF ActiveSessions, Alive, IsActive, Range

LEMMA BeginFacts ==
  ASSUME NEW s, BeginTransfer(s)
  PROVE  dir' = dir /\ waiting \ {s} \subseteq waiting' /\ finished \subseteq finished'
<1>1. CASE UNCHANGED <<peerVars, linkVars, outcomeVars, uploadVars, waiting, halted, removing>>
  BY <1>1 DEF peerVars, outcomeVars
<1>2. CASE LeaveQueue(s)
  BY <1>2 DEF LeaveQueue, peerVars, outcomeVars
<1>3. CASE DoUpload(s)
  BY <1>3 DEF DoUpload, AbortSession, peerVars, outcomeVars
<1> QED
  BY <1>1, <1>2, <1>3 DEF BeginTransfer, Begin

LEMMA BeginActive ==
  ASSUME NEW s, BeginTransfer(s), UNCHANGED windowVars, NEW d
  PROVE  ActiveSessions(d)' \subseteq ActiveSessions(d) \cup {s}
<1>1. list' = list
  BY DEF windowVars
<1>2. dir' = dir /\ waiting \ {s} \subseteq waiting' /\ finished \subseteq finished'
  BY BeginFacts
<1> QED
  BY <1>1, <1>2 DEF ActiveSessions, Alive, IsActive, Range

\* One more session at most: what the loop had left over pays for it.
LEMMA BeginCard ==
  ASSUME WindowTypeOK, NEW s, BeginTransfer(s), UNCHANGED windowVars, NEW d
  PROVE  /\ Cardinality(ActiveSessions(d)') \in Nat
         /\ Cardinality(ActiveSessions(d)') <= Cardinality(ActiveSessions(d)) + 1
<1> DEFINE A == ActiveSessions(d)
           B == ActiveSessions(d)'
<1>1. B \subseteq A \cup {s}
  BY BeginActive
<1>2. IsFiniteSet(A) /\ Cardinality(A) \in Nat
  BY ActiveFinite
<1> HIDE DEF A, B
<1>3. /\ IsFiniteSet(A \cup {s})
      /\ Cardinality(A \cup {s}) <= Cardinality(A) + 1
      /\ Cardinality(A \cup {s}) \in Nat
  <2>1. IsFiniteSet(A \cup {s})
    BY <1>2, FS_AddElement
  <2>2. CASE s \in A
    <3>1. A \cup {s} = A
      BY <2>2
    <3> QED
      BY <1>2, <2>1, <3>1
  <2>3. CASE s \notin A
    BY <1>2, <2>1, <2>3, FS_AddElement
  <2> QED
    BY <2>2, <2>3
<1>4. IsFiniteSet(B) /\ Cardinality(B) <= Cardinality(A \cup {s})
  BY <1>1, <1>3, FS_Subset
<1>5. Cardinality(B) \in Nat
  BY <1>4, FS_CardinalityType
<1>6. Cardinality(B) <= Cardinality(A) + 1
  BY <1>2, <1>3, <1>4, <1>5
<1> QED
  BY <1>5, <1>6 DEF A, B

-----------------------------------------------------------------------------
(* The steps of a handler *)

LEMMA DequeueInv == IInv /\ DequeueTransferSessions => IInv'
<1> SUFFICES ASSUME IInv, DequeueTransferSessions PROVE IInv'
  OBVIOUS
<1>1. WindowTypeOK' /\ Doing("dequeue")
  BY SameWindowType DEF DequeueTransferSessions, IInv
<1>2. SlotsCall("up") \in QuietCalls /\ SlotsCall("down") \in QuietCalls
  BY QuietStageCalls DEF Directions
<1>3. BothSlots \in Seq(QuietCalls) /\ <<ReorderCall>> \in Seq(QuietCalls)
  BY <1>2, QuietStageCalls DEF BothSlots
<1>4. BothSlots \o <<ReorderCall>> \o BothSlots \o BothSlots \in Seq(QuietCalls)
  BY <1>3, ConcatProperties
<1>5. StackOK'
  <2>1. PICK calls \in Seq(QuietCalls) : Then(calls)
    BY <1>3, <1>4 DEF DequeueTransferSessions
  <2> QED
    BY <1>1, <2>1, ThenQuiet DEF IInv
<1>6. SessionTypeOK'
  <2>1. CASE RequeueTransfer(Uploads \ waiting) /\ halted' = halted \cup Uploads
    <3>1. Uploads \ waiting \subseteq Sessions /\ halted' \subseteq Sessions
      BY <2>1, UploadsAreSessions DEF IInv, SessionTypeOK
    <3> QED
      BY <2>1, <3>1, RequeueType DEF IInv, DequeueTransferSessions
  <2>2. CASE UNCHANGED <<waiting, ticking, halted>>
    <3>1. UNCHANGED <<sessionVars, removing>>
      BY <2>2 DEF DequeueTransferSessions, sessionVars
    <3> QED
      BY <3>1, SameSessionsType DEF IInv
  <2> QED
    BY <2>1, <2>2 DEF DequeueTransferSessions
<1> QED
  BY <1>1, <1>5, <1>6 DEF IInv

LEMMA ReorderInv == IInv /\ ReorderUploads => IInv'
<1> SUFFICES ASSUME IInv, ReorderUploads PROVE IInv'
  OBVIOUS
<1>1. list' \in [DOMAIN list -> Alive]
  BY DEF ReorderUploads
<1>2. list' \in Seq(Sessions)
  BY <1>1, UploadsAreSessions DEF IInv, WindowTypeOK
<1>3. WindowTypeOK'
  BY <1>2 DEF ReorderUploads, IInv, WindowTypeOK
<1>4. halted' \subseteq Sessions
  BY DEF ReorderUploads, IInv, SessionTypeOK
<1>5. SessionTypeOK'
  BY <1>4 DEF ReorderUploads, IInv, SessionTypeOK, peerVars, linkVars, outcomeVars, uploadVars
<1>6. StackOK'
  BY ReturnQuiet DEF ReorderUploads, IInv
<1> QED
  BY <1>3, <1>5, <1>6 DEF IInv

LEMMA LoopStack ==
  ASSUME NEW d \in Directions, NEW pos \in Nat \ {0}, NEW left \in Nat \ {0},
         NEW rest \in Seq(QuietCalls), todo' = <<LoopCall(d, pos, left)>> \o rest,
         Cardinality(ActiveSessions(d)') + left <= opt'.max[d]
  PROVE  StackOK'
<1>1. LoopCall(d, pos, left) \in LoopCalls
  BY DEF LoopCall, LoopCalls
<1>2. PICK c \in LoopCalls : c = LoopCall(d, pos, left)
  BY <1>1
<1>3. c.d = d /\ c.left = left
  BY <1>2 DEF LoopCall
<1>4. Fits(c)'
  BY <1>3 DEF Fits
<1> QED
  BY <1>2, <1>4 DEF StackOK

LEMMA CountSlotsInv == IInv /\ CountSlots => IInv'
<1> SUFFICES ASSUME IInv, CountSlots PROVE IInv'
  OBVIOUS
<1>1. WindowTypeOK' /\ SessionTypeOK' /\ Doing("slots")
  BY SameWindowType, SameSessionsType DEF CountSlots, IInv
<1>2. Head(todo) \in QuietCalls /\ Tail(todo) \in Seq(QuietCalls)
  BY <1>1, DoingQuiet DEF IInv
<1>3. PICK d \in Directions : d = Head(todo).d
  BY <1>1, <1>2, QuietOps DEF Doing
<1>4. opt.max[d] \in Nat /\ Cardinality(ActiveSessions(d)) \in Nat
  BY <1>3, ActiveFinite, LimitsAssumption DEF IInv, WindowTypeOK, Settings
<1>5. PICK n \in Int : n = opt.max[d] - Cardinality(ActiveSessions(d))
  BY <1>4
<1>6. n = opt.max[d] - CountActiveSessions(d, Anon)
  BY <1>5, CountAll
<1>7. IF n > 0 THEN Then(<<LoopCall(d, 1, n)>>) ELSE Return
  BY <1>3, <1>6 DEF CountSlots
<1>8. CASE n > 0
  <2>1. ActiveSessions(d)' = ActiveSessions(d)
    BY SameActive DEF CountSlots
  <2>2. opt' = opt
    BY DEF CountSlots, windowVars
  <2>3. Cardinality(ActiveSessions(d)') + n <= opt'.max[d]
    BY <1>4, <1>5, <2>1, <2>2
  <2>4. todo' = <<LoopCall(d, 1, n)>> \o Tail(todo)
    BY <1>7, <1>8 DEF Then
  <2>5. StackOK'
    <3>1. n \in Nat \ {0} /\ 1 \in Nat \ {0}
      BY <1>8
    <3> QED
      BY <1>2, <2>3, <2>4, <3>1, LoopStack
  <2> QED
    BY <1>1, <2>5 DEF IInv
<1>9. CASE ~(n > 0)
  <2>1. Return
    BY <1>7, <1>9
  <2>2. StackOK'
    BY <1>1, <2>1, ReturnQuiet DEF IInv
  <2> QED
    BY <1>1, <2>2 DEF IInv
<1> QED
  BY <1>8, <1>9

LEMMA NothingToStartInv == IInv /\ NothingToStart => IInv'
<1> SUFFICES ASSUME IInv, NothingToStart PROVE IInv'
  OBVIOUS
<1>1. WindowTypeOK' /\ SessionTypeOK'
  BY SameWindowType, SameSessionsType DEF NothingToStart, IInv
<1>2. StackOK'
  BY ReturnQuiet DEF NothingToStart, IInv
<1> QED
  BY <1>1, <1>2 DEF IInv

LEMMA StartNextInv == IInv /\ StartNext => IInv'
<1> SUFFICES ASSUME IInv, StartNext PROVE IInv'
  OBVIOUS
<1>1. WindowTypeOK' /\ Doing("loop") /\ UNCHANGED windowVars
  BY SameWindowType DEF StartNext, IInv
<1>2. Head(todo) \in LoopCalls /\ Fits(Head(todo)) /\ Tail(todo) \in Seq(QuietCalls)
  BY <1>1, DoingLoop DEF IInv
<1>3. PICK call \in LoopCalls : call = Head(todo)
  BY <1>2
<1>4. PICK i \in DOMAIN list :
        /\ BeginTransfer(list[i])
        /\ IF call.left = 1 THEN Return
           ELSE Then(<<LoopCall(call.d, i + 1, call.left - 1)>>)
  BY <1>3 DEF StartNext, Candidates
<1>5. PICK s \in Sessions : s = list[i]
  BY <1>4 DEF IInv, WindowTypeOK
<1>6. SessionTypeOK'
  BY <1>4, <1>5, BeginTransferType DEF IInv
<1>7. StackOK'
  <2>1. CASE call.left = 1
    BY <1>1, <1>4, <2>1, ReturnQuiet DEF IInv
  <2>2. CASE call.left # 1
    <3>1. PICK d \in Directions, pos \in Nat \ {0}, left \in Nat \ {0} :
            d = call.d /\ pos = i + 1 /\ left = call.left - 1
      BY <1>4, <2>2, LoopOps DEF IInv, WindowTypeOK
    <3>2. Cardinality(ActiveSessions(d)) + (left + 1) <= opt.max[d]
      BY <1>2, <1>3, <3>1, LoopOps DEF Fits
    <3>3. /\ Cardinality(ActiveSessions(d)') \in Nat
          /\ Cardinality(ActiveSessions(d)') <= Cardinality(ActiveSessions(d)) + 1
      BY <1>1, <1>4, <1>5, BeginCard DEF IInv
    <3>4. opt.max[d] \in Nat /\ Cardinality(ActiveSessions(d)) \in Nat
      BY ActiveFinite, LimitsAssumption DEF IInv, WindowTypeOK, Settings
    <3>5. opt' = opt
      BY <1>1 DEF windowVars
    <3>6. Cardinality(ActiveSessions(d)') + left <= opt'.max[d]
      BY <3>2, <3>3, <3>4, <3>5
    <3>7. todo' = <<LoopCall(d, pos, left)>> \o Tail(todo)
      BY <1>4, <2>2, <3>1 DEF Then
    <3> QED
      BY <1>2, <3>6, <3>7, LoopStack
  <2> QED
    BY <2>1, <2>2
<1> QED
  BY <1>1, <1>6, <1>7 DEF IInv

LEMMA AbortNextInv == IInv /\ AbortNext => IInv'
<1> SUFFICES ASSUME IInv, AbortNext PROVE IInv'
  OBVIOUS
<1>1. WindowTypeOK'
  BY SameWindowType DEF AbortNext, IInv
<1>2. PICK op \in SessionOps : Doing(op)
  BY DEF AbortNext, SessionOps
<1>3. PICK s \in Sessions, restart \in BOOLEAN :
        /\ ThenOthers(AbortCalls(s, TRUE, restart), s)
        /\ AbortSession(s, TRUE)
        /\ ticking' = ticking \ {s}
  BY <1>2, HeadSessions DEF AbortNext, IInv
<1>4. AbortCalls(s, TRUE, restart) \in Seq(QuietCalls)
  BY AbortCallsQuiet
<1>5. StackOK'
  BY <1>2, <1>3, <1>4, ThenOthersQuiet DEF IInv
<1>6. SessionTypeOK'
  BY <1>3, AbortType DEF IInv, SessionTypeOK
<1> QED
  BY <1>1, <1>5, <1>6 DEF IInv

LEMMA RestartNextInv == IInv /\ RestartNext => IInv'
<1> SUFFICES ASSUME IInv, RestartNext PROVE IInv'
  OBVIOUS
<1>1. WindowTypeOK'
  BY SameWindowType DEF RestartNext, IInv
<1>2. "restart" \in SessionOps /\ Doing("restart")
  BY DEF RestartNext, SessionOps
<1>3. PICK s \in Sessions : RestartSession(s) /\ ThenOthers(<<>>, s)
  BY <1>2, HeadSessions DEF RestartNext, IInv
<1>4. StackOK'
  BY <1>2, <1>3, NoCallsQuiet, ThenOthersQuiet DEF IInv
<1>5. SessionTypeOK'
  BY <1>3, RestartType DEF IInv
<1> QED
  BY <1>1, <1>4, <1>5 DEF IInv

LEMMA HaltNextInv == IInv /\ HaltNext => IInv'
<1> SUFFICES ASSUME IInv, HaltNext PROVE IInv'
  OBVIOUS
<1>1. WindowTypeOK'
  BY SameWindowType DEF HaltNext, IInv
<1>2. "halt" \in SessionOps /\ Doing("halt")
  BY DEF HaltNext, SessionOps
<1>3. PICK s \in Sessions :
        \/ /\ RequeueTransfer({s} \ waiting)
           /\ halted' = halted \cup {s}
           /\ ThenOthers(<<>>, s)
           /\ UNCHANGED <<peerVars, linkVars, outcomeVars, uploadVars, removing>>
        \/ /\ AbortSession(s, TRUE)
           /\ ticking' = ticking \ {s}
           /\ ThenOthers(AbortCalls(s, TRUE, FALSE), s)
  BY <1>2, HeadSessions DEF HaltNext, IInv
<1>4. AbortCalls(s, TRUE, FALSE) \in Seq(QuietCalls) /\ <<>> \in Seq(QuietCalls)
  BY AbortCallsQuiet, NoCallsQuiet
<1>5. StackOK'
  BY <1>2, <1>3, <1>4, ThenOthersQuiet DEF IInv
<1>6. SessionTypeOK'
  <2>1. CASE AbortSession(s, TRUE) /\ ticking' = ticking \ {s}
    BY <2>1, AbortType DEF IInv, SessionTypeOK
  <2>2. CASE /\ RequeueTransfer({s} \ waiting)
             /\ halted' = halted \cup {s}
             /\ UNCHANGED <<peerVars, linkVars, outcomeVars, uploadVars, removing>>
    <3>1. {s} \ waiting \subseteq Sessions /\ halted' \subseteq Sessions
      BY <2>2 DEF IInv, SessionTypeOK
    <3> QED
      BY <2>2, <3>1, RequeueType DEF IInv
  <2> QED
    BY <1>3, <2>1, <2>2
<1> QED
  BY <1>1, <1>5, <1>6 DEF IInv

LEMMA ResumeNextInv == IInv /\ ResumeNext => IInv'
<1> SUFFICES ASSUME IInv, ResumeNext PROVE IInv'
  OBVIOUS
<1>1. WindowTypeOK'
  BY SameWindowType DEF ResumeNext, IInv
<1>2. "resume" \in SessionOps /\ Doing("resume")
  BY DEF ResumeNext, SessionOps
<1>3. PICK s \in Sessions :
        /\ ThenOthers(<<>>, s)
        /\ \/ BeginTransfer(s)
           \/ RestartSession(s)
           \/ /\ halted' = IF s \in waiting THEN halted \ {s} ELSE halted
              /\ UNCHANGED <<peerVars, linkVars, outcomeVars, uploadVars, waiting,
                             ticking, removing>>
  BY <1>2, HeadSessions DEF ResumeNext, IInv
<1>4. StackOK'
  BY <1>2, <1>3, NoCallsQuiet, ThenOthersQuiet DEF IInv
<1>5. SessionTypeOK'
  <2>1. CASE BeginTransfer(s)
    BY <2>1, BeginTransferType DEF IInv
  <2>2. CASE RestartSession(s)
    BY <2>2, RestartType DEF IInv
  <2>3. CASE /\ halted' = IF s \in waiting THEN halted \ {s} ELSE halted
             /\ UNCHANGED <<peerVars, linkVars, outcomeVars, uploadVars, waiting,
                            ticking, removing>>
    <3>1. halted' \subseteq Sessions
      BY <2>3 DEF IInv, SessionTypeOK
    <3> QED
      BY <2>3, <3>1 DEF IInv, SessionTypeOK, peerVars, linkVars, outcomeVars, uploadVars
  <2> QED
    BY <1>3, <2>1, <2>2, <2>3
<1> QED
  BY <1>1, <1>4, <1>5 DEF IInv

LEMMA UploadNextInv == IInv /\ UploadNext => IInv'
<1> SUFFICES ASSUME IInv, UploadNext PROVE IInv'
  OBVIOUS
<1>1. WindowTypeOK'
  BY SameWindowType DEF UploadNext, IInv
<1>2. "upload" \in SessionOps /\ Doing("upload")
  BY DEF UploadNext, SessionOps
<1>3. PICK s \in Sessions :
        /\ ThenOthers(<<>>, s)
        /\ \/ UNCHANGED <<sessionVars, removing>>
           \/ /\ DoUpload(s)
              /\ ticking' \in {ticking \ {s}, ticking, ticking \cup {s}}
  BY <1>2, HeadSessions DEF UploadNext, IInv
<1>4. StackOK'
  BY <1>2, <1>3, NoCallsQuiet, ThenOthersQuiet DEF IInv
<1>5. SessionTypeOK'
  <2>1. CASE UNCHANGED <<sessionVars, removing>>
    BY <2>1, SameSessionsType DEF IInv
  <2>2. CASE DoUpload(s) /\ ticking' \in {ticking \ {s}, ticking, ticking \cup {s}}
    <3>1. ticking' \subseteq Sessions
      BY <2>2 DEF IInv, SessionTypeOK
    <3> QED
      BY <2>2, <3>1, DoUploadType DEF IInv
  <2> QED
    BY <1>3, <2>1, <2>2
<1> QED
  BY <1>1, <1>4, <1>5 DEF IInv

\* The list without one of its entries.
LEMMA RemoveAtType ==
  ASSUME NEW S, NEW seq \in Seq(S), NEW i \in DOMAIN seq
  PROVE  RemoveAt(seq, i) \in Seq(S)
<1>1. i \in 1..Len(seq)
  OBVIOUS
<1>2. RemoveAt(seq, i) = SubSeq(seq, 1, i - 1) \o SubSeq(seq, i + 1, Len(seq))
  BY DEF RemoveAt
<1>3. SubSeq(seq, 1, i - 1) \in Seq(S) /\ SubSeq(seq, i + 1, Len(seq)) \in Seq(S)
  BY <1>1, SubSeqProperties
<1> QED
  BY <1>2, <1>3, ConcatProperties

LEMMA RemoveAtRange ==
  ASSUME NEW seq \in Seq(Sessions), NEW i \in DOMAIN seq
  PROVE  Range(RemoveAt(seq, i)) \subseteq Range(seq)
<1>1. seq \in Seq(Range(seq))
  BY DEF Range
<1>2. RemoveAt(seq, i) \in Seq(Range(seq))
  BY <1>1, RemoveAtType
<1> QED
  BY <1>2 DEF Range

LEMMA DeleteNextInv == IInv /\ DeleteNext => IInv'
<1> SUFFICES ASSUME IInv, DeleteNext PROVE IInv'
  OBVIOUS
<1>1. "delete" \in SessionOps /\ Doing("delete")
  BY DEF DeleteNext, SessionOps
<1>2. PICK i \in DOMAIN list : list' = RemoveAt(list, i)
  BY DEF DeleteNext
<1>3. list' \in Seq(Sessions)
  BY <1>2, RemoveAtType DEF IInv, WindowTypeOK
<1>4. WindowTypeOK'
  BY <1>3 DEF DeleteNext, IInv, WindowTypeOK
<1>5. PICK s \in Sessions :
        /\ ThenOthers(<<>>, s)
        /\ dir' = [dir EXCEPT ![s] = "down"]
        /\ mtt' = [mtt EXCEPT ![s] = "none"]
        /\ user' = [user EXCEPT ![s] = Anon]
        /\ files' = [files EXCEPT ![s] = 0]
        /\ toSend' = [toSend EXCEPT ![s] = 0]
        /\ hasHost' = hasHost \ {s} /\ waiting' = waiting \ {s}
        /\ accepting' = accepting \ {s} /\ connecting' = connecting \ {s}
        /\ connected' = connected \ {s} /\ finished' = finished \cup {s}
        /\ errored' = errored \ {s} /\ halted' = halted \ {s}
        /\ autoRestart' = autoRestart \ {s} /\ ticking' = ticking \ {s}
        /\ saved' = saved \ {s} /\ hashing' = hashing \ {s}
        /\ draining' = draining \ {s} /\ ending' = ending \ {s}
  <2>1. Head(todo).s \subseteq Sessions
    BY <1>1, HeadSessions DEF IInv
  <2> QED
    BY <2>1 DEF DeleteNext
<1>6. StackOK'
  BY <1>1, <1>5, NoCallsQuiet, ThenOthersQuiet DEF IInv
<1>7. dir' \in [Sessions -> Directions] /\ user' \in [Sessions -> Users \cup {Anon}]
  BY <1>5 DEF IInv, SessionTypeOK, Directions
<1>8. mtt' \in [Sessions -> {"none", "idle", "running"}]
  BY <1>5 DEF IInv, SessionTypeOK
<1>9. files' \in [Sessions -> 0..MaxFiles] /\ toSend' \in [Sessions -> 0..MaxFiles]
  <2>1. 0 \in 0..MaxFiles
    BY MaxFilesAssumption
  <2> QED
    BY <1>5, <2>1 DEF IInv, SessionTypeOK
<1>10. SessionTypeOK'
  BY <1>5, <1>7, <1>8, <1>9 DEF DeleteNext, IInv, SessionTypeOK
<1> QED
  BY <1>4, <1>6, <1>10 DEF IInv

-----------------------------------------------------------------------------
(* The first step of a handler *)

\* A handler begins with an empty stack and leaves calls other than the loop.
LEMMA HandlerStack ==
  ASSUME NEW calls \in Seq(QuietCalls), todo' = calls
  PROVE  StackOK'
BY DEF StackOK

LEMMA SameStack ==
  ASSUME Idle, UNCHANGED todo
  PROVE  StackOK'
BY NoCallsQuiet DEF Idle, StackOK

LEMMA DequeueQuiet == <<DequeueCall>> \in Seq(QuietCalls)
BY QuietStageCalls

LEMMA CallQuiet ==
  ASSUME NEW op \in SessionOps, NEW S \in SUBSET Sessions
  PROVE  <<Call(op, S)>> \in Seq(QuietCalls) /\ <<Call(op, S), DequeueCall>> \in Seq(QuietCalls)
<1>1. Call(op, S) \in QuietCalls /\ DequeueCall \in QuietCalls
  BY QuietSessionCalls, QuietStageCalls
<1> QED
  BY <1>1

LEMMA HandlerInv ==
  ASSUME IInv, NEW calls \in Seq(QuietCalls), Handler(calls)
  PROVE  IInv'
<1>1. WindowTypeOK' /\ SessionTypeOK'
  BY SameWindowType, SameSessionsType DEF Handler, IInv
<1>2. StackOK'
  BY HandlerStack DEF Handler
<1> QED
  BY <1>1, <1>2 DEF IInv

LEMMA NewSessionInv ==
  ASSUME IInv, NEW s \in Sessions, NEW d \in Directions, NEW u \in Users \cup {Anon},
         NEW n \in 0..MaxFiles, NewSession(s, d, u, n),
         mtt' \in [Sessions -> {"none", "idle", "running"}],
         hasHost' \subseteq Sessions, accepting' \subseteq Sessions,
         connected' \subseteq Sessions, ticking' \subseteq Sessions
  PROVE  IInv'
<1>1. StackOK'
  BY HandlerStack, DequeueQuiet DEF NewSession
<1>2. list' \in Seq(Sessions)
  BY DEF NewSession, IInv, WindowTypeOK
<1>3. WindowTypeOK'
  BY <1>2 DEF NewSession, IInv, WindowTypeOK
<1>4. /\ dir' \in [Sessions -> Directions]
      /\ user' \in [Sessions -> Users \cup {Anon}]
      /\ files' \in [Sessions -> 0..MaxFiles]
  BY DEF NewSession, IInv, SessionTypeOK
<1>5. SessionTypeOK'
  BY <1>4 DEF NewSession, IInv, SessionTypeOK, outcomeVars, uploadVars
<1> QED
  BY <1>1, <1>3, <1>5 DEF IInv

LEMMA ArrivalInv == IInv /\ Arrival => IInv'
<1> SUFFICES ASSUME IInv, Arrival PROVE IInv'
  OBVIOUS
<1>1. PICK s \in Sessions :
        \/ SocketAccepted(s)
        \/ \E u \in Users : ConnectBackRequestReceived(s, u)
        \/ \E u \in Users, n \in 1..MaxFiles : RequestDownload(s, u, n) \/ RequestCallback(s, u, n)
  BY DEF Arrival
<1>2. "up" \in Directions /\ "down" \in Directions /\ 0 \in 0..MaxFiles
      /\ 1..MaxFiles \subseteq 0..MaxFiles
  BY MaxFilesAssumption DEF Directions
<1>3. CASE SocketAccepted(s)
  <2>1. /\ mtt' \in [Sessions -> {"none", "idle", "running"}]
        /\ hasHost' \subseteq Sessions /\ accepting' \subseteq Sessions
        /\ connected' \subseteq Sessions /\ ticking' \subseteq Sessions
    BY <1>3 DEF SocketAccepted, IInv, SessionTypeOK
  <2>2. NewSession(s, "up", Anon, 0)
    BY <1>3 DEF SocketAccepted
  <2> QED
    BY <1>2, <2>1, <2>2, NewSessionInv
<1>4. ASSUME NEW u \in Users, ConnectBackRequestReceived(s, u)
      PROVE  IInv'
  <2>1. /\ mtt' \in [Sessions -> {"none", "idle", "running"}]
        /\ hasHost' \subseteq Sessions /\ accepting' \subseteq Sessions
        /\ connected' \subseteq Sessions /\ ticking' \subseteq Sessions
    BY <1>4 DEF ConnectBackRequestReceived, IInv, SessionTypeOK
  <2>2. NewSession(s, "up", u, 0)
    BY <1>4 DEF ConnectBackRequestReceived
  <2> QED
    BY <1>2, <2>1, <2>2, NewSessionInv
<1>5. ASSUME NEW u \in Users, NEW n \in 1..MaxFiles,
             RequestDownload(s, u, n) \/ RequestCallback(s, u, n)
      PROVE  IInv'
  <2>1. /\ mtt' \in [Sessions -> {"none", "idle", "running"}]
        /\ hasHost' \subseteq Sessions /\ accepting' \subseteq Sessions
        /\ connected' \subseteq Sessions /\ ticking' \subseteq Sessions
    BY <1>5 DEF RequestDownload, RequestCallback, IInv, SessionTypeOK
  <2>2. NewSession(s, "down", u, n)
    BY <1>5 DEF RequestDownload, RequestCallback
  <2> QED
    BY <1>2, <2>1, <2>2, NewSessionInv
<1> QED
  BY <1>1, <1>3, <1>4, <1>5

LEMMA ConnectedInv == ASSUME IInv, NEW s \in Sessions, Connected(s) PROVE IInv'
<1>1. WindowTypeOK' /\ StackOK'
  BY SameWindowType, SameStack DEF Connected, IInv
<1>2. hashing' \subseteq Sessions /\ ticking' \subseteq Sessions
  BY DEF Connected, IInv, SessionTypeOK
<1>3. SessionTypeOK'
  BY <1>2 DEF Connected, IInv, SessionTypeOK, outcomeVars, uploadVars
<1> QED
  BY <1>1, <1>3 DEF IInv

LEMMA DisconnectedInv == ASSUME IInv, NEW s \in Sessions, Disconnected(s) PROVE IInv'
<1>1. WindowTypeOK'
  BY SameWindowType DEF Disconnected, IInv
<1>2. <<Call("restart", {s}), DequeueCall>> \in Seq(QuietCalls)
  BY CallQuiet DEF SessionOps
<1>3. todo' \in Seq(QuietCalls)
  BY <1>2, NoCallsQuiet, DequeueQuiet DEF Disconnected
<1>4. StackOK'
  BY <1>3 DEF StackOK
<1>5. removing' \in Seq(Sessions) /\ errored' \subseteq Sessions
  BY DEF Disconnected, IInv, SessionTypeOK
<1>6. mtt' \in [Sessions -> {"none", "idle", "running"}]
  BY DEF Disconnected, IInv, SessionTypeOK
<1>7. SessionTypeOK'
  BY <1>5, <1>6 DEF Disconnected, IInv, SessionTypeOK, peerVars
<1> QED
  BY <1>1, <1>4, <1>7 DEF IInv

LEMMA PeerIdInv ==
  ASSUME IInv, NEW s \in Sessions, NEW u \in Users, PeerId(s, u) \/ FileList(s, u)
  PROVE  IInv'
<1>1. user' \in [Sessions -> Users \cup {Anon}]
  BY DEF PeerId, FileList, IInv, SessionTypeOK
<1>2. CASE PeerId(s, u)
  <2>1. WindowTypeOK' /\ StackOK'
    BY <1>2, SameWindowType, SameStack DEF PeerId, IInv
  <2>2. ticking' \subseteq Sessions
    BY <1>2, TickType DEF PeerId, IInv
  <2>3. SessionTypeOK'
    BY <1>1, <1>2, <2>2 DEF PeerId, IInv, SessionTypeOK, linkVars, outcomeVars, uploadVars
  <2> QED
    BY <2>1, <2>3 DEF IInv
<1>3. CASE FileList(s, u)
  <2>1. WindowTypeOK' /\ StackOK'
    BY <1>3, SameWindowType, HandlerStack, DequeueQuiet DEF FileList, IInv
  <2>2. saved' \subseteq Sessions /\ hashing' \subseteq Sessions
    BY <1>3 DEF FileList, IInv, SessionTypeOK
  <2>3. SessionTypeOK'
    BY <1>1, <1>3, <2>2 DEF FileList, IInv, SessionTypeOK, linkVars, outcomeVars, uploadVars
  <2> QED
    BY <2>1, <2>3 DEF IInv
<1> QED
  BY <1>2, <1>3

LEMMA Md5RecvDoneInv ==
  ASSUME IInv, NEW s \in Sessions, NEW n \in 1..MaxFiles, Md5RecvDone(s, n)
  PROVE  IInv'
<1>1. WindowTypeOK'
  BY SameWindowType DEF Md5RecvDone, IInv
<1>2. DequeueCall \in QuietCalls /\ Call("upload", {s}) \in QuietCalls
  BY QuietStageCalls, QuietSessionCalls DEF SessionOps
<1>3. StackOK'
  <2>1. <<DequeueCall, Call("upload", {s})>> \in Seq(QuietCalls)
    BY <1>2
  <2> QED
    BY <2>1, HandlerStack DEF Md5RecvDone
<1>4. n \in 0..MaxFiles
  BY MaxFilesAssumption
<1>5. files' \in [Sessions -> 0..MaxFiles] /\ toSend' \in [Sessions -> 0..MaxFiles]
  BY <1>4 DEF Md5RecvDone, IInv, SessionTypeOK
<1>6. ticking' \subseteq Sessions
  BY TickType DEF Md5RecvDone, IInv
<1>7. SessionTypeOK'
  BY <1>5, <1>6 DEF Md5RecvDone, IInv, SessionTypeOK, linkVars, outcomeVars
<1> QED
  BY <1>1, <1>3, <1>7 DEF IInv

LEMMA Md5SendDoneInv == ASSUME IInv, NEW s \in Sessions, Md5SendDone(s) PROVE IInv'
<1>1. WindowTypeOK' /\ StackOK'
  BY SameWindowType, HandlerStack, DequeueQuiet DEF Md5SendDone, IInv
<1>2. SessionTypeOK'
  BY DEF Md5SendDone, IInv, SessionTypeOK, linkVars, outcomeVars, uploadVars
<1> QED
  BY <1>1, <1>2 DEF IInv

LEMMA FileDataInv == ASSUME IInv, NEW s \in Sessions, FileData(s) PROVE IInv'
<1>1. WindowTypeOK' /\ StackOK'
  BY SameWindowType, SameStack DEF FileData, IInv
<1>2. files' \in [Sessions -> 0..MaxFiles]
  <2>1. files[s] \in 0..MaxFiles /\ files[s] > 0
    BY DEF FileData, IInv, SessionTypeOK
  <2>2. files[s] - 1 \in 0..MaxFiles
    BY <2>1, MaxFilesAssumption
  <2> QED
    BY <2>2 DEF FileData, IInv, SessionTypeOK
<1>3. SessionTypeOK'
  BY <1>2 DEF FileData, IInv, SessionTypeOK, linkVars, uploadVars
<1> QED
  BY <1>1, <1>3 DEF IInv

LEMMA DrainedInv == ASSUME IInv, NEW s \in Sessions, Drained(s) PROVE IInv'
<1>1. WindowTypeOK'
  BY SameWindowType DEF Drained, IInv
<1>2. CASE s \in ending
  <2>1. AbortCalls(s, FALSE, FALSE) \in Seq(QuietCalls)
    BY AbortCallsQuiet
  <2>2. StackOK'
    BY <1>2, <2>1, HandlerStack DEF Drained
  <2>3. SessionTypeOK'
    BY <1>2, AbortType DEF Drained, IInv, SessionTypeOK
  <2> QED
    BY <1>1, <2>2, <2>3 DEF IInv
<1>3. CASE s \notin ending
  <2>1. <<Call("upload", {s})>> \in Seq(QuietCalls)
    BY CallQuiet DEF SessionOps
  <2>2. StackOK'
    BY <1>3, <2>1, HandlerStack DEF Drained
  <2>3. SessionTypeOK'
    BY <1>3 DEF Drained, IInv, SessionTypeOK, peerVars, linkVars, outcomeVars
  <2> QED
    BY <1>1, <2>2, <2>3 DEF IInv
<1> QED
  BY <1>2, <1>3

LEMMA EventInv == IInv /\ Event => IInv'
<1> SUFFICES ASSUME IInv, Event PROVE IInv'
  OBVIOUS
<1>1. PICK s \in Sessions :
        \/ Connected(s) \/ Disconnected(s) \/ BadMessage(s) \/ Rejected(s)
        \/ Md5SendDone(s) \/ FileData(s) \/ Drained(s)
        \/ \E u \in Users : PeerId(s, u) \/ FileList(s, u)
        \/ \E n \in 1..MaxFiles : Md5RecvDone(s, n)
  BY UploadsAreSessions DEF Event, IInv
<1>2. CASE BadMessage(s) \/ Rejected(s)
  <2>1. <<Call("error", {s})>> \in Seq(QuietCalls) /\ <<Call("stop", {s})>> \in Seq(QuietCalls)
    BY CallQuiet DEF SessionOps
  <2>2. Handler(<<Call("error", {s})>>) \/ Handler(<<Call("stop", {s})>>)
    BY <1>2 DEF BadMessage, Rejected, Handler
  <2> QED
    BY <2>1, <2>2, HandlerInv
<1> QED
  BY <1>1, <1>2, ConnectedInv, DisconnectedInv, PeerIdInv, Md5RecvDoneInv, Md5SendDoneInv,
     FileDataInv, DrainedInv

LEMMA RemoveSessionInv == IInv /\ RemoveSession => IInv'
<1> SUFFICES ASSUME IInv, RemoveSession PROVE IInv'
  OBVIOUS
<1>1. WindowTypeOK'
  BY DEF RemoveSession, IInv, WindowTypeOK
<1>2. Head(removing) \in Sessions /\ removing' \in Seq(Sessions)
  BY HeadTailProperties DEF RemoveSession, IInv, SessionTypeOK
<1>3. SessionTypeOK'
  BY <1>2 DEF RemoveSession, IInv, SessionTypeOK, sessionVars, peerVars, linkVars,
              outcomeVars, uploadVars
<1>4. <<Call("delete", {Head(removing)}), DequeueCall>> \in Seq(QuietCalls)
  <2>1. PICK s \in Sessions : s = Head(removing)
    BY <1>2
  <2>2. <<Call("delete", {s}), DequeueCall>> \in Seq(QuietCalls)
    BY CallQuiet DEF SessionOps
  <2> QED
    BY <2>1, <2>2
<1>5. todo' \in Seq(QuietCalls)
  BY <1>4, NoCallsQuiet, DequeueQuiet DEF RemoveSession, Idle
<1>6. StackOK'
  BY <1>5 DEF StackOK
<1> QED
  BY <1>1, <1>3, <1>6 DEF IInv

LEMMA NoticeInv == IInv /\ Notice => IInv'
<1> SUFFICES ASSUME IInv, Notice PROVE IInv'
  OBVIOUS
<1>1. Alive \subseteq Sessions
  BY UploadsAreSessions DEF IInv
<1>2. ASSUME NEW u \in Users, TransferCallbackRejected(u) PROVE IInv'
  <2>1. PICK S \in SUBSET Sessions : Handler(<<Call("reject", S)>>)
    BY <1>1, <1>2 DEF TransferCallbackRejected
  <2>2. <<Call("reject", S)>> \in Seq(QuietCalls)
    BY CallQuiet DEF SessionOps
  <2> QED
    BY <2>1, <2>2, HandlerInv
<1>3. ASSUME NEW u \in Users, RemoveUser(u) PROVE IInv'
  <2>1. PICK S \in SUBSET Sessions : Handler(<<Call("stop", S)>>)
    BY <1>1, <1>3 DEF RemoveUser
  <2>2. <<Call("stop", S)>> \in Seq(QuietCalls)
    BY CallQuiet DEF SessionOps
  <2> QED
    BY <2>1, <2>2, HandlerInv
<1>4. ASSUME NEW u \in Users, RestartDownloadsFor(u) PROVE IInv'
  <2>1. PICK S \in SUBSET Sessions : Handler(<<Call("restart", S), DequeueCall>>)
    BY <1>1, <1>4 DEF RestartDownloadsFor
  <2>2. <<Call("restart", S), DequeueCall>> \in Seq(QuietCalls)
    BY CallQuiet DEF SessionOps
  <2> QED
    BY <2>1, <2>2, HandlerInv
<1>5. ASSUME NEW S \in SUBSET Sessions, CheckForMoribundConnections(S) PROVE IInv'
  <2>1. <<Call("error", S)>> \in Seq(QuietCalls)
    BY CallQuiet DEF SessionOps
  <2> QED
    BY <1>5, <2>1, HandlerInv DEF CheckForMoribundConnections
<1>6. CASE ScanStarts
  <2>1. StackOK'
    BY <1>6, SameStack DEF ScanStarts
  <2>2. SessionTypeOK'
    BY <1>6, SameSessionsType DEF ScanStarts, IInv
  <2>3. WindowTypeOK'
    BY <1>6 DEF ScanStarts, IInv, WindowTypeOK
  <2> QED
    BY <2>1, <2>2, <2>3 DEF IInv
<1>7. CASE SharesScanComplete
  <2>1. StackOK'
    BY <1>7, SameStack DEF SharesScanComplete
  <2>2. SessionTypeOK'
    BY <1>7 DEF SharesScanComplete, IInv, SessionTypeOK, linkVars, outcomeVars, uploadVars
  <2>3. WindowTypeOK'
    BY <1>7 DEF SharesScanComplete, IInv, WindowTypeOK
  <2> QED
    BY <2>1, <2>2, <2>3 DEF IInv
<1>8. CASE RemoveSession
  BY <1>8, RemoveSessionInv
<1> QED
  BY <1>2, <1>3, <1>4, <1>5, <1>6, <1>7, <1>8 DEF Notice

\* The steps that change a setting.
LEMMA OptionInv ==
  ASSUME IInv, opt' \in Settings, Idle, todo' \in {todo, <<DequeueCall>>},
         UNCHANGED <<list, fresh, scanning, app, sessionVars, removing>>
  PROVE  IInv'
<1>1. WindowTypeOK'
  BY DEF IInv, WindowTypeOK
<1>2. SessionTypeOK'
  BY SameSessionsType DEF IInv
<1>3. todo' \in Seq(QuietCalls)
  BY NoCallsQuiet, DequeueQuiet DEF Idle
<1> QED
  BY <1>1, <1>2, <1>3 DEF IInv, StackOK

\* Moving an entry keeps the list a list of the same sessions.
LEMMA MoveType ==
  ASSUME list \in Seq(Sessions), NEW i \in DOMAIN list, NEW j \in DOMAIN list, MoveSelected(i, j)
  PROVE  list' \in Seq(Sessions) /\ Range(list') \subseteq Range(list)
<1>1. \A k \in DOMAIN list : k \in 1..Len(list)
  OBVIOUS
<1>2. \A k \in DOMAIN list :
        /\ i <= k /\ k < j => k + 1 \in DOMAIN list
        /\ j < k /\ k <= i => k - 1 \in DOMAIN list
  BY <1>1
<1>3. DOMAIN list' = DOMAIN list
  BY DEF MoveSelected
<1>4. ASSUME NEW k \in DOMAIN list
      PROVE  list'[k] \in Range(list)
  <2>1. list'[k] = CASE k = j -> list[i]
                     [] i <= k /\ k < j -> list[k + 1]
                     [] j < k /\ k <= i -> list[k - 1]
                     [] OTHER -> list[k]
    BY DEF MoveSelected
  <2> QED
    BY <1>2, <2>1 DEF Range
<1>5. list' \in [DOMAIN list -> Range(list)]
  BY <1>4 DEF MoveSelected
<1>6. Range(list) \subseteq Sessions
  BY DEF Range
<1>7. list' \in Seq(Sessions)
  BY <1>1, <1>5, <1>6
<1> QED
  BY <1>3, <1>4, <1>7 DEF Range

LEMMA UserCommandInv == IInv /\ UserCommand => IInv'
<1> SUFFICES ASSUME IInv, UserCommand PROVE IInv'
  OBVIOUS
<1>0. Alive \subseteq Sessions /\ Uploads \subseteq Sessions
  BY UploadsAreSessions DEF IInv
<1>1. ASSUME NEW d \in Directions, NEW n \in Limits, SetLimit(d, n) \/ SetPerUserLimit(d, n)
      PROVE  IInv'
  <2>1. opt \in Settings
    BY DEF IInv, WindowTypeOK
  <2>2. [opt EXCEPT !.max[d] = n] \in Settings
    BY <2>1 DEF Settings
  <2>3. [opt EXCEPT !.perUser[d] = n] \in Settings
    BY <2>1 DEF Settings
  <2> QED
    BY <1>1, <2>2, <2>3, OptionInv DEF SetLimit, SetPerUserLimit
<1>2. CASE ToggleShortestUploadsFirst \/ ToggleAutoClear
  <2>1. opt \in Settings
    BY DEF IInv, WindowTypeOK
  <2>2. [opt EXCEPT !.shortest = Toggled(opt.shortest)] \in Settings
    BY <2>1 DEF Settings, Toggled
  <2>3. [opt EXCEPT !.autoClear = Toggled(opt.autoClear)] \in Settings
    BY <2>1 DEF Settings, Toggled
  <2> QED
    BY <1>2, <2>2, <2>3, OptionInv DEF ToggleShortestUploadsFirst, ToggleAutoClear
<1>3. CASE PauseAllUploads
  <2>1. WindowTypeOK' /\ StackOK'
    BY <1>3, SameWindowType, HandlerStack, DequeueQuiet DEF PauseAllUploads, IInv
  <2>2. Uploads \ waiting \subseteq Sessions /\ halted' \subseteq Sessions
    BY <1>0, <1>3 DEF PauseAllUploads, IInv, SessionTypeOK
  <2>3. SessionTypeOK'
    BY <1>3, <2>2, RequeueType DEF PauseAllUploads, IInv
  <2> QED
    BY <2>1, <2>3 DEF IInv
<1>4. CASE ResumeAllUploads
  <2>1. PICK S \in SUBSET Sessions : Handler(CallAll("resume", S) \o <<DequeueCall>>)
    BY <1>0, <1>4 DEF ResumeAllUploads
  <2>2. CallAll("resume", S) \in Seq(QuietCalls)
    BY CallAllQuiet DEF SessionOps
  <2>3. CallAll("resume", S) \o <<DequeueCall>> \in Seq(QuietCalls)
    BY <2>2, DequeueQuiet, ConcatProperties
  <2> QED
    BY <2>1, <2>3, HandlerInv
<1>5. ASSUME NEW S \in Selections, HaltSelected(S) \/ ResumeSelected(S) \/ CancelSelected(S)
      PROVE  IInv'
  <2>1. S \in SUBSET Sessions
    BY <1>0 DEF Selections
  <2>2. PICK op \in {"halt", "resume", "delete"} : Handler(<<Call(op, S), DequeueCall>>)
    BY <1>5 DEF HaltSelected, ResumeSelected, CancelSelected
  <2>3. <<Call(op, S), DequeueCall>> \in Seq(QuietCalls)
    BY <2>1, CallQuiet DEF SessionOps
  <2> QED
    BY <2>2, <2>3, HandlerInv
<1>6. CASE ClearFinished
  <2>1. PICK S \in SUBSET Sessions : Handler(<<Call("delete", S)>>)
    BY <1>0, <1>6 DEF ClearFinished
  <2>2. <<Call("delete", S)>> \in Seq(QuietCalls)
    BY CallQuiet DEF SessionOps
  <2> QED
    BY <2>1, <2>2, HandlerInv
<1>7. ASSUME NEW i \in DOMAIN list, NEW j \in DOMAIN list, MoveSelected(i, j) PROVE IInv'
  <2>1. StackOK'
    BY <1>7, SameStack DEF MoveSelected
  <2>2. SessionTypeOK'
    BY <1>7, SameSessionsType DEF MoveSelected, IInv
  <2>3. list' \in Seq(Sessions)
    BY <1>7, MoveType DEF IInv, WindowTypeOK
  <2>4. WindowTypeOK'
    BY <1>7, <2>3 DEF MoveSelected, IInv, WindowTypeOK
  <2> QED
    BY <2>1, <2>2, <2>4 DEF IInv
<1> QED
  BY <1>1, <1>2, <1>3, <1>4, <1>5, <1>6, <1>7 DEF UserCommand

-----------------------------------------------------------------------------
(* The theorem on types *)

LEMMA InitInv == Init => IInv
<1> SUFFICES ASSUME Init PROVE IInv
  OBVIOUS
<1>1. WindowTypeOK
  BY FirstOptAssumption DEF Init, WindowTypeOK
<1>2. 0 \in 0..MaxFiles
  BY MaxFilesAssumption
<1>3. SessionTypeOK
  BY <1>2 DEF Init, SessionTypeOK, Directions
<1>4. StackOK
  BY NoCallsQuiet DEF Init, StackOK
<1> QED
  BY <1>1, <1>3, <1>4 DEF IInv

LEMMA StutterInv == IInv /\ UNCHANGED vars => IInv'
<1> SUFFICES ASSUME IInv, UNCHANGED vars PROVE IInv'
  OBVIOUS
<1>1. UNCHANGED <<windowVars, sessionVars, removing, todo>>
  BY DEF vars
<1>2. WindowTypeOK' /\ SessionTypeOK'
  BY <1>1, SameWindowType, SameSessionsType DEF IInv
<1>3. CASE todo \in Seq(QuietCalls)
  BY <1>1, <1>2, <1>3 DEF IInv, StackOK
<1>4. ASSUME NEW c \in LoopCalls, NEW rest \in Seq(QuietCalls), todo = <<c>> \o rest, Fits(c)
      PROVE  IInv'
  <2>1. ActiveSessions(c.d)' = ActiveSessions(c.d) /\ opt' = opt
    BY <1>1, SameActive DEF windowVars
  <2>2. Fits(c)'
    BY <1>4, <2>1 DEF Fits
  <2>3. StackOK'
    BY <1>1, <1>4, <2>2 DEF StackOK
  <2> QED
    BY <1>2, <2>3 DEF IInv
<1> QED
  BY <1>3, <1>4 DEF IInv, StackOK

LEMMA NextInv == IInv /\ [Next]_vars => IInv'
BY DequeueInv, ReorderInv, CountSlotsInv, StartNextInv, NothingToStartInv, AbortNextInv,
   RestartNextInv, HaltNextInv, ResumeNextInv, UploadNextInv, DeleteNextInv, ArrivalInv,
   EventInv, NoticeInv, UserCommandInv, StutterInv DEF Next, Step

LEMMA InvType == IInv => TypeOK
<1> SUFFICES ASSUME IInv PROVE TypeOK
  OBVIOUS
<1>1. QuietCalls \subseteq Calls /\ LoopCalls \subseteq Calls
  BY DEF QuietCalls, Calls
<1>2. ASSUME NEW c \in LoopCalls, NEW rest \in Seq(QuietCalls), todo = <<c>> \o rest
      PROVE  todo \in Seq(Calls)
  <2>1. <<c>> \in Seq(Calls) /\ rest \in Seq(Calls)
    BY <1>1
  <2> QED
    BY <1>2, <2>1, ConcatProperties
<1>3. todo \in Seq(QuietCalls) => todo \in Seq(Calls)
  BY <1>1
<1> QED
  BY <1>2, <1>3 DEF IInv, StackOK, TypeOK

LEMMA InvHolds == Spec => []IInv
BY InitInv, NextInv, PTL DEF Spec

\* Whatever the peers, the server and the user do, every field of every session, the
\* list, the settings, the posted messages and the stack of nested calls keep their
\* types; in particular the counts of files and chunks left stay within bounds.
THEOREM TypeCorrect == Spec => []TypeOK
BY InvHolds, InvType, PTL

-----------------------------------------------------------------------------
(* The theorem on slots: only the filling loop and "Restart Transfer" give one *)

\* No session of the new list gets a slot that it did not have.
LEMMA Shrinks ==
  ASSUME NEW d,
         \A s \in Alive' : \/ s \in waiting' \cup finished'
                           \/ s \in Alive /\ dir'[s] = dir[s] /\ s \notin waiting \cup finished
  PROVE  ActiveSessions(d)' \subseteq ActiveSessions(d)
BY DEF ActiveSessions, IsActive

\* The common case: the same sessions, or fewer, in the same direction, and nobody
\* leaves the queue or the ranks of the finished.
LEMMA NobodyStarts ==
  ASSUME NEW d, Alive' \subseteq Alive, dir' = dir, waiting \subseteq waiting',
         finished \subseteq finished'
  PROVE  ActiveSessions(d)' \subseteq ActiveSessions(d)
BY Shrinks

LEMMA SameAlive == UNCHANGED list => Alive' = Alive
BY DEF Alive, Range

LEMMA AbortShrinks ==
  ASSUME NEW d, NEW s, UNCHANGED windowVars, finished' = finished \cup {s},
         waiting' = waiting \ {s}, dir' = dir
  PROVE  ActiveSessions(d)' \subseteq ActiveSessions(d)
<1>1. Alive' = Alive
  BY SameAlive DEF windowVars
<1> QED
  BY <1>1, Shrinks

LEMMA RestartShrinks ==
  ASSUME NEW d, IInv, NEW s \in Sessions, UNCHANGED windowVars, RestartSession(s)
  PROVE  ActiveSessions(d)' \subseteq ActiveSessions(d)
<1>1. Alive' = Alive /\ Alive \subseteq Sessions
  BY SameAlive, UploadsAreSessions DEF windowVars, IInv
<1>2. \A x \in Sessions \ {s} : dir'[x] = dir[x]
  BY DEF RestartSession, IInv, SessionTypeOK
<1>3. s \in waiting' /\ waiting \subseteq waiting' /\ finished \ {s} \subseteq finished'
  BY DEF RestartSession
<1> QED
  BY <1>1, <1>2, <1>3, Shrinks

LEMMA StepShrinks ==
  ASSUME NEW d, IInv,
         \/ DequeueTransferSessions \/ ReorderUploads \/ CountSlots \/ NothingToStart
         \/ AbortNext \/ RestartNext \/ HaltNext \/ UploadNext \/ DeleteNext
  PROVE  ActiveSessions(d)' \subseteq ActiveSessions(d)
<1>1. CASE DequeueTransferSessions
  <2>1. Alive' = Alive
    BY <1>1, SameAlive DEF DequeueTransferSessions, windowVars
  <2>2. dir' = dir /\ finished' = finished /\ waiting \subseteq waiting'
    BY <1>1 DEF DequeueTransferSessions, RequeueTransfer, peerVars, outcomeVars
  <2> QED
    BY <2>1, <2>2, NobodyStarts
<1>2. CASE ReorderUploads
  <2>1. Alive' \subseteq Alive
    <3>1. list' \in [DOMAIN list -> Alive]
      BY <1>2 DEF ReorderUploads
    <3> QED
      BY <3>1 DEF Alive, Range
  <2>2. dir' = dir /\ finished' = finished /\ waiting' = waiting
    BY <1>2 DEF ReorderUploads, peerVars, outcomeVars
  <2> QED
    BY <2>1, <2>2, NobodyStarts
<1>3. CASE CountSlots \/ NothingToStart
  BY <1>3, SameActive DEF CountSlots, NothingToStart
<1>4. CASE AbortNext
  <2>1. PICK s : finished' = finished \cup {s} /\ waiting' = waiting \ {s} /\ dir' = dir
    BY <1>4 DEF AbortNext, AbortSession, peerVars
  <2> QED
    BY <1>4, <2>1, AbortShrinks DEF AbortNext
<1>5. CASE RestartNext
  <2>1. Head(todo).s \subseteq Sessions
    BY <1>5, HeadSessions DEF RestartNext, SessionOps, IInv
  <2>2. PICK s \in Sessions : RestartSession(s)
    BY <1>5, <2>1 DEF RestartNext
  <2> QED
    BY <1>5, <2>2, RestartShrinks DEF RestartNext
<1>6. CASE HaltNext
  <2>1. PICK s : \/ finished' = finished \cup {s} /\ waiting' = waiting \ {s} /\ dir' = dir
                 \/ finished' = finished /\ waiting \subseteq waiting' /\ dir' = dir
    BY <1>6 DEF HaltNext, AbortSession, RequeueTransfer, peerVars, outcomeVars
  <2>2. UNCHANGED windowVars /\ Alive' = Alive
    BY <1>6, SameAlive DEF HaltNext, windowVars
  <2> QED
    BY <2>1, <2>2, AbortShrinks, NobodyStarts
<1>7. CASE UploadNext
  <2>1. PICK s : \/ UNCHANGED sessionVars
                 \/ s \notin waiting /\ DoUpload(s)
    BY <1>7 DEF UploadNext
  <2>2. UNCHANGED windowVars /\ Alive' = Alive
    BY <1>7, SameAlive DEF UploadNext, windowVars
  <2>3. CASE UNCHANGED sessionVars
    BY <2>2, <2>3, SameActive
  <2>4. CASE s \notin waiting /\ DoUpload(s)
    <3>1. dir' = dir /\ waiting' = waiting \ {s} /\ finished \subseteq finished'
      BY <2>4 DEF DoUpload, AbortSession, peerVars, outcomeVars
    <3>2. waiting' = waiting
      BY <2>4, <3>1
    <3> QED
      BY <2>2, <3>1, <3>2, NobodyStarts
  <2> QED
    BY <2>1, <2>3, <2>4
<1>8. CASE DeleteNext
  <2>1. Head(todo).s \subseteq Sessions
    BY <1>8, HeadSessions DEF DeleteNext, SessionOps, IInv
  <2>2. PICK s \in Sessions, i \in DOMAIN list :
          /\ list' = RemoveAt(list, i)
          /\ dir' = [dir EXCEPT ![s] = "down"]
          /\ waiting' = waiting \ {s}
          /\ finished' = finished \cup {s}
    BY <1>8, <2>1 DEF DeleteNext
  <2>3. Alive' \subseteq Alive
    <3>1. Range(RemoveAt(list, i)) \subseteq Range(list)
      BY RemoveAtRange DEF IInv, WindowTypeOK
    <3> QED
      BY <2>2, <3>1 DEF Alive
  <2>4. Alive \subseteq Sessions
    BY UploadsAreSessions DEF IInv
  <2>5. \A x \in Sessions \ {s} : dir'[x] = dir[x]
    BY <2>2 DEF IInv, SessionTypeOK
  <2> QED
    BY <2>2, <2>3, <2>4, <2>5, Shrinks
<1> QED
  BY <1>1, <1>2, <1>3, <1>4, <1>5, <1>6, <1>7, <1>8

LEMMA ArrivalShrinks ==
  ASSUME NEW d, IInv, Arrival
  PROVE  ActiveSessions(d)' \subseteq ActiveSessions(d)
<1>1. PICK s \in Sessions, e \in Directions, u \in Users \cup {Anon}, n \in 0..MaxFiles :
         NewSession(s, e, u, n)
  BY MaxFilesAssumption DEF Arrival, SocketAccepted, ConnectBackRequestReceived, RequestDownload,
     RequestCallback, Directions
<1>2. Alive' \subseteq Alive \cup {s}
  BY <1>1 DEF NewSession, Alive, Range, IInv, WindowTypeOK
<1>3. Alive \subseteq Sessions
  BY UploadsAreSessions DEF IInv
<1>4. \A x \in Sessions \ {s} : dir'[x] = dir[x]
  BY <1>1 DEF NewSession, IInv, SessionTypeOK
<1>5. waiting' = waiting \cup {s} /\ finished' = finished
  BY <1>1 DEF NewSession, outcomeVars
<1> QED
  BY <1>2, <1>3, <1>4, <1>5, Shrinks

LEMMA EventShrinks ==
  ASSUME NEW d, IInv, Event
  PROVE  ActiveSessions(d)' \subseteq ActiveSessions(d)
<1>1. PICK s \in Sessions :
        \/ Connected(s) \/ Disconnected(s) \/ BadMessage(s) \/ Rejected(s)
        \/ Md5SendDone(s) \/ FileData(s) \/ Drained(s)
        \/ \E u \in Users : PeerId(s, u) \/ FileList(s, u)
        \/ \E n \in 1..MaxFiles : Md5RecvDone(s, n)
  BY UploadsAreSessions DEF Event, IInv
<1>2. UNCHANGED windowVars
  BY <1>1 DEF Connected, Disconnected, BadMessage, Rejected, Md5SendDone, FileData, Drained,
              PeerId, FileList, Md5RecvDone
<1>3. Alive' = Alive
  BY <1>2, SameAlive DEF windowVars
<1>4. \/ finished' = finished \cup {s} /\ waiting' = waiting \ {s} /\ dir' = dir
      \/ finished' = finished /\ waiting' = waiting /\ dir' = dir
  <2>1. CASE Disconnected(s)
    BY <2>1 DEF Disconnected, peerVars
  <2>2. CASE Drained(s)
    BY <2>2 DEF Drained, AbortSession, peerVars, outcomeVars
  <2>3. CASE Connected(s) \/ Md5SendDone(s) \/ FileData(s)
    BY <2>3 DEF Connected, Md5SendDone, FileData, outcomeVars
  <2>4. CASE BadMessage(s) \/ Rejected(s)
    BY <2>4 DEF BadMessage, Rejected, sessionVars, peerVars, outcomeVars
  <2>5. CASE \E u \in Users : PeerId(s, u) \/ FileList(s, u)
    BY <2>5 DEF PeerId, FileList, outcomeVars
  <2>6. CASE \E n \in 1..MaxFiles : Md5RecvDone(s, n)
    BY <2>6 DEF Md5RecvDone, outcomeVars
  <2> QED
    BY <1>1, <2>1, <2>2, <2>3, <2>4, <2>5, <2>6
<1> QED
  BY <1>2, <1>3, <1>4, AbortShrinks, NobodyStarts

LEMMA NoticeShrinks ==
  ASSUME NEW d, IInv, Notice
  PROVE  ActiveSessions(d)' \subseteq ActiveSessions(d)
<1>1. CASE \E calls : Handler(calls)
  BY <1>1, SameActive DEF Handler
<1>2. CASE ScanStarts \/ SharesScanComplete \/ RemoveSession
  <2>1. Alive' = Alive
    BY <1>2, SameAlive DEF ScanStarts, SharesScanComplete, RemoveSession
  <2>2. dir' = dir /\ finished' = finished /\ waiting' = waiting
    BY <1>2 DEF ScanStarts, SharesScanComplete, RemoveSession, sessionVars, peerVars, outcomeVars
  <2> QED
    BY <2>1, <2>2, NobodyStarts
<1> QED
  BY <1>1, <1>2 DEF Notice, TransferCallbackRejected, RemoveUser, RestartDownloadsFor,
                    CheckForMoribundConnections

LEMMA UserCommandShrinks ==
  ASSUME NEW d, IInv, UserCommand
  PROVE  ActiveSessions(d)' \subseteq ActiveSessions(d)
<1>1. CASE \E calls : Handler(calls)
  BY <1>1, SameActive DEF Handler
<1>2. CASE UNCHANGED <<list, sessionVars>>
  <2>1. Alive' = Alive
    BY <1>2, SameAlive
  <2>2. dir' = dir /\ finished' = finished /\ waiting' = waiting
    BY <1>2 DEF sessionVars, peerVars, outcomeVars
  <2> QED
    BY <2>1, <2>2, NobodyStarts
<1>3. CASE PauseAllUploads
  <2>1. Alive' = Alive
    BY <1>3, SameAlive DEF PauseAllUploads, windowVars
  <2>2. dir' = dir /\ finished' = finished /\ waiting \subseteq waiting'
    BY <1>3 DEF PauseAllUploads, RequeueTransfer, peerVars, outcomeVars
  <2> QED
    BY <2>1, <2>2, NobodyStarts
<1>4. ASSUME NEW i \in DOMAIN list, NEW j \in DOMAIN list, MoveSelected(i, j)
      PROVE  ActiveSessions(d)' \subseteq ActiveSessions(d)
  <2>1. Alive' \subseteq Alive
    BY <1>4, MoveType DEF Alive, IInv, WindowTypeOK
  <2>2. dir' = dir /\ finished' = finished /\ waiting' = waiting
    BY <1>4 DEF MoveSelected, sessionVars, peerVars, outcomeVars
  <2> QED
    BY <2>1, <2>2, NobodyStarts
<1>5. ASSUME NEW e \in Directions, NEW n \in Limits, SetLimit(e, n) \/ SetPerUserLimit(e, n)
      PROVE  UNCHANGED <<list, sessionVars>>
  BY <1>5 DEF SetLimit, SetPerUserLimit
<1>6. CASE ToggleShortestUploadsFirst \/ ToggleAutoClear
  BY <1>2, <1>6 DEF ToggleShortestUploadsFirst, ToggleAutoClear
<1>7. CASE ResumeAllUploads \/ ClearFinished
  BY <1>1, <1>7 DEF ResumeAllUploads, ClearFinished
<1>8. ASSUME NEW S \in Selections, HaltSelected(S) \/ ResumeSelected(S) \/ CancelSelected(S)
      PROVE  \E calls : Handler(calls)
  BY <1>8 DEF HaltSelected, ResumeSelected, CancelSelected
<1> QED
  BY <1>1, <1>2, <1>3, <1>4, <1>5, <1>6, <1>7, <1>8 DEF UserCommand

\* The filling loop pays for the session it starts out of what it had left; the
\* other direction is not touched.
LEMMA StartNextWithinLimit ==
  ASSUME NEW d \in Directions, IInv, StartNext
  PROVE  \/ ActiveSessions(d)' \subseteq ActiveSessions(d)
         \/ Cardinality(ActiveSessions(d)') <= opt.max[d]
<1>1. Doing("loop") /\ UNCHANGED windowVars
  BY DEF StartNext
<1>2. Head(todo) \in LoopCalls /\ Fits(Head(todo))
  BY <1>1, DoingLoop DEF IInv
<1>3. PICK i \in DOMAIN list : BeginTransfer(list[i]) /\ dir[list[i]] = Head(todo).d
  BY DEF StartNext, Candidates, Startable
<1>4. PICK s : s = list[i]
  OBVIOUS
<1>5. BeginTransfer(s) /\ dir[s] = Head(todo).d
  BY <1>3, <1>4
<1>6. CASE d = Head(todo).d
  <2>1. PICK left \in Nat \ {0} : left = Head(todo).left
    BY <1>2, LoopOps
  <2>2. Cardinality(ActiveSessions(d)) + left <= opt.max[d]
    BY <1>2, <1>6, <2>1 DEF Fits
  <2>3. /\ Cardinality(ActiveSessions(d)') \in Nat
        /\ Cardinality(ActiveSessions(d)') <= Cardinality(ActiveSessions(d)) + 1
    BY <1>1, <1>5, BeginCard DEF IInv
  <2>4. opt.max[d] \in Nat /\ Cardinality(ActiveSessions(d)) \in Nat
    BY ActiveFinite, LimitsAssumption DEF IInv, WindowTypeOK, Settings
  <2> QED
    BY <2>1, <2>2, <2>3, <2>4
<1>7. CASE d # Head(todo).d
  <2>1. ActiveSessions(d)' \subseteq ActiveSessions(d) \cup {s}
    BY <1>1, <1>5, BeginActive
  <2>2. dir'[s] # d
    BY <1>5, <1>7, BeginFacts
  <2>3. s \notin ActiveSessions(d)'
    BY <2>2 DEF ActiveSessions
  <2> QED
    BY <2>1, <2>3
<1> QED
  BY <1>6, <1>7

LEMMA NextWithinLimit ==
  ASSUME NEW d \in Directions, IInv, Next
  PROVE  \/ ActiveSessions(d)' \subseteq ActiveSessions(d)
         \/ Cardinality(ActiveSessions(d)') <= opt.max[d]
         \/ Doing("resume")
<1>1. CASE StartNext
  BY <1>1, StartNextWithinLimit
<1>2. CASE ResumeNext
  BY <1>2 DEF ResumeNext
<1> QED
  BY <1>1, <1>2, StepShrinks, ArrivalShrinks, EventShrinks, NoticeShrinks, UserCommandShrinks
  DEF Next, Step

\* DequeueTransferSessions() never starts a transfer beyond the "Max Simultaneous"
\* limits: although the free slots are counted once, and the loop that fills them
\* runs inside other calls and with commands and disconnections in between handlers,
\* nobody else can take a slot while it runs.
THEOREM QueueStartsWithinLimit == Spec => StartsWithinLimit
<1>1. IInv /\ [Next]_vars =>
        [\A d \in Directions :
           \/ ActiveSessions(d)' \subseteq ActiveSessions(d)
           \/ Cardinality(ActiveSessions(d)') <= opt.max[d]
           \/ Doing("resume")]_vars
  BY NextWithinLimit
<1> QED
  BY <1>1, InvHolds, PTL DEF Spec, StartsWithinLimit
=============================================================================
