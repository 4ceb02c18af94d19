------------------------ MODULE TransferSlots_proofs ------------------------
(***************************************************************************)
(* The slots of the transfer list are neither lost nor left unwatched nor  *)
(* kept idle while somebody waits for them, the sort leaves nobody halted  *)
(* and sessions that are over are removed once, for any number of          *)
(* sessions, users, files and limits and for every mix of commands.        *)
(***************************************************************************)
EXTENDS TransferQueue_proofs

\* Sessions with a connection, or with one on its way.
Linked == connecting \cup connected \cup accepting

\* A session that is not over has a transceiver, whose thread runs exactly if there is
\* a connection or one on its way; until it is started the session is queued.
LiveSession(s) ==
  /\ s \in finished <=> mtt[s] = "none"
  /\ s \in Linked <=> mtt[s] = "running"
  /\ mtt[s] = "idle" => s \in waiting

\* Nothing is known of sessions that are not created yet.
FreshOK == fresh \cap (Alive \cup Linked \cup finished) = {}

SlotInv == IInv /\ FreshOK /\ \A s \in Alive : LiveSession(s)

LEMMA SlotInvLive == SlotInv => SlotsAreLive
<1> SUFFICES ASSUME SlotInv PROVE SlotsAreLive
  OBVIOUS
<1>1. \A s \in Alive : LiveSession(s) /\ mtt[s] \in {"none", "idle", "running"}
  BY UploadsAreSessions DEF SlotInv, IInv, SessionTypeOK
<1> QED
  BY <1>1 DEF SlotsAreLive, LiveSession, IsActive, Linked

LEMMA InitSlot == Init => SlotInv
<1> SUFFICES ASSUME Init PROVE SlotInv
  OBVIOUS
<1>1. IInv
  BY InitInv
<1>2. Alive = {}
  BY DEF Init, Alive, Range
<1> QED
  BY <1>1, <1>2 DEF Init, SlotInv, FreshOK, Linked

-----------------------------------------------------------------------------
(* What an operation of one session does to it and to the others *)

\* A session about which nothing changes.
Same(x) ==
  /\ mtt'[x] = mtt[x]
  /\ x \in finished' <=> x \in finished
  /\ x \in Linked' <=> x \in Linked
  /\ x \in waiting => x \in waiting'

LEMMA SameLive ==
  ASSUME NEW x, LiveSession(x), Same(x)
  PROVE  LiveSession(x)'
BY DEF LiveSession, Same

\* A session that is over.
LEMMA OverLive ==
  ASSUME NEW s \in Sessions, mtt'[s] = "none", s \in finished', s \notin Linked'
  PROVE  LiveSession(s)'
BY DEF LiveSession

\* An operation of s, on a list that nobody joins.
LEMMA OneStep ==
  ASSUME SlotInv, IInv', NEW s \in Alive, LiveSession(s)', \A x \in Sessions \ {s} : Same(x),
         Alive' \subseteq Alive, fresh' = fresh
  PROVE  SlotInv'
<1>1. Alive \subseteq Sessions /\ fresh \subseteq Sessions
  BY UploadsAreSessions DEF SlotInv, IInv, WindowTypeOK
<1>2. \A x \in Alive' : LiveSession(x)'
  <2> TAKE x \in Alive'
  <2>1. CASE x = s
    BY <2>1
  <2>2. CASE x # s
    <3>1. LiveSession(x) /\ Same(x)
      BY <1>1, <2>2 DEF SlotInv
    <3> QED
      BY <3>1, SameLive
  <2> QED
    BY <2>1, <2>2
<1>3. FreshOK'
  BY <1>1 DEF SlotInv, FreshOK, Same
<1> QED
  BY <1>2, <1>3 DEF SlotInv

\* A step that changes no connection.
LEMMA NoStep ==
  ASSUME SlotInv, IInv', UNCHANGED <<mtt, finished, connecting, connected, accepting>>,
         Alive' \subseteq Alive, waiting \subseteq waiting', fresh' = fresh
  PROVE  SlotInv'
<1>1. \A x \in Alive' : LiveSession(x)'
  <2> TAKE x \in Alive'
  <2> QED
    BY SameLive DEF SlotInv, Same, Linked
<1>2. FreshOK'
  BY DEF SlotInv, FreshOK, Linked
<1> QED
  BY <1>1, <1>2 DEF SlotInv

\* AbortSession() ends it.
LEMMA AbortLive ==
  ASSUME SessionTypeOK, NEW s \in Sessions, NEW error \in BOOLEAN, AbortSession(s, error)
  PROVE  LiveSession(s)' /\ \A x \in Sessions \ {s} : Same(x)
<1>1. mtt' = [mtt EXCEPT ![s] = "none"]
  BY DEF AbortSession
<1>2. mtt'[s] = "none" /\ \A x \in Sessions \ {s} : mtt'[x] = mtt[x]
  BY <1>1 DEF SessionTypeOK
<1>3. s \in finished' /\ s \notin Linked'
  BY DEF AbortSession, Linked
<1>4. \A x \in Sessions \ {s} : Same(x)
  BY <1>2 DEF AbortSession, Linked, Same
<1> QED
  BY <1>2, <1>3, <1>4, OverLive

\* DoUpload() ends it or leaves its connection alone.
LEMMA DoUploadLive ==
  ASSUME SessionTypeOK, NEW s \in Sessions, LiveSession(s), DoUpload(s), mtt[s] # "idle"
  PROVE  LiveSession(s)' /\ \A x \in Sessions \ {s} : Same(x)
<1>1. CASE AbortSession(s, TRUE)
  BY <1>1, AbortLive
<1>2. CASE ~AbortSession(s, TRUE)
  <2>1. waiting' = waiting \ {s} /\ UNCHANGED <<linkVars, outcomeVars>>
    BY <1>2 DEF DoUpload
  <2> QED
    BY <2>1 DEF linkVars, outcomeVars, LiveSession, Linked, Same
<1> QED
  BY <1>1, <1>2

\* BeginTransfer() starts the thread of a session that has not been connected, and has
\* otherwise a thread that runs.
LEMMA BeginLive ==
  ASSUME SessionTypeOK, NEW s \in Sessions, LiveSession(s), BeginTransfer(s)
  PROVE  LiveSession(s)' /\ \A x \in Sessions \ {s} : Same(x)
<1>0. mtt[s] \in {"none", "idle", "running"}
  BY DEF SessionTypeOK
<1>1. CASE UNCHANGED <<peerVars, linkVars, outcomeVars, uploadVars, waiting, halted, removing>>
  BY <1>1 DEF linkVars, outcomeVars, LiveSession, Linked, Same
<1>2. CASE s \in connected /\ DoUpload(s)
  <2>1. mtt[s] # "idle"
    BY <1>2 DEF LiveSession, Linked
  <2> QED
    BY <1>2, <2>1, DoUploadLive
<1>3. CASE s \in Linked /\ LeaveQueue(s) /\ UNCHANGED <<mtt, connecting>>
  BY <1>3 DEF LeaveQueue, outcomeVars, LiveSession, Linked, Same
<1>4. CASE /\ LeaveQueue(s) /\ mtt[s] = "idle"
           /\ mtt' = [mtt EXCEPT ![s] = "running"]
           /\ connecting' = connecting \cup {s}
  <2>1. mtt'[s] = "running" /\ \A x \in Sessions \ {s} : mtt'[x] = mtt[x]
    BY <1>4 DEF SessionTypeOK
  <2>2. s \notin finished
    BY <1>4 DEF LiveSession
  <2> QED
    BY <1>4, <2>1, <2>2 DEF LeaveQueue, outcomeVars, LiveSession, Linked, Same
<1>5. CASE LeaveQueue(s) /\ mtt[s] # "idle" /\ UNCHANGED <<mtt, connecting>>
  BY <1>0, <1>5 DEF LeaveQueue, outcomeVars, LiveSession, Linked, Same
<1> QED
  BY <1>1, <1>2, <1>3, <1>4, <1>5 DEF BeginTransfer, Begin, Linked

\* RestartSession() makes a new transceiver, whose thread runs if it waits for the peer.
LEMMA RestartLive ==
  ASSUME SessionTypeOK, NEW s \in Sessions, RestartSession(s)
  PROVE  LiveSession(s)' /\ \A x \in Sessions \ {s} : Same(x)
<1>1. mtt' = [mtt EXCEPT ![s] = IF s \in hasHost THEN "idle" ELSE "running"]
  BY DEF RestartSession
<1>2. /\ mtt'[s] = IF s \in hasHost THEN "idle" ELSE "running"
      /\ \A x \in Sessions \ {s} : mtt'[x] = mtt[x]
  BY <1>1 DEF SessionTypeOK
<1>3. LiveSession(s)'
  BY <1>2 DEF RestartSession, LiveSession, Linked
<1>4. \A x \in Sessions \ {s} : Same(x)
  BY <1>2 DEF RestartSession, Linked, Same
<1> QED
  BY <1>3, <1>4

-----------------------------------------------------------------------------
(* The steps of a handler *)

\* The sessions of a call that are visited are in the list.
LEMMA VisitedAlive ==
  ASSUME NEW s, NEW S, IsTop(s, S) \/ IsBottom(s, S)
  PROVE  s \in Alive
BY DEF IsTop, IsBottom, Alive, Range

\* An operation of a session in the list, while the list stays as it is.
LEMMA SessionStep ==
  ASSUME SlotInv, IInv', NEW s \in Alive, UNCHANGED windowVars,
         LiveSession(s)' /\ \A x \in Sessions \ {s} : Same(x)
  PROVE  SlotInv'
<1>1. Alive' = Alive /\ fresh' = fresh
  BY SameAlive DEF windowVars
<1> QED
  BY <1>1, OneStep

LEMMA StageSlot ==
  ASSUME SlotInv, IInv', DequeueTransferSessions \/ CountSlots \/ NothingToStart
  PROVE  SlotInv'
<1>1. Alive' = Alive /\ fresh' = fresh
  BY SameAlive DEF DequeueTransferSessions, CountSlots, NothingToStart, windowVars
<1>2. UNCHANGED <<mtt, finished, connecting, connected, accepting>> /\ waiting \subseteq waiting'
  BY DEF DequeueTransferSessions, CountSlots, NothingToStart, RequeueTransfer, sessionVars,
         linkVars, outcomeVars
<1> QED
  BY <1>1, <1>2, NoStep

LEMMA ReorderSlot ==
  ASSUME SlotInv, IInv', ReorderUploads
  PROVE  SlotInv'
<1>1. list' \in [DOMAIN list -> Alive]
  BY DEF ReorderUploads
<1>2. Alive' \subseteq Alive /\ fresh' = fresh
  BY <1>1 DEF ReorderUploads, Alive, Range
<1>3. UNCHANGED <<mtt, finished, connecting, connected, accepting, waiting>>
  BY DEF ReorderUploads, linkVars, outcomeVars
<1> QED
  BY <1>2, <1>3, NoStep

LEMMA StartSlot ==
  ASSUME SlotInv, IInv', StartNext
  PROVE  SlotInv'
<1>1. PICK i \in DOMAIN list : BeginTransfer(list[i])
  BY DEF StartNext, Candidates
<1>2. PICK s \in Alive : s = list[i]
  BY DEF Alive, Range
<1>3. s \in Sessions /\ LiveSession(s) /\ BeginTransfer(s)
  BY <1>1, <1>2, UploadsAreSessions DEF SlotInv, IInv
<1>4. LiveSession(s)' /\ \A x \in Sessions \ {s} : Same(x)
  BY <1>3, BeginLive DEF SlotInv, IInv
<1> QED
  BY <1>4, SessionStep DEF StartNext

LEMMA AbortSlot ==
  ASSUME SlotInv, IInv', AbortNext
  PROVE  SlotInv'
<1>1. PICK s \in Alive : AbortSession(s, TRUE)
  BY VisitedAlive DEF AbortNext
<1>2. LiveSession(s)' /\ \A x \in Sessions \ {s} : Same(x)
  BY <1>1, AbortLive, UploadsAreSessions DEF SlotInv, IInv
<1> QED
  BY <1>2, SessionStep DEF AbortNext

LEMMA RestartSlot ==
  ASSUME SlotInv, IInv', RestartNext
  PROVE  SlotInv'
<1>1. PICK s \in Alive : RestartSession(s)
  BY VisitedAlive DEF RestartNext
<1>2. LiveSession(s)' /\ \A x \in Sessions \ {s} : Same(x)
  BY <1>1, RestartLive, UploadsAreSessions DEF SlotInv, IInv
<1> QED
  BY <1>2, SessionStep DEF RestartNext

LEMMA HaltSlot ==
  ASSUME SlotInv, IInv', HaltNext
  PROVE  SlotInv'
<1>1. PICK s \in Alive : \/ /\ RequeueTransfer({s} \ waiting)
                            /\ UNCHANGED <<linkVars, outcomeVars>>
                         \/ AbortSession(s, TRUE)
  BY VisitedAlive DEF HaltNext
<1>2. CASE AbortSession(s, TRUE)
  <2>1. LiveSession(s)' /\ \A x \in Sessions \ {s} : Same(x)
    BY <1>2, AbortLive, UploadsAreSessions DEF SlotInv, IInv
  <2> QED
    BY <2>1, SessionStep DEF HaltNext
<1>3. CASE RequeueTransfer({s} \ waiting) /\ UNCHANGED <<linkVars, outcomeVars>>
  <2>1. Alive' = Alive /\ fresh' = fresh
    BY SameAlive DEF HaltNext, windowVars
  <2>2. UNCHANGED <<mtt, finished, connecting, connected, accepting>>
        /\ waiting \subseteq waiting'
    BY <1>3 DEF RequeueTransfer, linkVars, outcomeVars
  <2> QED
    BY <2>1, <2>2, NoStep
<1> QED
  BY <1>1, <1>2, <1>3

LEMMA ResumeSlot ==
  ASSUME SlotInv, IInv', ResumeNext
  PROVE  SlotInv'
<1>1. PICK s \in Alive : \/ BeginTransfer(s)
                         \/ RestartSession(s)
                         \/ UNCHANGED <<linkVars, outcomeVars, waiting>>
  BY VisitedAlive DEF ResumeNext
<1>2. s \in Sessions /\ LiveSession(s)
  BY UploadsAreSessions DEF SlotInv, IInv
<1>3. CASE BeginTransfer(s) \/ RestartSession(s)
  <2>1. LiveSession(s)' /\ \A x \in Sessions \ {s} : Same(x)
    BY <1>2, <1>3, BeginLive, RestartLive DEF SlotInv, IInv
  <2> QED
    BY <2>1, SessionStep DEF ResumeNext
<1>4. CASE UNCHANGED <<linkVars, outcomeVars, waiting>>
  <2>1. Alive' = Alive /\ fresh' = fresh
    BY SameAlive DEF ResumeNext, windowVars
  <2>2. UNCHANGED <<mtt, finished, connecting, connected, accepting, waiting>>
    BY <1>4 DEF linkVars, outcomeVars
  <2> QED
    BY <2>1, <2>2, NoStep
<1> QED
  BY <1>1, <1>3, <1>4

LEMMA UploadSlot ==
  ASSUME SlotInv, IInv', UploadNext
  PROVE  SlotInv'
<1>1. PICK s \in Alive : \/ UNCHANGED sessionVars
                         \/ s \notin waiting /\ DoUpload(s)
  BY VisitedAlive DEF UploadNext
<1>2. s \in Sessions /\ LiveSession(s)
  BY UploadsAreSessions DEF SlotInv, IInv
<1>3. CASE s \notin waiting /\ DoUpload(s)
  <2>1. mtt[s] # "idle"
    BY <1>2, <1>3 DEF LiveSession
  <2>2. LiveSession(s)' /\ \A x \in Sessions \ {s} : Same(x)
    BY <1>2, <1>3, <2>1, DoUploadLive DEF SlotInv, IInv
  <2> QED
    BY <2>2, SessionStep DEF UploadNext
<1>4. CASE UNCHANGED sessionVars
  <2>1. Alive' = Alive /\ fresh' = fresh
    BY SameAlive DEF UploadNext, windowVars
  <2>2. UNCHANGED <<mtt, finished, connecting, connected, accepting, waiting>>
    BY <1>4 DEF sessionVars, linkVars, outcomeVars
  <2> QED
    BY <2>1, <2>2, NoStep
<1> QED
  BY <1>1, <1>3, <1>4

LEMMA DeleteSlot ==
  ASSUME SlotInv, IInv', DeleteNext
  PROVE  SlotInv'
<1>1. PICK s \in Alive, i \in DOMAIN list :
        /\ list' = RemoveAt(list, i)
        /\ mtt' = [mtt EXCEPT ![s] = "none"]
        /\ waiting' = waiting \ {s}
        /\ accepting' = accepting \ {s} /\ connecting' = connecting \ {s}
        /\ connected' = connected \ {s} /\ finished' = finished \cup {s}
  BY VisitedAlive DEF DeleteNext
<1>2. s \in Sessions
  BY UploadsAreSessions DEF SlotInv, IInv
<1>3. Alive' \subseteq Alive
  <2>1. Range(RemoveAt(list, i)) \subseteq Range(list)
    BY RemoveAtRange DEF SlotInv, IInv, WindowTypeOK
  <2> QED
    BY <1>1, <2>1 DEF Alive
<1>4. mtt'[s] = "none" /\ \A x \in Sessions \ {s} : mtt'[x] = mtt[x]
  BY <1>1, <1>2 DEF SlotInv, IInv, SessionTypeOK
<1>5. LiveSession(s)'
  BY <1>1, <1>2, <1>4, OverLive DEF Linked
<1>6. \A x \in Sessions \ {s} : Same(x)
  BY <1>1, <1>4 DEF Same, Linked
<1> QED
  BY <1>3, <1>5, <1>6, OneStep DEF DeleteNext

-----------------------------------------------------------------------------
(* Handlers *)

LEMMA ArrivalSlot ==
  ASSUME SlotInv, IInv', Arrival
  PROVE  SlotInv'
<1>1. PICK s \in Sessions :
        /\ s \in fresh /\ fresh' = fresh \ {s} /\ list' = Append(list, s)
        /\ waiting' = waiting \cup {s} /\ finished' = finished /\ connecting' = connecting
        /\ \/ /\ mtt' = [mtt EXCEPT ![s] = "idle"]
              /\ UNCHANGED <<accepting, connected>>
           \/ /\ mtt' = [mtt EXCEPT ![s] = "running"]
              /\ \/ accepting' = accepting \cup {s} /\ connected' = connected
                 \/ connected' = connected \cup {s} /\ accepting' = accepting
  BY DEF Arrival, SocketAccepted, ConnectBackRequestReceived, RequestDownload,
         RequestCallback, NewSession, outcomeVars
<1>2. Alive' \subseteq Alive \cup {s} /\ Alive \subseteq Sessions /\ fresh \subseteq Sessions
  BY <1>1, UploadsAreSessions DEF Alive, Range, SlotInv, IInv, WindowTypeOK
<1>3. s \notin finished \cup Linked
  BY <1>1 DEF SlotInv, FreshOK
<1>4. mtt'[s] \in {"idle", "running"} /\ \A x \in Sessions \ {s} : mtt'[x] = mtt[x]
  BY <1>1 DEF SlotInv, IInv, SessionTypeOK
<1>5. LiveSession(s)'
  <2>1. CASE mtt' = [mtt EXCEPT ![s] = "idle"] /\ UNCHANGED <<accepting, connected>>
    <3>1. mtt'[s] = "idle"
      BY <2>1 DEF SlotInv, IInv, SessionTypeOK
    <3> QED
      BY <1>1, <1>3, <2>1, <3>1 DEF LiveSession, Linked
  <2>2. CASE mtt' = [mtt EXCEPT ![s] = "running"] /\ s \in accepting' \cup connected'
    <3>1. mtt'[s] = "running"
      BY <2>2 DEF SlotInv, IInv, SessionTypeOK
    <3> QED
      BY <1>1, <1>3, <2>2, <3>1 DEF LiveSession, Linked
  <2> QED
    BY <1>1, <2>1, <2>2
<1>6. \A x \in Sessions \ {s} : Same(x)
  BY <1>1, <1>4 DEF Same, Linked
<1>7. \A x \in Alive' : LiveSession(x)'
  <2> TAKE x \in Alive'
  <2>1. CASE x = s
    BY <1>5, <2>1
  <2>2. CASE x # s
    <3>1. LiveSession(x) /\ Same(x)
      BY <1>2, <1>6, <2>2 DEF SlotInv
    <3> QED
      BY <3>1, SameLive
  <2> QED
    BY <2>1, <2>2
<1>8. FreshOK'
  BY <1>1, <1>2, <1>6 DEF SlotInv, FreshOK, Same
<1> QED
  BY <1>7, <1>8 DEF SlotInv

LEMMA EventSlot ==
  ASSUME SlotInv, IInv', Event
  PROVE  SlotInv'
<1>1. PICK s \in Alive :
        \/ Connected(s) \/ Disconnected(s) \/ BadMessage(s) \/ Rejected(s)
        \/ Md5SendDone(s) \/ FileData(s) \/ Drained(s)
        \/ \E u \in Users : PeerId(s, u) \/ FileList(s, u)
        \/ \E n \in 1..MaxFiles : Md5RecvDone(s, n)
  BY DEF Event
<1>2. UNCHANGED windowVars
  BY <1>1 DEF Connected, Disconnected, BadMessage, Rejected, Md5SendDone, FileData, Drained,
              PeerId, FileList, Md5RecvDone
<1>3. Alive' = Alive /\ fresh' = fresh
  BY <1>2, SameAlive DEF windowVars
<1>4. s \in Sessions /\ LiveSession(s)
  BY UploadsAreSessions DEF SlotInv, IInv
<1>5. CASE Connected(s)
  <2>1. /\ connecting' = connecting \ {s} /\ connected' = connected \cup {s}
        /\ mtt[s] = "running" /\ UNCHANGED <<accepting, mtt, outcomeVars, waiting>>
    BY <1>5 DEF Connected
  <2>2. LiveSession(s)'
    BY <1>4, <2>1 DEF LiveSession, Linked, outcomeVars
  <2>3. \A x \in Sessions \ {s} : Same(x)
    BY <2>1 DEF Same, Linked, outcomeVars
  <2> QED
    BY <1>2, <2>2, <2>3, SessionStep
<1>6. CASE Disconnected(s)
  <2>1. /\ finished' = finished \cup {s} /\ connecting' = connecting \ {s}
        /\ connected' = connected \ {s} /\ accepting' = accepting \ {s}
        /\ waiting' = waiting \ {s} /\ mtt' = [mtt EXCEPT ![s] = "none"]
    BY <1>6 DEF Disconnected
  <2>2. mtt'[s] = "none" /\ \A x \in Sessions \ {s} : mtt'[x] = mtt[x]
    BY <1>4, <2>1 DEF SlotInv, IInv, SessionTypeOK
  <2>3. LiveSession(s)'
    BY <1>4, <2>1, <2>2, OverLive DEF Linked
  <2>4. \A x \in Sessions \ {s} : Same(x)
    BY <2>1, <2>2 DEF Same, Linked
  <2> QED
    BY <1>2, <2>3, <2>4, SessionStep
<1>7. CASE AbortSession(s, FALSE)
  <2>1. LiveSession(s)' /\ \A x \in Sessions \ {s} : Same(x)
    BY <1>4, <1>7, AbortLive DEF SlotInv, IInv
  <2> QED
    BY <1>2, <2>1, SessionStep
<1>8. CASE UNCHANGED <<mtt, finished, connecting, connected, accepting, waiting>>
  BY <1>3, <1>8, NoStep
<1>9. ASSUME Drained(s), ~AbortSession(s, FALSE)
      PROVE  UNCHANGED <<mtt, finished, connecting, connected, accepting, waiting>>
  BY <1>9 DEF Drained, linkVars, outcomeVars
<1>10. ASSUME \/ BadMessage(s) \/ Rejected(s)
       PROVE  UNCHANGED <<mtt, finished, connecting, connected, accepting, waiting>>
  BY <1>10 DEF BadMessage, Rejected, sessionVars, linkVars, outcomeVars
<1>11. ASSUME \/ Md5SendDone(s) \/ FileData(s)
              \/ \E u \in Users : PeerId(s, u) \/ FileList(s, u)
              \/ \E n \in 1..MaxFiles : Md5RecvDone(s, n)
       PROVE  UNCHANGED <<mtt, finished, connecting, connected, accepting, waiting>>
  BY <1>11 DEF Md5SendDone, FileData, PeerId, FileList, Md5RecvDone, linkVars, outcomeVars
<1> QED
  BY <1>1, <1>5, <1>6, <1>7, <1>8, <1>9, <1>10, <1>11

LEMMA HandlerSlot ==
  ASSUME SlotInv, IInv', Notice \/ UserCommand
  PROVE  SlotInv'
<1>1. ASSUME UNCHANGED <<list, fresh, sessionVars>>
      PROVE  SlotInv'
  <2>1. Alive' = Alive
    BY <1>1, SameAlive
  <2>2. UNCHANGED <<mtt, finished, connecting, connected, accepting, waiting>>
    BY <1>1 DEF sessionVars, linkVars, outcomeVars
  <2> QED
    BY <1>1, <2>1, <2>2, NoStep
<1>2. ASSUME NEW calls, Handler(calls)
      PROVE  UNCHANGED <<list, fresh, sessionVars>>
  BY <1>2 DEF Handler, windowVars
<1>3. CASE Notice
  <2>1. CASE ScanStarts \/ SharesScanComplete
    <3>1. Alive' = Alive
      BY <2>1, SameAlive DEF ScanStarts, SharesScanComplete
    <3>2. UNCHANGED <<fresh, mtt, finished, connecting, connected, accepting, waiting>>
      BY <2>1 DEF ScanStarts, SharesScanComplete, sessionVars, linkVars, outcomeVars
    <3> QED
      BY <3>1, <3>2, NoStep
  <2>2. CASE RemoveSession
    BY <1>1, <2>2 DEF RemoveSession
  <2>3. CASE \/ \E u \in Users : TransferCallbackRejected(u) \/ RemoveUser(u)
                                 \/ RestartDownloadsFor(u)
             \/ \E expired \in SUBSET Sessions : CheckForMoribundConnections(expired)
    BY <1>1, <1>2, <2>3 DEF TransferCallbackRejected, RemoveUser, RestartDownloadsFor,
                            CheckForMoribundConnections
  <2> QED
    BY <1>3, <2>1, <2>2, <2>3 DEF Notice
<1>4. CASE UserCommand
  <2>1. CASE PauseAllUploads
    <3>1. Alive' = Alive /\ fresh' = fresh
      BY <2>1, SameAlive DEF PauseAllUploads, windowVars
    <3>2. UNCHANGED <<mtt, finished, connecting, connected, accepting>>
          /\ waiting \subseteq waiting'
      BY <2>1 DEF PauseAllUploads, RequeueTransfer, linkVars, outcomeVars
    <3> QED
      BY <3>1, <3>2, NoStep
  <2>2. ASSUME NEW i \in DOMAIN list, NEW j \in DOMAIN list, MoveSelected(i, j)
        PROVE  SlotInv'
    <3>1. Alive' \subseteq Alive
      BY <2>2, MoveType DEF Alive, SlotInv, IInv, WindowTypeOK
    <3>2. UNCHANGED <<fresh, mtt, finished, connecting, connected, accepting, waiting>>
      BY <2>2 DEF MoveSelected, sessionVars, linkVars, outcomeVars
    <3> QED
      BY <3>1, <3>2, NoStep
  <2>3. ASSUME NEW e \in Directions, NEW n \in Limits, SetLimit(e, n) \/ SetPerUserLimit(e, n)
        PROVE  UNCHANGED <<list, fresh, sessionVars>>
    BY <2>3 DEF SetLimit, SetPerUserLimit
  <2>4. ASSUME ToggleShortestUploadsFirst \/ ToggleAutoClear
        PROVE  UNCHANGED <<list, fresh, sessionVars>>
    BY <2>4 DEF ToggleShortestUploadsFirst, ToggleAutoClear
  <2>5. ASSUME ResumeAllUploads \/ ClearFinished
        PROVE  UNCHANGED <<list, fresh, sessionVars>>
    BY <1>2, <2>5 DEF ResumeAllUploads, ClearFinished
  <2>6. ASSUME NEW S \in Selections, HaltSelected(S) \/ ResumeSelected(S) \/ CancelSelected(S)
        PROVE  UNCHANGED <<list, fresh, sessionVars>>
    BY <1>2, <2>6 DEF HaltSelected, ResumeSelected, CancelSelected
  <2> QED
    BY <1>1, <1>4, <2>1, <2>2, <2>3, <2>4, <2>5, <2>6 DEF UserCommand
<1> QED
  BY <1>3, <1>4

LEMMA StutterSlot ==
  ASSUME SlotInv, IInv', UNCHANGED vars
  PROVE  SlotInv'
<1>1. Alive' = Alive
  BY SameAlive DEF vars, windowVars
<1>2. UNCHANGED <<fresh, mtt, finished, connecting, connected, accepting, waiting>>
  BY DEF vars, windowVars, sessionVars, linkVars, outcomeVars
<1> QED
  BY <1>1, <1>2, NoStep

LEMMA NextSlot == SlotInv /\ [Next]_vars => SlotInv'
<1> SUFFICES ASSUME SlotInv, [Next]_vars PROVE SlotInv'
  OBVIOUS
<1>1. IInv'
  BY NextInv DEF SlotInv
<1> QED
  BY <1>1, StageSlot, ReorderSlot, StartSlot, AbortSlot, RestartSlot, HaltSlot, ResumeSlot,
     UploadSlot, DeleteSlot, ArrivalSlot, EventSlot, HandlerSlot, StutterSlot DEF Next, Step

\* No slot is lost for ever: a session that holds one has a transceiver thread that runs
\* and is connected or will be, so that something can end it, and a session that is over
\* has none, whatever order the connections, failures, restarts and the user's halting,
\* resuming and deleting come in.
THEOREM SlotsAreLiveHolds == Spec => []SlotsAreLive
<1>1. Spec => []SlotInv
  BY InitSlot, NextSlot, PTL DEF Spec
<1> QED
  BY <1>1, SlotInvLive, PTL

-----------------------------------------------------------------------------
(* The moribund check *)

\* A session that needs no watching, or is watched, or will be again when our own MD5
\* thread or scan is done.
Watched(s) == dir[s] = "down" \/ s \in waiting \cup finished \cup ticking \cup hashing \cup saved

WatchInv == IInv /\ \A s \in Alive : Watched(s)

LEMMA WatchInvWatched == WatchInv => ActiveUploadIsWatched
BY DEF WatchInv, Watched, ActiveUploadIsWatched, ActiveSessions, IsActive

LEMMA InitWatch == Init => WatchInv
<1> SUFFICES ASSUME Init PROVE WatchInv
  OBVIOUS
<1>1. IInv
  BY InitInv
<1>2. Alive = {}
  BY DEF Init, Alive, Range
<1> QED
  BY <1>1, <1>2 DEF WatchInv

\* A session that is watched as before.
SameWatch(x) ==
  /\ dir'[x] = dir[x]
  /\ x \in waiting \cup finished \cup ticking \cup hashing \cup saved =>
       x \in (waiting \cup finished \cup ticking \cup hashing \cup saved)'

LEMMA WatchStep ==
  ASSUME WatchInv, IInv', NEW s, Watched(s)', \A x \in Sessions \ {s} : SameWatch(x),
         Alive' \subseteq Alive \cup {s}
  PROVE  WatchInv'
<1>1. Alive \subseteq Sessions
  BY UploadsAreSessions DEF WatchInv, IInv
<1>2. \A x \in Alive' : Watched(x)'
  <2> TAKE x \in Alive'
  <2>1. CASE x = s
    BY <2>1
  <2>2. CASE x # s
    <3>1. Watched(x) /\ SameWatch(x)
      BY <1>1, <2>2 DEF WatchInv
    <3> QED
      BY <3>1 DEF Watched, SameWatch
  <2> QED
    BY <2>1, <2>2
<1> QED
  BY <1>2 DEF WatchInv

\* A step that ends no watch.
LEMMA WatchStays ==
  ASSUME WatchInv, IInv', UNCHANGED <<dir, finished>>, Alive' \subseteq Alive,
         waiting \cup ticking \cup hashing \cup saved
           \subseteq waiting' \cup ticking' \cup hashing' \cup saved'
  PROVE  WatchInv'
<1>1. \A x \in Alive' : Watched(x)'
  BY DEF WatchInv, Watched
<1> QED
  BY <1>1 DEF WatchInv

LEMMA AbortWatch ==
  ASSUME SessionTypeOK, NEW s \in Sessions, NEW error \in BOOLEAN, AbortSession(s, error),
         ticking \ {s} \subseteq ticking'
  PROVE  Watched(s)' /\ \A x \in Sessions \ {s} : SameWatch(x)
<1>1. /\ waiting' = waiting \ {s} /\ finished' = finished \cup {s}
      /\ UNCHANGED <<dir, hashing, saved>>
  BY DEF AbortSession, peerVars
<1> QED
  BY <1>1 DEF Watched, SameWatch

\* BeginTransfer() starts the clock.
LEMMA BeginWatch ==
  ASSUME SessionTypeOK, NEW s \in Sessions, BeginTransfer(s)
  PROVE  Watched(s)' /\ \A x \in Sessions \ {s} : SameWatch(x)
<1>1. dir[s] \in {"up", "down"}
  BY DEF SessionTypeOK, Directions
<1>2. Tick(s)
  BY DEF BeginTransfer
<1>3. dir' = dir /\ waiting \ {s} \subseteq waiting' /\ finished \subseteq finished'
  BY BeginFacts
<1>4. UNCHANGED <<hashing, saved>>
  BY DEF BeginTransfer, Begin, DoUpload, AbortSession, LeaveQueue, peerVars
<1>5. Watched(s)'
  BY <1>1, <1>2, <1>3 DEF Tick, Watched
<1>6. \A x \in Sessions \ {s} : SameWatch(x)
  BY <1>2, <1>3, <1>4 DEF Tick, SameWatch
<1> QED
  BY <1>5, <1>6

LEMMA RestartWatch ==
  ASSUME SessionTypeOK, NEW s \in Sessions, RestartSession(s)
  PROVE  Watched(s)' /\ \A x \in Sessions \ {s} : SameWatch(x)
<1>1. \A x \in Sessions \ {s} : dir'[x] = dir[x]
  BY DEF RestartSession, SessionTypeOK
<1>2. /\ waiting' = waiting \cup {s} /\ finished' = finished \ {s}
      /\ ticking' = ticking \ {s} /\ UNCHANGED <<hashing, saved>>
  BY DEF RestartSession
<1> QED
  BY <1>1, <1>2 DEF Watched, SameWatch

\* An operation of a session in the list, while the list stays as it is.
LEMMA SessionWatch ==
  ASSUME WatchInv, IInv', NEW s \in Alive, UNCHANGED windowVars,
         Watched(s)' /\ \A x \in Sessions \ {s} : SameWatch(x)
  PROVE  WatchInv'
<1>1. Alive' = Alive
  BY SameAlive DEF windowVars
<1> QED
  BY <1>1, WatchStep

LEMMA StepWatch ==
  ASSUME WatchInv, IInv', Step
  PROVE  WatchInv'
<1>0. SessionTypeOK /\ Alive \subseteq Sessions
  BY UploadsAreSessions DEF WatchInv, IInv
<1>1. CASE DequeueTransferSessions \/ CountSlots \/ NothingToStart
  <2>1. Alive' = Alive
    BY <1>1, SameAlive DEF DequeueTransferSessions, CountSlots, NothingToStart, windowVars
  <2>2. /\ UNCHANGED <<dir, finished, hashing, saved>>
        /\ waiting \cup ticking \subseteq waiting' \cup ticking'
    BY <1>1 DEF DequeueTransferSessions, CountSlots, NothingToStart, RequeueTransfer,
                sessionVars, peerVars, outcomeVars
  <2> QED
    BY <2>1, <2>2, WatchStays
<1>2. CASE ReorderUploads
  <2>1. list' \in [DOMAIN list -> Alive]
    BY <1>2 DEF ReorderUploads
  <2>2. Alive' \subseteq Alive
    BY <2>1 DEF Alive, Range
  <2>3. UNCHANGED <<dir, finished, hashing, saved, waiting, ticking>>
    BY <1>2 DEF ReorderUploads, peerVars, outcomeVars
  <2> QED
    BY <2>2, <2>3, WatchStays
<1>3. CASE StartNext
  <2>1. PICK i \in DOMAIN list : BeginTransfer(list[i])
    BY <1>3 DEF StartNext, Candidates
  <2>2. PICK s \in Alive : s = list[i]
    BY DEF Alive, Range
  <2>3. Watched(s)' /\ \A x \in Sessions \ {s} : SameWatch(x)
    BY <1>0, <2>1, <2>2, BeginWatch
  <2> QED
    BY <1>3, <2>3, SessionWatch DEF StartNext
<1>4. CASE AbortNext
  <2>1. PICK s \in Alive : AbortSession(s, TRUE) /\ ticking' = ticking \ {s}
    BY <1>4, VisitedAlive DEF AbortNext
  <2>2. Watched(s)' /\ \A x \in Sessions \ {s} : SameWatch(x)
    BY <1>0, <2>1, AbortWatch
  <2> QED
    BY <1>4, <2>2, SessionWatch DEF AbortNext
<1>5. CASE RestartNext
  <2>1. PICK s \in Alive : RestartSession(s)
    BY <1>5, VisitedAlive DEF RestartNext
  <2>2. Watched(s)' /\ \A x \in Sessions \ {s} : SameWatch(x)
    BY <1>0, <2>1, RestartWatch
  <2> QED
    BY <1>5, <2>2, SessionWatch DEF RestartNext
<1>6. CASE HaltNext
  <2>1. PICK s \in Alive : \/ /\ RequeueTransfer({s} \ waiting)
                              /\ UNCHANGED <<peerVars, outcomeVars>>
                           \/ AbortSession(s, TRUE) /\ ticking' = ticking \ {s}
    BY <1>6, VisitedAlive DEF HaltNext
  <2>2. CASE AbortSession(s, TRUE) /\ ticking' = ticking \ {s}
    <3>1. Watched(s)' /\ \A x \in Sessions \ {s} : SameWatch(x)
      BY <1>0, <2>2, AbortWatch
    <3> QED
      BY <1>6, <3>1, SessionWatch DEF HaltNext
  <2>3. CASE RequeueTransfer({s} \ waiting) /\ UNCHANGED <<peerVars, outcomeVars>>
    <3>1. Alive' = Alive
      BY <1>6, SameAlive DEF HaltNext, windowVars
    <3>2. /\ UNCHANGED <<dir, finished, hashing, saved>>
          /\ waiting \cup ticking \subseteq waiting' \cup ticking'
      BY <2>3 DEF RequeueTransfer, peerVars, outcomeVars
    <3> QED
      BY <3>1, <3>2, WatchStays
  <2> QED
    BY <2>1, <2>2, <2>3
<1>7. CASE ResumeNext
  <2>1. PICK s \in Alive : \/ BeginTransfer(s)
                           \/ RestartSession(s)
                           \/ UNCHANGED <<peerVars, outcomeVars, waiting, ticking>>
    BY <1>7, VisitedAlive DEF ResumeNext
  <2>2. CASE BeginTransfer(s) \/ RestartSession(s)
    <3>1. Watched(s)' /\ \A x \in Sessions \ {s} : SameWatch(x)
      BY <1>0, <2>2, BeginWatch, RestartWatch
    <3> QED
      BY <1>7, <3>1, SessionWatch DEF ResumeNext
  <2>3. CASE UNCHANGED <<peerVars, outcomeVars, waiting, ticking>>
    <3>1. Alive' = Alive
      BY <1>7, SameAlive DEF ResumeNext, windowVars
    <3>2. UNCHANGED <<dir, finished, hashing, saved, waiting, ticking>>
      BY <2>3 DEF peerVars, outcomeVars
    <3> QED
      BY <3>1, <3>2, WatchStays
  <2> QED
    BY <2>1, <2>2, <2>3
<1>8. CASE UploadNext
  <2>1. PICK s \in Alive :
          \/ UNCHANGED sessionVars
          \/ /\ s \notin waiting /\ DoUpload(s)
             /\ IF s \in finished' THEN ticking' = ticking \ {s}
                ELSE ticking' \in {ticking, ticking \cup {s}}
    BY <1>8, VisitedAlive DEF UploadNext
  <2>2. CASE UNCHANGED sessionVars
    <3>1. Alive' = Alive
      BY <1>8, SameAlive DEF UploadNext, windowVars
    <3>2. UNCHANGED <<dir, finished, hashing, saved, waiting, ticking>>
      BY <2>2 DEF sessionVars, peerVars, outcomeVars
    <3> QED
      BY <3>1, <3>2, WatchStays
  <2>3. CASE /\ s \notin waiting /\ DoUpload(s)
             /\ IF s \in finished' THEN ticking' = ticking \ {s}
                ELSE ticking' \in {ticking, ticking \cup {s}}
    <3>1. /\ UNCHANGED <<dir, hashing, saved>> /\ waiting' = waiting \ {s}
          /\ finished' \in {finished, finished \cup {s}}
      BY <2>3 DEF DoUpload, AbortSession, peerVars, outcomeVars
    <3>2. Watched(s)
      BY DEF WatchInv
    <3>3. Watched(s)'
      BY <2>3, <3>1, <3>2 DEF Watched
    <3>4. \A x \in Sessions \ {s} : SameWatch(x)
      BY <2>3, <3>1 DEF SameWatch
    <3> QED
      BY <1>8, <3>3, <3>4, SessionWatch DEF UploadNext
  <2> QED
    BY <2>1, <2>2, <2>3
<1>9. CASE DeleteNext
  <2>1. PICK s \in Alive, i \in DOMAIN list :
          /\ list' = RemoveAt(list, i)
          /\ dir' = [dir EXCEPT ![s] = "down"]
          /\ waiting' = waiting \ {s} /\ finished' = finished \cup {s}
          /\ ticking' = ticking \ {s} /\ saved' = saved \ {s} /\ hashing' = hashing \ {s}
    BY <1>9, VisitedAlive DEF DeleteNext
  <2>2. Alive' \subseteq Alive
    <3>1. Range(RemoveAt(list, i)) \subseteq Range(list)
      BY RemoveAtRange DEF WatchInv, IInv, WindowTypeOK
    <3> QED
      BY <2>1, <3>1 DEF Alive
  <2>3. \A x \in Sessions \ {s} : dir'[x] = dir[x]
    BY <1>0, <2>1 DEF SessionTypeOK
  <2>4. Watched(s)' /\ \A x \in Sessions \ {s} : SameWatch(x)
    BY <2>1, <2>3 DEF Watched, SameWatch
  <2> QED
    BY <2>2, <2>4, WatchStep
<1> QED
  BY <1>1, <1>2, <1>3, <1>4, <1>5, <1>6, <1>7, <1>8, <1>9 DEF Step

LEMMA ArrivalWatch ==
  ASSUME WatchInv, IInv', Arrival
  PROVE  WatchInv'
<1>1. PICK s \in Sessions, e \in Directions, u \in Users \cup {Anon}, n \in 0..MaxFiles :
        NewSession(s, e, u, n) /\ ticking \subseteq ticking'
  BY MaxFilesAssumption DEF Directions, Arrival, SocketAccepted, ConnectBackRequestReceived, RequestDownload, RequestCallback
<1>2. Alive' \subseteq Alive \cup {s}
  BY <1>1 DEF NewSession, Alive, Range, WatchInv, IInv, WindowTypeOK
<1>3. \A x \in Sessions \ {s} : dir'[x] = dir[x]
  BY <1>1 DEF NewSession, WatchInv, IInv, SessionTypeOK
<1>4. waiting' = waiting \cup {s} /\ UNCHANGED <<finished, hashing, saved>>
  BY <1>1 DEF NewSession, outcomeVars
<1>5. Watched(s)' /\ \A x \in Sessions \ {s} : SameWatch(x)
  BY <1>1, <1>3, <1>4 DEF Watched, SameWatch
<1> QED
  BY <1>2, <1>5, WatchStep

LEMMA EventWatch ==
  ASSUME WatchInv, IInv', Event
  PROVE  WatchInv'
<1>1. PICK s \in Alive :
        \/ Connected(s) \/ Disconnected(s) \/ BadMessage(s) \/ Rejected(s)
        \/ Md5SendDone(s) \/ FileData(s) \/ Drained(s)
        \/ \E u \in Users : PeerId(s, u) \/ FileList(s, u)
        \/ \E n \in 1..MaxFiles : Md5RecvDone(s, n)
  BY DEF Event
<1>2. UNCHANGED windowVars
  BY <1>1 DEF Connected, Disconnected, BadMessage, Rejected, Md5SendDone, FileData, Drained,
              PeerId, FileList, Md5RecvDone
<1>3. s \in Sessions /\ SessionTypeOK /\ Watched(s) /\ Alive' = Alive
  BY <1>2, UploadsAreSessions, SameAlive DEF WatchInv, IInv, windowVars
<1>4. CASE Connected(s)
  <2>1. /\ UNCHANGED <<dir, finished, waiting, saved>> /\ hashing \subseteq hashing'
        /\ ticking' = IF s \in waiting THEN ticking \ {s} ELSE ticking
    BY <1>4 DEF Connected, outcomeVars
  <2>2. Watched(s)' /\ \A x \in Sessions \ {s} : SameWatch(x)
    BY <1>3, <2>1 DEF Watched, SameWatch
  <2> QED
    BY <1>2, <2>2, SessionWatch
<1>5. CASE Disconnected(s)
  <2>1. /\ finished' = finished \cup {s} /\ waiting' = waiting \ {s}
        /\ ticking' = ticking \ {s} /\ UNCHANGED <<dir, hashing, saved>>
    BY <1>5 DEF Disconnected, peerVars
  <2>2. Watched(s)' /\ \A x \in Sessions \ {s} : SameWatch(x)
    BY <2>1 DEF Watched, SameWatch
  <2> QED
    BY <1>2, <2>2, SessionWatch
<1>6. CASE BadMessage(s) \/ Rejected(s) \/ FileData(s)
  <2>1. UNCHANGED <<dir, finished, waiting, ticking, hashing, saved>>
    BY <1>6 DEF BadMessage, Rejected, FileData, sessionVars, peerVars, outcomeVars
  <2> QED
    BY <1>3, <2>1, WatchStays
<1>7. CASE Drained(s)
  <2>1. CASE AbortSession(s, FALSE) /\ ticking' = ticking \ {s}
    <3>1. Watched(s)' /\ \A x \in Sessions \ {s} : SameWatch(x)
      BY <1>3, <2>1, AbortWatch
    <3> QED
      BY <1>2, <3>1, SessionWatch
  <2>2. CASE UNCHANGED <<peerVars, outcomeVars, waiting, ticking>>
    <3>1. UNCHANGED <<dir, finished, waiting, ticking, hashing, saved>>
      BY <2>2 DEF peerVars, outcomeVars
    <3> QED
      BY <1>3, <3>1, WatchStays
  <2> QED
    BY <1>7, <2>1, <2>2 DEF Drained
<1>8. CASE Md5SendDone(s)
  <2>1. /\ dir[s] = "down" /\ hashing' = hashing \ {s}
        /\ UNCHANGED <<dir, finished, waiting, ticking, saved>>
    BY <1>8 DEF Md5SendDone, outcomeVars
  <2>2. Watched(s)' /\ \A x \in Sessions \ {s} : SameWatch(x)
    BY <2>1 DEF Watched, SameWatch
  <2> QED
    BY <1>2, <2>2, SessionWatch
<1>9. ASSUME NEW u \in Users, PeerId(s, u) PROVE WatchInv'
  <2>1. /\ UNCHANGED <<dir, finished, waiting, hashing, saved>> /\ Tick(s) /\ dir[s] = "up"
    BY <1>9 DEF PeerId, outcomeVars
  <2>2. Watched(s)' /\ \A x \in Sessions \ {s} : SameWatch(x)
    BY <2>1 DEF Tick, Watched, SameWatch
  <2> QED
    BY <1>2, <2>2, SessionWatch
<1>10. ASSUME NEW u \in Users, FileList(s, u) PROVE WatchInv'
  <2>1. /\ UNCHANGED <<dir, finished, waiting>> /\ ticking' = ticking \ {s}
        /\ s \in hashing' \cup saved' /\ hashing \subseteq hashing' /\ saved \subseteq saved'
    BY <1>10 DEF FileList, outcomeVars
  <2>2. Watched(s)' /\ \A x \in Sessions \ {s} : SameWatch(x)
    BY <2>1 DEF Watched, SameWatch
  <2> QED
    BY <1>2, <2>2, SessionWatch
<1>11. ASSUME NEW n \in 1..MaxFiles, Md5RecvDone(s, n) PROVE WatchInv'
  <2>1. /\ UNCHANGED <<dir, finished, waiting, saved>> /\ hashing' = hashing \ {s}
        /\ Tick(s) /\ dir[s] = "up"
    BY <1>11 DEF Md5RecvDone, outcomeVars
  <2>2. Watched(s)' /\ \A x \in Sessions \ {s} : SameWatch(x)
    BY <2>1 DEF Tick, Watched, SameWatch
  <2> QED
    BY <1>2, <2>2, SessionWatch
<1> QED
  BY <1>1, <1>4, <1>5, <1>6, <1>7, <1>8, <1>9, <1>10, <1>11

LEMMA HandlerWatch ==
  ASSUME WatchInv, IInv', Notice \/ UserCommand
  PROVE  WatchInv'
<1>1. ASSUME UNCHANGED <<list, sessionVars>>
      PROVE  WatchInv'
  <2>1. Alive' = Alive
    BY <1>1, SameAlive
  <2>2. UNCHANGED <<dir, finished, waiting, ticking, hashing, saved>>
    BY <1>1 DEF sessionVars, peerVars, outcomeVars
  <2> QED
    BY <2>1, <2>2, WatchStays
<1>2. ASSUME NEW calls, Handler(calls)
      PROVE  UNCHANGED <<list, sessionVars>>
  BY <1>2 DEF Handler, windowVars
<1>3. CASE Notice
  <2>1. CASE SharesScanComplete
    <3>1. Alive' = Alive
      BY <2>1, SameAlive DEF SharesScanComplete
    <3>2. /\ UNCHANGED <<dir, finished, waiting>> /\ hashing' = hashing \cup saved
          /\ ticking' = ticking \ saved
      BY <2>1 DEF SharesScanComplete, outcomeVars
    <3> QED
      BY <3>1, <3>2, WatchStays
  <2>2. CASE ScanStarts \/ RemoveSession
    BY <1>1, <2>2 DEF ScanStarts, RemoveSession
  <2>3. CASE \/ \E u \in Users : TransferCallbackRejected(u) \/ RemoveUser(u)
                                 \/ RestartDownloadsFor(u)
             \/ \E expired \in SUBSET Sessions : CheckForMoribundConnections(expired)
    BY <1>1, <1>2, <2>3 DEF TransferCallbackRejected, RemoveUser, RestartDownloadsFor,
                            CheckForMoribundConnections
  <2> QED
    BY <1>3, <2>1, <2>2, <2>3 DEF Notice
<1>4. CASE UserCommand
  <2>1. CASE PauseAllUploads
    <3>1. Alive' = Alive
      BY <2>1, SameAlive DEF PauseAllUploads, windowVars
    <3>2. /\ UNCHANGED <<dir, finished, hashing, saved>>
          /\ waiting \cup ticking \subseteq waiting' \cup ticking'
      BY <2>1 DEF PauseAllUploads, RequeueTransfer, peerVars, outcomeVars
    <3> QED
      BY <3>1, <3>2, WatchStays
  <2>2. ASSUME NEW i \in DOMAIN list, NEW j \in DOMAIN list, MoveSelected(i, j)
        PROVE  WatchInv'
    <3>1. Alive' \subseteq Alive
      BY <2>2, MoveType DEF Alive, WatchInv, IInv, WindowTypeOK
    <3>2. UNCHANGED <<dir, finished, waiting, ticking, hashing, saved>>
      BY <2>2 DEF MoveSelected, sessionVars, peerVars, outcomeVars
    <3> QED
      BY <3>1, <3>2, WatchStays
  <2>3. ASSUME NEW e \in Directions, NEW n \in Limits, SetLimit(e, n) \/ SetPerUserLimit(e, n)
        PROVE  UNCHANGED <<list, sessionVars>>
    BY <2>3 DEF SetLimit, SetPerUserLimit
  <2>4. ASSUME ToggleShortestUploadsFirst \/ ToggleAutoClear
        PROVE  UNCHANGED <<list, sessionVars>>
    BY <2>4 DEF ToggleShortestUploadsFirst, ToggleAutoClear
  <2>5. ASSUME ResumeAllUploads \/ ClearFinished
        PROVE  UNCHANGED <<list, sessionVars>>
    BY <1>2, <2>5 DEF ResumeAllUploads, ClearFinished
  <2>6. ASSUME NEW S \in Selections, HaltSelected(S) \/ ResumeSelected(S) \/ CancelSelected(S)
        PROVE  UNCHANGED <<list, sessionVars>>
    BY <1>2, <2>6 DEF HaltSelected, ResumeSelected, CancelSelected
  <2> QED
    BY <1>1, <1>4, <2>1, <2>2, <2>3, <2>4, <2>5, <2>6 DEF UserCommand
<1> QED
  BY <1>3, <1>4

LEMMA NextWatch == WatchInv /\ [Next]_vars => WatchInv'
<1> SUFFICES ASSUME WatchInv, [Next]_vars PROVE WatchInv'
  OBVIOUS
<1>1. IInv'
  BY NextInv DEF WatchInv
<1>2. CASE UNCHANGED vars
  <2>1. Alive' = Alive
    BY <1>2, SameAlive DEF vars, windowVars
  <2>2. UNCHANGED <<dir, finished, waiting, ticking, hashing, saved>>
    BY <1>2 DEF vars, sessionVars, peerVars, outcomeVars
  <2> QED
    BY <1>1, <2>1, <2>2, WatchStays
<1> QED
  BY <1>1, <1>2, StepWatch, ArrivalWatch, EventWatch, HandlerWatch DEF Next

\* An upload that holds a slot is never without a guard against a peer that falls silent:
\* its clock runs, or our own MD5 thread or scan is at work for it and will start the
\* clock when it is done, whichever way and however often the upload was queued, started,
\* paused or restarted (UpdateTransferTime() and its callers).
THEOREM ActiveUploadIsWatchedHolds == Spec => []ActiveUploadIsWatched
<1>1. Spec => []WatchInv
  BY InitWatch, NextWatch, PTL DEF Spec
<1> QED
  BY <1>1, WatchInvWatched, PTL

-----------------------------------------------------------------------------
(* The uploads that the sort pauses *)

\* The user can halt nothing.
NobodyHalts == {"halt", "pause"} \cap Commands = {}

NoHalt(calls) == \A i \in DOMAIN calls : calls[i].op # "halt"

\* The stack is about to reorder the uploads and to resume them; before that it only
\* fills slots.
ResumeAhead ==
  \E r \in DOMAIN todo : /\ todo[r].op = "reorder"
                         /\ \A i \in 1..(r - 1) : todo[i].op \in {"slots", "loop"}

\* Sessions are halted only while the sort is at work, and are then in the queue, where
\* they will be found when it is done.
OnlySortHalts ==
  /\ NoHalt(todo)
  /\ halted = {} \/ (halted \subseteq Uploads \cap waiting /\ ResumeAhead)

HaltInv == IInv /\ (NobodyHalts => OnlySortHalts)

LEMMA InitHalt == Init => HaltInv
BY InitInv DEF Init, HaltInv, OnlySortHalts, NoHalt

\* While sessions are halted the looper fills slots or reorders.
LEMMA HaltedAt ==
  ASSUME OnlySortHalts, halted # {}, todo \in Seq(Calls)
  PROVE  todo # <<>> /\ Head(todo).op \in {"slots", "loop", "reorder"}
<1>1. PICK r \in DOMAIN todo : /\ todo[r].op = "reorder"
                               /\ \A i \in 1..(r - 1) : todo[i].op \in {"slots", "loop"}
  BY DEF OnlySortHalts, ResumeAhead
<1>2. r \in 1..Len(todo) /\ Len(todo) \in Nat
  OBVIOUS
<1>3. todo # <<>> /\ Head(todo) = todo[1]
  BY <1>2
<1>4. CASE r = 1
  BY <1>1, <1>3, <1>4
<1>5. CASE r # 1
  <2>1. 1 \in 1..(r - 1)
    BY <1>2, <1>5
  <2> QED
    BY <1>1, <1>3, <2>1
<1> QED
  BY <1>4, <1>5

\* Any other call, and a new handler, finds nobody halted.
LEMMA NobodyHalted ==
  ASSUME OnlySortHalts, todo \in Seq(Calls),
         Idle \/ \E op : Doing(op) /\ op \notin {"slots", "loop", "reorder"}
  PROVE  halted = {}
BY HaltedAt DEF Idle, Doing

LEMMA NoHaltConcat ==
  ASSUME NEW s \in Seq(Calls), NEW t \in Seq(Calls), NoHalt(s), NoHalt(t)
  PROVE  NoHalt(s \o t) /\ s \o t \in Seq(Calls)
BY DEF NoHalt

LEMMA NoHaltTail ==
  ASSUME todo \in Seq(Calls), todo # <<>>, NoHalt(todo)
  PROVE  NoHalt(Tail(todo)) /\ Tail(todo) \in Seq(Calls) /\ Head(todo).op # "halt"
BY DEF NoHalt

LEMMA NoHaltThen ==
  ASSUME todo \in Seq(Calls), todo # <<>>, NoHalt(todo),
         NEW calls \in Seq(Calls), NoHalt(calls), Then(calls)
  PROVE  NoHalt(todo')
<1>1. NoHalt(Tail(todo)) /\ Tail(todo) \in Seq(Calls)
  BY NoHaltTail
<1> QED
  BY <1>1, NoHaltConcat DEF Then

LEMMA NoHaltOthers ==
  ASSUME IInv, NEW op \in SessionOps, Doing(op), todo \in Seq(Calls), NoHalt(todo), NEW s,
         NEW calls \in Seq(Calls), NoHalt(calls), ThenOthers(calls, s)
  PROVE  NoHalt(todo')
<1> DEFINE others == Head(todo).s \ {s}
           mine == CallAll(Head(todo).op, others)
<1>1. NoHalt(Tail(todo)) /\ Tail(todo) \in Seq(Calls) /\ Head(todo).op # "halt"
  BY NoHaltTail DEF Doing
<1>2. others \subseteq Sessions /\ Head(todo).op \in SessionOps
  BY HeadSessions DEF Doing, IInv
<1>3. mine \in Seq(Calls) /\ NoHalt(mine)
  <2> HIDE DEF others
  <2>1. Call(Head(todo).op, others) \in Calls /\ Call(Head(todo).op, others).op # "halt"
    BY <1>1, <1>2 DEF Call, Calls, SessionCalls
  <2> QED
    BY <2>1 DEF CallAll, NoHalt
<1>4. todo' = calls \o mine \o Tail(todo)
  BY DEF ThenOthers
<1> HIDE DEF mine
<1>5. NoHalt(calls \o mine) /\ calls \o mine \in Seq(Calls)
  BY <1>3, NoHaltConcat
<1> QED
  BY <1>1, <1>4, <1>5, NoHaltConcat

LEMMA CallOps ==
  /\ DequeueCall \in Calls /\ DequeueCall.op = "dequeue"
  /\ ReorderCall \in Calls /\ ReorderCall.op = "reorder"
  /\ \A d \in Directions : SlotsCall(d) \in Calls /\ SlotsCall(d).op = "slots"
  /\ \A op \in SessionOps, S \in SUBSET Sessions : Call(op, S) \in Calls /\ Call(op, S).op = op
BY DEF DequeueCall, ReorderCall, SlotsCall, Call, Calls, SessionCalls, StageCalls

LEMMA AbortCallsNoHalt ==
  ASSUME NEW s \in Sessions, NEW error \in BOOLEAN, NEW restart \in BOOLEAN
  PROVE  AbortCalls(s, error, restart) \in Seq(Calls) /\ NoHalt(AbortCalls(s, error, restart))
<1> DEFINE first == IF mtt[s] # "none" /\ ~RemovesItself(s, ~error)
                    THEN <<DequeueCall>> ELSE <<>>
           second == IF restart /\ s \in autoRestart
                     THEN <<Call("restart", {s}), DequeueCall>> ELSE <<>>
<1>1. first \in Seq(Calls) /\ NoHalt(first)
  BY CallOps DEF NoHalt
<1>2. second \in Seq(Calls) /\ NoHalt(second)
  <2>1. PICK a \in Calls, b \in Calls :
          /\ a = Call("restart", {s}) /\ a.op = "restart"
          /\ b = DequeueCall /\ b.op = "dequeue"
    BY CallOps DEF SessionOps
  <2>2. <<a, b>> \in Seq(Calls) /\ NoHalt(<<a, b>>)
    BY <2>1 DEF NoHalt
  <2> QED
    BY <2>1, <2>2 DEF NoHalt
<1>3. AbortCalls(s, error, restart) = first \o second
  BY DEF AbortCalls
<1> HIDE DEF first, second
<1> QED
  BY <1>1, <1>2, <1>3, NoHaltConcat

\* The list of calls below the one at hand still has the resumption ahead.
LEMMA AheadTail ==
  ASSUME ResumeAhead, todo \in Seq(Calls), Head(todo).op # "reorder", Return
  PROVE  ResumeAhead'
<1>1. PICK r \in DOMAIN todo : /\ todo[r].op = "reorder"
                               /\ \A i \in 1..(r - 1) : todo[i].op \in {"slots", "loop"}
  BY DEF ResumeAhead
<1>2. r \in 1..Len(todo) /\ Len(todo) \in Nat /\ r # 1
  BY <1>1
<1>3. Len(todo') = Len(todo) - 1 /\ \A i \in 1..(Len(todo) - 1) : todo'[i] = todo[i + 1]
  BY <1>2 DEF Return
<1>4. PICK q \in Nat : q = r - 1
  BY <1>2
<1>5. q \in 1..(Len(todo) - 1) /\ todo'[q].op = "reorder"
  BY <1>1, <1>2, <1>3, <1>4
<1>6. \A i \in 1..(q - 1) : todo'[i].op \in {"slots", "loop"}
  <2> TAKE i \in 1..(q - 1)
  <2>1. i \in 1..(Len(todo) - 1) /\ i + 1 \in 1..(r - 1)
    BY <1>2, <1>4
  <2> QED
    BY <1>1, <1>3, <2>1
<1>7. q \in DOMAIN todo'
  BY <1>2, <1>5 DEF Return
<1> QED
  BY <1>5, <1>6, <1>7 DEF ResumeAhead

\* The same when the call at hand makes way for a loop.
LEMMA AheadLoop ==
  ASSUME ResumeAhead, todo \in Seq(Calls), Head(todo).op # "reorder",
         NEW c \in LoopCalls, Then(<<c>>)
  PROVE  ResumeAhead'
<1>0. c \in Calls /\ c.op = "loop"
  BY LoopOps DEF Calls
<1>1. PICK r \in DOMAIN todo : /\ todo[r].op = "reorder"
                               /\ \A i \in 1..(r - 1) : todo[i].op \in {"slots", "loop"}
  BY DEF ResumeAhead
<1>2. r \in 1..Len(todo) /\ Len(todo) \in Nat /\ r # 1
  BY <1>1
<1>3. /\ todo' \in Seq(Calls) /\ Len(todo') = Len(todo) /\ todo'[1] = c
      /\ \A i \in 2..Len(todo) : todo'[i] = todo[i]
  BY <1>0, <1>2 DEF Then
<1>4. todo'[r].op = "reorder" /\ r \in DOMAIN todo'
  BY <1>1, <1>2, <1>3
<1>5. \A i \in 1..(r - 1) : todo'[i].op \in {"slots", "loop"}
  <2> TAKE i \in 1..(r - 1)
  <2>1. i = 1 \/ i \in 2..Len(todo)
    BY <1>2
  <2> QED
    BY <1>0, <1>1, <1>3, <2>1
<1> QED
  BY <1>4, <1>5 DEF ResumeAhead

LEMMA CalmStep ==
  ASSUME halted = {}, halted' \subseteq halted, NoHalt(todo')
  PROVE  OnlySortHalts'
BY DEF OnlySortHalts

\* What the sort puts on the stack.
SortsFirst(s) ==
  /\ s \in Seq(Calls) /\ NoHalt(s) /\ 3 \in DOMAIN s
  /\ s[1].op = "slots" /\ s[2].op = "slots" /\ s[3].op = "reorder"

LEMMA SortsConcat ==
  ASSUME NEW s, SortsFirst(s), NEW t \in Seq(Calls), NoHalt(t)
  PROVE  SortsFirst(s \o t)
<1>1. s \in Seq(Calls) /\ NoHalt(s) /\ Len(s) \in Nat /\ Len(s) >= 3
  BY DEF SortsFirst
<1>2. NoHalt(s \o t) /\ s \o t \in Seq(Calls)
  BY <1>1, NoHaltConcat
<1>3. (s \o t)[1] = s[1] /\ (s \o t)[2] = s[2] /\ (s \o t)[3] = s[3] /\ 3 \in DOMAIN (s \o t)
  BY <1>1
<1> QED
  BY <1>2, <1>3 DEF SortsFirst

LEMMA SortsBegin ==
  /\ BothSlots \in Seq(Calls) /\ NoHalt(BothSlots)
  /\ SortsFirst(BothSlots \o <<ReorderCall>>)
<1>1. PICK u \in Calls, d \in Calls, r \in Calls :
        /\ u = SlotsCall("up") /\ u.op = "slots" /\ d = SlotsCall("down") /\ d.op = "slots"
        /\ r = ReorderCall /\ r.op = "reorder"
  BY CallOps DEF Directions
<1>2. BothSlots = <<u, d>>
  BY <1>1 DEF BothSlots
<1>3. <<u, d>> \in Seq(Calls) /\ NoHalt(<<u, d>>)
  BY <1>1 DEF NoHalt
<1>4. PICK b : b = <<u, d>>
  OBVIOUS
<1>5. PICK q : q = <<r>>
  OBVIOUS
<1>6. b \in Seq(Calls) /\ NoHalt(b) /\ Len(b) = 2 /\ b[1] = u /\ b[2] = d
  BY <1>3, <1>4
<1>7. q \in Seq(Calls) /\ NoHalt(q) /\ Len(q) = 1 /\ q[1] = r
  BY <1>1, <1>5 DEF NoHalt
<1>8. PICK s : s = b \o q
  OBVIOUS
<1>9. s \in Seq(Calls) /\ NoHalt(s)
  BY <1>6, <1>7, <1>8, NoHaltConcat
<1>10. /\ Len(s) = Len(b) + Len(q)
       /\ \A i \in 1..(Len(b) + Len(q)) : s[i] = IF i <= Len(b) THEN b[i] ELSE q[i - Len(b)]
  BY <1>6, <1>7, <1>8, ConcatProperties
<1>11. Len(b) + Len(q) = 3 /\ 1 \in 1..3 /\ 2 \in 1..3 /\ 3 \in 1..3 /\ 3 - Len(b) = 1
  BY <1>6, <1>7
<1>12. Len(s) = 3 /\ s[1] = u /\ s[2] = d /\ s[3] = r
  BY <1>6, <1>7, <1>10, <1>11
<1>13. SortsFirst(s)
  BY <1>1, <1>9, <1>12 DEF SortsFirst
<1>14. BothSlots \o <<ReorderCall>> = s
  BY <1>1, <1>2, <1>4, <1>5, <1>8
<1> QED
  BY <1>2, <1>3, <1>13, <1>14

\* The sort halts the uploads, all of which are queued then.
LEMMA DequeueHalt ==
  ASSUME IInv, IInv', todo \in Seq(Calls), OnlySortHalts, DequeueTransferSessions
  PROVE  OnlySortHalts'
<1>1. halted = {} /\ todo # <<>>
  BY NobodyHalted DEF DequeueTransferSessions, Doing
<1>2. NoHalt(Tail(todo)) /\ Tail(todo) \in Seq(Calls)
  BY <1>1, NoHaltTail DEF OnlySortHalts
<1>3. CASE Then(BothSlots) /\ UNCHANGED halted
  <2>1. NoHalt(todo')
    BY <1>1, <1>3, SortsBegin, NoHaltThen DEF OnlySortHalts
  <2> QED
    BY <1>1, <1>3, <2>1, CalmStep
<1>4. CASE /\ RequeueTransfer(Uploads \ waiting) /\ halted' = halted \cup Uploads
           /\ Then(BothSlots \o <<ReorderCall>> \o BothSlots \o BothSlots)
  <2> DEFINE s == BothSlots \o <<ReorderCall>>
             more == s \o BothSlots
             calls == more \o BothSlots
  <2>1. SortsFirst(s)
    BY SortsBegin
  <2>2. todo' = calls \o Tail(todo)
    BY <1>4 DEF Then
  <2> HIDE DEF s
  <2>3. SortsFirst(more)
    BY <2>1, SortsBegin, SortsConcat
  <2> HIDE DEF more
  <2>4. SortsFirst(calls)
    BY <2>3, SortsBegin, SortsConcat
  <2> HIDE DEF calls
  <2>5. SortsFirst(todo')
    BY <1>2, <2>2, <2>4, SortsConcat
  <2>6. \A i \in 1..(3 - 1) : todo'[i].op \in {"slots", "loop"}
    <3>1. \A i \in 1..(3 - 1) : i = 1 \/ i = 2
      OBVIOUS
    <3> QED
      BY <2>5, <3>1 DEF SortsFirst
  <2>7. ResumeAhead' /\ NoHalt(todo')
    BY <2>5, <2>6 DEF ResumeAhead, SortsFirst
  <2>8. Uploads' = Uploads
    BY SameAlive DEF DequeueTransferSessions, windowVars, peerVars, Uploads
  <2> QED
    BY <1>1, <1>4, <2>7, <2>8 DEF RequeueTransfer, OnlySortHalts
<1> QED
  BY <1>3, <1>4 DEF DequeueTransferSessions

\* Filling slots returns, or goes on with a loop.
LEMMA FillCalls ==
  ASSUME IInv', todo \in Seq(Calls), CountSlots \/ StartNext \/ NothingToStart
  PROVE  Return \/ \E c \in LoopCalls : Then(<<c>>)
<1>0. todo # <<>>
  BY DEF CountSlots, StartNext, NothingToStart, Doing
<1>1. CASE NothingToStart
  BY <1>1 DEF NothingToStart
<1>2. CASE CountSlots \/ StartNext
  <2>1. Return \/ \E d, pos, left : Then(<<LoopCall(d, pos, left)>>)
    BY <1>2 DEF CountSlots, StartNext
  <2>2. ASSUME NEW d, NEW pos, NEW left, Then(<<LoopCall(d, pos, left)>>)
        PROVE  LoopCall(d, pos, left) \in LoopCalls
    <3>0. PICK c : c = LoopCall(d, pos, left)
      OBVIOUS
    <3>1. c = LoopCall(d, pos, left) /\ c.op = "loop"
      BY <3>0 DEF LoopCall
    <3>2. todo' = <<c>> \o Tail(todo) /\ Tail(todo) \in Seq(Calls)
      BY <1>0, <2>2, <3>1 DEF Then
    <3>3. todo' # <<>> /\ Head(todo') = c
      BY <3>2
    <3>4. Doing("loop")'
      <4>1. app' = app /\ app = "running"
        BY <1>2 DEF CountSlots, StartNext, windowVars, Doing
      <4> QED
        BY <3>1, <3>3, <4>1 DEF Doing
    <3>5. (StackOK /\ Doing("loop") => Head(todo) \in LoopCalls)'
      BY DoingLoop, PTL
    <3> QED
      BY <3>1, <3>3, <3>4, <3>5 DEF IInv
  <2> QED
    BY <2>1, <2>2
<1> QED
  BY <1>1, <1>2

\* Filling slots starts nobody who is halted, and leaves the resumption ahead.
LEMMA FillHalt ==
  ASSUME IInv, IInv', todo \in Seq(Calls), OnlySortHalts,
         CountSlots \/ StartNext \/ NothingToStart
  PROVE  OnlySortHalts'
<1>1. todo # <<>> /\ Head(todo).op # "reorder"
  BY DEF CountSlots, StartNext, NothingToStart, Doing
<1>2. Return \/ \E c \in LoopCalls : Then(<<c>>)
  BY FillCalls
<1>3. NoHalt(todo')
  <2>1. CASE Return
    BY <1>1, <2>1, NoHaltTail DEF Return, OnlySortHalts
  <2>2. ASSUME NEW c \in LoopCalls, Then(<<c>>)
        PROVE  NoHalt(todo')
    <3>1. c \in Calls /\ c.op # "halt"
      BY LoopOps DEF Calls
    <3>2. <<c>> \in Seq(Calls) /\ NoHalt(<<c>>)
      BY <3>1 DEF NoHalt
    <3> QED
      BY <1>1, <2>2, <3>2, NoHaltThen DEF OnlySortHalts
  <2> QED
    BY <1>2, <2>1, <2>2
<1>4. ResumeAhead => ResumeAhead'
  BY <1>1, <1>2, AheadTail, AheadLoop
<1>5. halted' = halted /\ Uploads' = Uploads /\ (halted \subseteq waiting => halted \subseteq waiting')
  <2>1. CASE CountSlots \/ NothingToStart
    <3>1. UNCHANGED <<list, dir, halted, waiting>>
      BY <2>1 DEF CountSlots, NothingToStart, windowVars, sessionVars, peerVars
    <3> QED
      BY <3>1, SameAlive DEF Uploads
  <2>2. CASE StartNext
    <3>1. PICK s : BeginTransfer(s) /\ UNCHANGED windowVars
      BY <2>2 DEF StartNext
    <3>2. dir' = dir /\ waiting \ {s} \subseteq waiting'
      BY <3>1, BeginFacts
    <3>3. halted' = halted
      BY <3>1 DEF BeginTransfer, Begin, DoUpload, AbortSession, LeaveQueue
    <3>4. s \in halted => waiting' = waiting
      BY <3>1 DEF BeginTransfer
    <3>5. Uploads' = Uploads
      BY <3>1, <3>2, SameAlive DEF windowVars, Uploads
    <3> QED
      BY <3>2, <3>3, <3>4, <3>5
  <2> QED
    BY <2>1, <2>2
<1> QED
  BY <1>3, <1>4, <1>5 DEF OnlySortHalts

LEMMA ReorderHalt ==
  ASSUME IInv, todo \in Seq(Calls), OnlySortHalts, ReorderUploads
  PROVE  OnlySortHalts'
<1>1. NoHalt(todo')
  BY NoHaltTail DEF ReorderUploads, Return, Doing, OnlySortHalts
<1>2. halted' = {}
  BY DEF ReorderUploads, OnlySortHalts
<1> QED
  BY <1>1, <1>2 DEF OnlySortHalts

\* A call for sessions of the list: nobody is halted, and nobody will be.
LEMMA CallHalt ==
  ASSUME IInv, todo \in Seq(Calls), OnlySortHalts,
         NEW op \in SessionOps \ {"halt"}, Doing(op), NEW s, NEW calls \in Seq(Calls),
         NoHalt(calls), ThenOthers(calls, s), halted' \subseteq halted
  PROVE  OnlySortHalts'
<1>1. halted = {}
  BY NobodyHalted DEF SessionOps
<1>2. NoHalt(todo')
  BY NoHaltOthers DEF OnlySortHalts
<1> QED
  BY <1>1, <1>2, CalmStep

LEMMA SessionHalt ==
  ASSUME IInv, todo \in Seq(Calls), OnlySortHalts,
         AbortNext \/ RestartNext \/ HaltNext \/ ResumeNext \/ UploadNext \/ DeleteNext
  PROVE  OnlySortHalts'
<1>0. <<>> \in Seq(Calls) /\ NoHalt(<<>>)
  BY DEF NoHalt
<1>1. CASE AbortNext
  <2>1. PICK op \in SessionOps \ {"halt"} : Doing(op)
    BY <1>1 DEF AbortNext, SessionOps
  <2>2. PICK s \in Sessions, restart \in BOOLEAN :
          ThenOthers(AbortCalls(s, TRUE, restart), s) /\ AbortSession(s, TRUE)
    BY <1>1, <2>1, HeadSessions DEF AbortNext, IInv
  <2>3. /\ AbortCalls(s, TRUE, restart) \in Seq(Calls)
        /\ NoHalt(AbortCalls(s, TRUE, restart))
    BY AbortCallsNoHalt
  <2> QED
    BY <2>1, <2>2, <2>3, CallHalt DEF AbortSession
<1>2. CASE HaltNext
  <2>1. todo # <<>> /\ Head(todo).op = "halt"
    BY <1>2 DEF HaltNext, Doing
  <2> QED
    BY <2>1, NoHaltTail DEF OnlySortHalts
<1>3. CASE RestartNext \/ ResumeNext \/ UploadNext \/ DeleteNext
  <2>1. PICK op \in SessionOps \ {"halt"} : Doing(op)
    BY <1>3 DEF RestartNext, ResumeNext, UploadNext, DeleteNext, SessionOps
  <2>2. PICK s : ThenOthers(<<>>, s)
    BY <1>3 DEF RestartNext, ResumeNext, UploadNext, DeleteNext
  <2>3. halted' \subseteq halted
    <3>1. \A x : BeginTransfer(x) => halted' = halted
      BY DEF BeginTransfer, Begin, DoUpload, AbortSession, LeaveQueue
    <3>2. \A x : DoUpload(x) \/ RestartSession(x) => halted' = halted
      BY DEF DoUpload, AbortSession, RestartSession
    <3> QED
      BY <1>3, <3>1, <3>2 DEF RestartNext, ResumeNext, UploadNext, DeleteNext, sessionVars
  <2> QED
    BY <1>0, <2>1, <2>2, <2>3, CallHalt
<1> QED
  BY <1>1, <1>2, <1>3

\* A handler begins when nobody is halted.
LEMMA BeginsCalm ==
  ASSUME todo \in Seq(Calls), OnlySortHalts, Idle, halted' = halted, NoHalt(todo')
  PROVE  OnlySortHalts'
BY NobodyHalted, CalmStep

\* Stacks with which a handler begins.
LEMMA FirstCalls ==
  /\ NoHalt(<<>>) /\ NoHalt(<<DequeueCall>>)
  /\ \A op \in SessionOps \ {"halt"}, S \in SUBSET Sessions :
       NoHalt(<<Call(op, S)>>) /\ NoHalt(<<Call(op, S), DequeueCall>>)
       /\ NoHalt(<<DequeueCall, Call(op, S)>>)
<1>1. PICK q : q = DequeueCall /\ q.op # "halt"
  BY CallOps
<1>2. NoHalt(<<>>) /\ NoHalt(<<q>>)
  BY <1>1 DEF NoHalt
<1>3. ASSUME NEW op \in SessionOps \ {"halt"}, NEW S \in SUBSET Sessions
      PROVE  NoHalt(<<Call(op, S)>>) /\ NoHalt(<<Call(op, S), q>>) /\ NoHalt(<<q, Call(op, S)>>)
  <2>1. PICK c : c = Call(op, S)
    OBVIOUS
  <2>2. c.op = op
    BY <2>1, CallOps
  <2>3. NoHalt(<<c>>) /\ NoHalt(<<c, q>>) /\ NoHalt(<<q, c>>)
    BY <1>1, <1>3, <2>2 DEF NoHalt
  <2> QED
    BY <2>1, <2>3
<1> QED
  BY <1>1, <1>2, <1>3

LEMMA ArrivalHalt ==
  ASSUME todo \in Seq(Calls), OnlySortHalts, Arrival
  PROVE  OnlySortHalts'
<1>1. Idle /\ halted' = halted /\ todo' = <<DequeueCall>>
  BY DEF Arrival, SocketAccepted, ConnectBackRequestReceived, RequestDownload, RequestCallback,
         NewSession
<1> QED
  BY <1>1, FirstCalls, BeginsCalm

LEMMA EventHalt ==
  ASSUME IInv, todo \in Seq(Calls), OnlySortHalts, Event
  PROVE  OnlySortHalts'
<1>1. PICK s \in Sessions :
        \/ Connected(s) \/ Disconnected(s) \/ BadMessage(s) \/ Rejected(s)
        \/ Md5SendDone(s) \/ FileData(s) \/ Drained(s)
        \/ \E u \in Users : PeerId(s, u) \/ FileList(s, u)
        \/ \E n \in 1..MaxFiles : Md5RecvDone(s, n)
  BY UploadsAreSessions DEF Event, IInv
<1>2. Idle
  BY <1>1 DEF Connected, Disconnected, BadMessage, Rejected, Md5SendDone, FileData, Drained,
              PeerId, FileList, Md5RecvDone
<1>3. halted' = halted
  BY <1>1 DEF Connected, Disconnected, BadMessage, Rejected, Md5SendDone, FileData, Drained,
              PeerId, FileList, Md5RecvDone, AbortSession, sessionVars
<1>4. NoHalt(todo')
  <2>0. {"restart", "error", "stop", "upload"} \subseteq SessionOps \ {"halt"}
        /\ {s} \in SUBSET Sessions
    BY DEF SessionOps
  <2>1. CASE Drained(s)
    <3>1. todo' \in {AbortCalls(s, FALSE, FALSE), <<Call("upload", {s})>>}
      BY <2>1 DEF Drained
    <3> QED
      BY <2>0, <3>1, AbortCallsNoHalt, FirstCalls
  <2>2. CASE Disconnected(s)
    <3>1. todo' \in {<<Call("restart", {s}), DequeueCall>>, <<>>, <<DequeueCall>>}
      BY <2>2 DEF Disconnected
    <3> QED
      BY <2>0, <3>1, FirstCalls
  <2>3. CASE BadMessage(s) \/ Rejected(s)
    <3>1. todo' \in {<<Call("error", {s})>>, <<Call("stop", {s})>>}
      BY <2>3 DEF BadMessage, Rejected
    <3> QED
      BY <2>0, <3>1, FirstCalls
  <2>4. CASE Connected(s) \/ FileData(s) \/ \E u \in Users : PeerId(s, u)
    <3>1. todo' = todo
      BY <2>4 DEF Connected, FileData, PeerId
    <3> QED
      BY <3>1 DEF OnlySortHalts
  <2>5. CASE Md5SendDone(s) \/ \E u \in Users : FileList(s, u)
    <3>1. todo' = <<DequeueCall>>
      BY <2>5 DEF Md5SendDone, FileList
    <3> QED
      BY <3>1, FirstCalls
  <2>6. CASE \E n \in 1..MaxFiles : Md5RecvDone(s, n)
    <3>1. todo' = <<DequeueCall, Call("upload", {s})>>
      BY <2>6 DEF Md5RecvDone
    <3> QED
      BY <2>0, <3>1, FirstCalls
  <2> QED
    BY <1>1, <2>1, <2>2, <2>3, <2>4, <2>5, <2>6
<1> QED
  BY <1>2, <1>3, <1>4, BeginsCalm

LEMMA NoticeHalt ==
  ASSUME IInv, todo \in Seq(Calls), OnlySortHalts, Notice
  PROVE  OnlySortHalts'
<1>0. /\ {"reject", "stop", "restart", "error", "delete"} \subseteq SessionOps \ {"halt"}
      /\ Alive \subseteq Sessions
  BY UploadsAreSessions DEF SessionOps, IInv
<1>1. CASE ScanStarts \/ SharesScanComplete
  <2>1. Idle /\ halted' = halted /\ todo' = todo
    BY <1>1 DEF ScanStarts, SharesScanComplete, sessionVars
  <2> QED
    BY <2>1, BeginsCalm DEF OnlySortHalts
<1>2. CASE RemoveSession
  <2>1. Idle /\ halted' = halted
    BY <1>2 DEF RemoveSession, sessionVars
  <2>2. \/ todo' = <<Call("delete", {Head(removing)}), DequeueCall>> /\ Head(removing) \in Alive
        \/ todo' = <<DequeueCall>>
        \/ todo' = todo
    BY <1>2 DEF RemoveSession
  <2>3. NoHalt(todo')
    BY <1>0, <2>2, FirstCalls DEF OnlySortHalts
  <2> QED
    BY <2>1, <2>3, BeginsCalm
<1>3. CASE \/ \E u \in Users : TransferCallbackRejected(u) \/ RemoveUser(u)
                               \/ RestartDownloadsFor(u)
           \/ \E expired \in SUBSET Sessions : CheckForMoribundConnections(expired)
  <2>1. PICK op \in {"reject", "stop", "restart", "error"}, S \in SUBSET Sessions :
          Handler(<<Call(op, S)>>) \/ Handler(<<Call(op, S), DequeueCall>>)
    <3>1. ASSUME NEW u \in Users, TransferCallbackRejected(u)
          PROVE  \E S \in SUBSET Sessions : Handler(<<Call("reject", S)>>)
      BY <1>0, <3>1 DEF TransferCallbackRejected
    <3>2. ASSUME NEW u \in Users, RemoveUser(u)
          PROVE  \E S \in SUBSET Sessions : Handler(<<Call("stop", S)>>)
      BY <1>0, <3>2 DEF RemoveUser
    <3>3. ASSUME NEW u \in Users, RestartDownloadsFor(u)
          PROVE  \E S \in SUBSET Sessions : Handler(<<Call("restart", S), DequeueCall>>)
      BY <1>0, <3>3 DEF RestartDownloadsFor
    <3>4. ASSUME NEW expired \in SUBSET Sessions, CheckForMoribundConnections(expired)
          PROVE  \E S \in SUBSET Sessions : Handler(<<Call("error", S)>>)
      BY <3>4 DEF CheckForMoribundConnections
    <3> QED
      BY <1>3, <3>1, <3>2, <3>3, <3>4
  <2>2. /\ Idle /\ halted' = halted
        /\ todo' \in {<<Call(op, S)>>, <<Call(op, S), DequeueCall>>}
    BY <2>1 DEF Handler, sessionVars
  <2>3. NoHalt(todo')
    BY <1>0, <2>1, <2>2, FirstCalls
  <2> QED
    BY <2>2, <2>3, BeginsCalm
<1> QED
  BY <1>1, <1>2, <1>3 DEF Notice

LEMMA UserCommandHalt ==
  ASSUME IInv, NobodyHalts, todo \in Seq(Calls), OnlySortHalts, UserCommand
  PROVE  OnlySortHalts'
<1>0. /\ {"resume", "delete"} \subseteq SessionOps \ {"halt"}
      /\ Alive \subseteq Sessions /\ Uploads \subseteq Sessions
      /\ \A S \in Selections : S \in SUBSET Sessions
  BY UploadsAreSessions DEF SessionOps, IInv, Selections
<1>1. ASSUME NEW e \in Directions, NEW n \in Limits, SetLimit(e, n) \/ SetPerUserLimit(e, n)
      PROVE  Idle /\ halted' = halted /\ todo' = <<DequeueCall>>
  BY <1>1 DEF SetLimit, SetPerUserLimit, sessionVars
<1>2. ASSUME ToggleShortestUploadsFirst
      PROVE  Idle /\ halted' = halted /\ todo' = <<DequeueCall>>
  BY <1>2 DEF ToggleShortestUploadsFirst, sessionVars
<1>3. ASSUME ToggleAutoClear \/ \E i, j \in DOMAIN list : MoveSelected(i, j)
      PROVE  Idle /\ halted' = halted /\ todo' = todo
  BY <1>3 DEF ToggleAutoClear, MoveSelected, sessionVars
<1>4. ~PauseAllUploads /\ ~ResumeAllUploads /\ \A S \in Selections : ~HaltSelected(S)
  BY DEF PauseAllUploads, ResumeAllUploads, HaltSelected, NobodyHalts
<1>5. ASSUME NEW S \in Selections, ResumeSelected(S) \/ CancelSelected(S)
      PROVE  /\ Idle /\ halted' = halted
             /\ \E op \in {"resume", "delete"} : todo' = <<Call(op, S), DequeueCall>>
  BY <1>5 DEF ResumeSelected, CancelSelected, Handler, sessionVars
<1>6. ASSUME ClearFinished
      PROVE  Idle /\ halted' = halted /\ todo' = <<Call("delete", Alive \cap finished)>>
  BY <1>6 DEF ClearFinished, Handler, sessionVars
<1>7. \/ todo' = <<DequeueCall>> \/ todo' = todo
      \/ \E op \in {"resume", "delete"}, S \in SUBSET Sessions :
           todo' = <<Call(op, S), DequeueCall>> \/ todo' = <<Call(op, S)>>
  BY <1>0, <1>1, <1>2, <1>3, <1>4, <1>5, <1>6 DEF UserCommand
<1>8. NoHalt(todo')
  BY <1>0, <1>7, FirstCalls DEF OnlySortHalts
<1>9. Idle /\ halted' = halted
  BY <1>1, <1>2, <1>3, <1>4, <1>5, <1>6 DEF UserCommand
<1> QED
  BY <1>8, <1>9, BeginsCalm

LEMMA NextHalt == HaltInv /\ [Next]_vars => HaltInv'
<1> SUFFICES ASSUME HaltInv, [Next]_vars PROVE HaltInv'
  OBVIOUS
<1>1. IInv /\ IInv' /\ todo \in Seq(Calls)
  BY NextInv, InvType DEF HaltInv, TypeOK
<1>2. SUFFICES ASSUME NobodyHalts PROVE OnlySortHalts'
  BY <1>1 DEF HaltInv, NobodyHalts
<1>3. OnlySortHalts
  BY <1>2 DEF HaltInv
<1>4. CASE UNCHANGED vars
  <2>1. UNCHANGED <<todo, halted, waiting, list, dir>>
    BY <1>4 DEF vars, windowVars, sessionVars, peerVars
  <2>2. Uploads' = Uploads
    BY <2>1, SameAlive DEF Uploads
  <2> QED
    BY <1>3, <2>1, <2>2 DEF OnlySortHalts, ResumeAhead
<1> QED
  BY <1>1, <1>2, <1>3, <1>4, DequeueHalt, FillHalt, ReorderHalt, SessionHalt, ArrivalHalt, EventHalt,
     NoticeHalt, UserCommandHalt DEF Next, Step

\* The "Shortest Uploads First" sort halts every upload and resumes all of them: unless
\* the user has halted one himself, nobody is left halted when the looper waits for the
\* next message, whatever the nested calls of DequeueTransferSessions() do in between.
THEOREM NobodyLeftHaltedHolds == Spec => []NobodyLeftHalted
<1>1. HaltInv => NobodyLeftHalted
  <2> SUFFICES ASSUME HaltInv, Idle, {"halt", "pause"} \cap Commands = {}
               PROVE  halted = {}
    BY DEF NobodyLeftHalted
  <2>1. todo \in Seq(Calls)
    BY InvType DEF HaltInv, TypeOK
  <2> QED
    BY <2>1, NobodyHalted DEF HaltInv, NobodyHalts
<1> QED
  BY <1>1, InitHalt, NextHalt, PTL DEF Spec

-----------------------------------------------------------------------------
(* The removal of sessions that are over *)

\* Nothing but REMOVE_SESSION deletes a session, and only uploads post it: the user can
\* neither cancel nor clear transfers, and finished downloads stay in the list.
OnlyUploadsAreRemoved ==
  {"cancel", "clear", "autoClear"} \cap Commands = {} /\ FirstOpt.autoClear = "off"

Distinct(seq) == \A i, j \in DOMAIN seq : seq[i] = seq[j] => i = j

\* A session about which a message is posted is an upload that has no transceiver, so that
\* it can neither end again nor be restarted.  What restarts by itself is a download.
PostsOK ==
  /\ opt.autoClear = "off"
  /\ Distinct(removing)
  /\ \A s \in Range(removing) : s \in Alive /\ mtt[s] = "none" /\ dir[s] = "up"
  /\ \A s \in autoRestart : s \notin fresh /\ dir[s] = "down"

StageOps == {"dequeue", "reorder", "slots", "loop"}

\* Of the calls on a stack, a deletion is the innermost one and of sessions about which
\* nothing is posted any more; sessions that are going to be restarted are downloads, and
\* before that only slots are filled.
GoodCalls(calls, down, posted) ==
  \A j \in 1..Len(calls) :
    /\ calls[j].op = "delete" => j = 1 /\ calls[j].s \cap posted = {}
    /\ calls[j].op = "restart" => /\ calls[j].s \subseteq down
                                  /\ \A i \in 1..(j - 1) : calls[i].op \in StageOps

Down == {s \in Sessions : dir[s] = "down"}

RemovalOK == PostsOK /\ GoodCalls(todo, Down, Range(removing))

RemovalInv == SlotInv /\ (OnlyUploadsAreRemoved => RemovalOK)

\* The queue of posted messages.
LEMMA PostOne ==
  ASSUME NEW seq \in Seq(Sessions), Distinct(seq), NEW s \in Sessions \ Range(seq)
  PROVE  /\ Range(Append(seq, s)) = Range(seq) \cup {s}
         /\ Distinct(Append(seq, s))
<1>1. /\ Append(seq, s) \in Seq(Sessions)
      /\ Len(Append(seq, s)) = Len(seq) + 1 /\ Len(seq) \in Nat
      /\ Append(seq, s)[Len(seq) + 1] = s
      /\ \A i \in 1..Len(seq) : Append(seq, s)[i] = seq[i]
  OBVIOUS
<1>2. PICK new \in Seq(Sessions) : new = Append(seq, s)
  BY <1>1
<1>3. DOMAIN new = 1..(Len(seq) + 1) /\ DOMAIN seq = 1..Len(seq)
  BY <1>1, <1>2
<1>4. Range(new) = Range(seq) \cup {s}
  BY <1>1, <1>2, <1>3 DEF Range
<1>5. \A i \in 1..Len(seq) : new[i] # s /\ new[i] = seq[i]
  BY <1>1, <1>2, <1>3 DEF Range
<1>6. Distinct(new)
  <2> SUFFICES ASSUME NEW i \in DOMAIN new, NEW j \in DOMAIN new, new[i] = new[j] PROVE i = j
    BY DEF Distinct
  <2>1. (i \in 1..Len(seq) \/ i = Len(seq) + 1) /\ (j \in 1..Len(seq) \/ j = Len(seq) + 1)
    BY <1>1, <1>3
  <2> QED
    BY <1>1, <1>2, <1>3, <1>5, <2>1 DEF Distinct
<1> QED
  BY <1>2, <1>4, <1>6

LEMMA HandleOne ==
  ASSUME NEW seq \in Seq(Sessions), Distinct(seq), seq # <<>>
  PROVE  /\ Range(Tail(seq)) \subseteq Range(seq) \ {Head(seq)}
         /\ Head(seq) \in Range(seq)
         /\ Distinct(Tail(seq))
<1>1. /\ Tail(seq) \in Seq(Sessions)
      /\ Len(seq) \in Nat \ {0} /\ Len(Tail(seq)) = Len(seq) - 1
      /\ Head(seq) = seq[1]
      /\ \A i \in 1..(Len(seq) - 1) : Tail(seq)[i] = seq[i + 1]
  OBVIOUS
<1>2. PICK rest \in Seq(Sessions) : rest = Tail(seq)
  BY <1>1
<1>3. DOMAIN rest = 1..(Len(seq) - 1) /\ DOMAIN seq = 1..Len(seq)
  BY <1>1, <1>2
<1>4. \A i \in DOMAIN rest : rest[i] = seq[i + 1] /\ i + 1 \in DOMAIN seq /\ i + 1 # 1 /\ i \in Int
  BY <1>1, <1>2, <1>3
<1>5. Head(seq) \in Range(seq) /\ 1 \in DOMAIN seq
  BY <1>1, <1>3 DEF Range
<1>6. Range(rest) \subseteq Range(seq) \ {seq[1]}
  BY <1>4, <1>5 DEF Range, Distinct
<1>7. Distinct(rest)
  <2> SUFFICES ASSUME NEW i \in DOMAIN rest, NEW j \in DOMAIN rest, rest[i] = rest[j] PROVE i = j
    BY DEF Distinct
  <2>1. i + 1 = j + 1 /\ i \in Int /\ j \in Int
    BY <1>4 DEF Distinct
  <2> QED
    BY <2>1
<1> QED
  BY <1>1, <1>2, <1>5, <1>6, <1>7

-----------------------------------------------------------------------------
(* Stacks without a restart or a deletion below the call at hand *)

NoMore(calls) == \A i \in 1..Len(calls) : calls[i].op \notin {"restart", "delete"}

AllStages(calls) == \A i \in 1..Len(calls) : calls[i].op \in StageOps

\* Facts about a concatenation.
LEMMA Concat ==
  ASSUME NEW s \in Seq(Calls), NEW t \in Seq(Calls)
  PROVE  /\ s \o t \in Seq(Calls)
         /\ Len(s) \in Nat /\ Len(t) \in Nat /\ Len(s \o t) = Len(s) + Len(t)
         /\ \A i \in 1..Len(s) : (s \o t)[i] = s[i]
         /\ \A i \in (Len(s) + 1)..(Len(s) + Len(t)) :
              (s \o t)[i] = t[i - Len(s)] /\ i - Len(s) \in 1..Len(t)
OBVIOUS

LEMMA TailFacts ==
  ASSUME NEW t \in Seq(Calls), t # <<>>
  PROVE  /\ Tail(t) \in Seq(Calls)
         /\ Len(t) \in Nat \ {0} /\ Len(Tail(t)) = Len(t) - 1
         /\ Head(t) = t[1]
         /\ \A i \in 1..(Len(t) - 1) : Tail(t)[i] = t[i + 1] /\ i + 1 \in 2..Len(t)
OBVIOUS

\* A call for sessions has no restart and no deletion below it.
LEMMA NoMoreBelow ==
  ASSUME NEW t \in Seq(Calls), t # <<>>, NEW D, NEW R, GoodCalls(t, D, R),
         Head(t).op \notin StageOps
  PROVE  NoMore(Tail(t)) /\ Tail(t) \in Seq(Calls)
<1>1. PICK rest \in Seq(Calls) : rest = Tail(t)
  BY TailFacts
<1>2. /\ Len(t) \in Nat \ {0} /\ Len(rest) = Len(t) - 1 /\ Head(t) = t[1]
      /\ \A i \in 1..(Len(t) - 1) : rest[i] = t[i + 1] /\ i + 1 \in 2..Len(t)
  BY <1>1, TailFacts
<1>3. ASSUME NEW i \in 1..Len(rest) PROVE rest[i].op \notin {"restart", "delete"}
  <2>1. PICK j \in 2..Len(t) : rest[i] = t[j]
    BY <1>2
  <2>2. j \in 1..Len(t) /\ j # 1 /\ 1 \in 1..(j - 1)
    BY <1>2
  <2>3. t[j].op # "delete"
    BY <2>2 DEF GoodCalls
  <2>4. t[j].op # "restart"
    BY <1>2, <2>2 DEF GoodCalls
  <2> QED
    BY <2>1, <2>3, <2>4
<1> QED
  BY <1>1, <1>3 DEF NoMore

\* Good calls on top of a stack without restarts and deletions.
LEMMA GoodOnTop ==
  ASSUME NEW s \in Seq(Calls), NEW t \in Seq(Calls), NEW D, NEW R, GoodCalls(s, D, R), NoMore(t)
  PROVE  GoodCalls(s \o t, D, R) /\ s \o t \in Seq(Calls)
<1>1. PICK c \in Seq(Calls) : c = s \o t
  BY Concat
<1>2. /\ Len(s) \in Nat /\ Len(t) \in Nat /\ Len(c) = Len(s) + Len(t)
      /\ \A i \in 1..Len(s) : c[i] = s[i]
      /\ \A i \in (Len(s) + 1)..(Len(s) + Len(t)) : c[i] = t[i - Len(s)] /\ i - Len(s) \in 1..Len(t)
  BY <1>1, Concat
<1>3. ASSUME NEW j \in 1..Len(c)
      PROVE  /\ c[j].op = "delete" => j = 1 /\ c[j].s \cap R = {}
             /\ c[j].op = "restart" => /\ c[j].s \subseteq D
                                       /\ \A i \in 1..(j - 1) : c[i].op \in StageOps
  <2>1. CASE j \in 1..Len(s)
    <3>1. c[j] = s[j] /\ \A i \in 1..(j - 1) : c[i] = s[i]
      BY <1>2, <2>1
    <3> QED
      BY <2>1, <3>1 DEF GoodCalls
  <2>2. CASE j \notin 1..Len(s)
    <3>1. j \in (Len(s) + 1)..(Len(s) + Len(t))
      BY <1>2, <2>2
    <3>2. PICK k \in 1..Len(t) : c[j] = t[k]
      BY <1>2, <3>1
    <3> QED
      BY <3>2 DEF NoMore
  <2> QED
    BY <2>1, <2>2
<1> QED
  BY <1>1, <1>3 DEF GoodCalls

\* Filling slots before good calls among which there is no deletion.
LEMMA StagesOnTop ==
  ASSUME NEW s \in Seq(Calls), NEW t \in Seq(Calls), NEW D, NEW R, NEW Q,
         AllStages(s), GoodCalls(t, D, R), \A i \in 1..Len(t) : t[i].op # "delete"
  PROVE  GoodCalls(s \o t, D, Q) /\ s \o t \in Seq(Calls)
<1>1. PICK c \in Seq(Calls) : c = s \o t
  BY Concat
<1>2. /\ Len(s) \in Nat /\ Len(t) \in Nat /\ Len(c) = Len(s) + Len(t)
      /\ \A i \in 1..Len(s) : c[i] = s[i]
      /\ \A i \in (Len(s) + 1)..(Len(s) + Len(t)) : c[i] = t[i - Len(s)] /\ i - Len(s) \in 1..Len(t)
  BY <1>1, Concat
<1>3. ASSUME NEW j \in 1..Len(c)
      PROVE  /\ c[j].op # "delete"
             /\ c[j].op = "restart" => /\ c[j].s \subseteq D
                                       /\ \A i \in 1..(j - 1) : c[i].op \in StageOps
  <2>1. CASE j \in 1..Len(s)
    <3>1. c[j].op \in StageOps
      BY <1>2, <2>1 DEF AllStages
    <3> QED
      BY <3>1 DEF StageOps
  <2>2. CASE j \notin 1..Len(s)
    <3>1. j \in (Len(s) + 1)..(Len(s) + Len(t))
      BY <1>2, <2>2
    <3>2. PICK k \in 1..Len(t) : c[j] = t[k] /\ k = j - Len(s)
      BY <1>2, <3>1
    <3>3. ASSUME NEW i \in 1..(j - 1), c[j].op = "restart" PROVE c[i].op \in StageOps
      <4>1. CASE i \in 1..Len(s)
        BY <1>2, <4>1 DEF AllStages
      <4>2. CASE i \notin 1..Len(s)
        <5>1. i \in (Len(s) + 1)..(Len(s) + Len(t)) /\ i - Len(s) \in 1..(k - 1)
          BY <1>2, <3>1, <3>2, <4>2
        <5>2. c[i] = t[i - Len(s)]
          BY <1>2, <5>1
        <5> QED
          BY <3>2, <3>3, <5>1, <5>2 DEF GoodCalls
      <4> QED
        BY <4>1, <4>2
    <3> QED
      BY <3>2, <3>3 DEF GoodCalls
  <2> QED
    BY <2>1, <2>2
<1> QED
  BY <1>1, <1>3 DEF GoodCalls

\* What is below a call that fills slots is good, and deletes nothing.
LEMMA GoodBelow ==
  ASSUME NEW t \in Seq(Calls), t # <<>>, NEW D, NEW R, GoodCalls(t, D, R), Head(t).op \in StageOps
  PROVE  /\ Tail(t) \in Seq(Calls) /\ GoodCalls(Tail(t), D, R)
         /\ \A i \in 1..Len(Tail(t)) : Tail(t)[i].op # "delete"
<1>1. PICK rest \in Seq(Calls) : rest = Tail(t)
  BY TailFacts
<1>2. /\ Len(t) \in Nat \ {0} /\ Len(rest) = Len(t) - 1 /\ Head(t) = t[1]
      /\ \A i \in 1..(Len(t) - 1) : rest[i] = t[i + 1] /\ i + 1 \in 2..Len(t)
  BY <1>1, TailFacts
<1>3. ASSUME NEW j \in 1..Len(rest)
      PROVE  /\ rest[j].op # "delete"
             /\ rest[j].op = "restart" => /\ rest[j].s \subseteq D
                                          /\ \A i \in 1..(j - 1) : rest[i].op \in StageOps
  <2>1. PICK k \in 2..Len(t) : k = j + 1 /\ rest[j] = t[k]
    BY <1>2
  <2>2. k \in 1..Len(t) /\ k # 1
    BY <1>2
  <2>3. ASSUME NEW i \in 1..(j - 1), rest[j].op = "restart" PROVE rest[i].op \in StageOps
    <3>1. i + 1 \in 1..(k - 1) /\ rest[i] = t[i + 1]
      BY <1>2, <2>1
    <3> QED
      BY <2>1, <2>2, <2>3, <3>1 DEF GoodCalls
  <2> QED
    BY <2>1, <2>2, <2>3 DEF GoodCalls
<1> QED
  BY <1>1, <1>3 DEF GoodCalls

LEMMA CallSessions == \A op, S : Call(op, S).s = S
BY DEF Call

\* Short stacks: nothing, one call, two calls.
LEMMA ShortStacks ==
  ASSUME NEW a \in Calls, NEW b \in Calls, NEW D, NEW R,
         b.op = "dequeue",
         a.op = "delete" => a.s \cap R = {}, a.op = "restart" => a.s \subseteq D
  PROVE  /\ GoodCalls(<<>>, D, R) /\ GoodCalls(<<a>>, D, R) /\ GoodCalls(<<a, b>>, D, R)
         /\ a.op \notin {"restart", "delete"} => GoodCalls(<<b, a>>, D, R)
<1>1. GoodCalls(<<>>, D, R) /\ GoodCalls(<<a>>, D, R)
  BY DEF GoodCalls
<1>2. ASSUME NEW j \in 1..2
      PROVE  /\ <<a, b>>[j].op = "delete" => j = 1 /\ <<a, b>>[j].s \cap R = {}
             /\ <<a, b>>[j].op = "restart" => /\ <<a, b>>[j].s \subseteq D
                                              /\ \A i \in 1..(j - 1) : <<a, b>>[i].op \in StageOps
  <2>1. CASE j = 1
    BY <2>1
  <2>2. CASE j = 2
    BY <2>2
  <2> QED
    BY <2>1, <2>2
<1>3. GoodCalls(<<a, b>>, D, R)
  BY <1>2 DEF GoodCalls
<1>4. ASSUME a.op \notin {"restart", "delete"} PROVE GoodCalls(<<b, a>>, D, R)
  <2>1. ASSUME NEW j \in 1..2 PROVE <<b, a>>[j].op \notin {"restart", "delete"}
    <3>1. CASE j = 1
      BY <3>1
    <3>2. CASE j = 2
      BY <1>4, <3>2
    <3> QED
      BY <3>1, <3>2
  <2> QED
    BY <2>1 DEF GoodCalls
<1> QED
  BY <1>1, <1>3, <1>4

\* The stacks with which a handler begins.
LEMMA FirstGood ==
  ASSUME NEW D, NEW R, NEW op \in SessionOps, NEW S \in SUBSET Sessions,
         op = "delete" => S \cap R = {}, op = "restart" => S \subseteq D
  PROVE  /\ GoodCalls(<<>>, D, R) /\ GoodCalls(<<DequeueCall>>, D, R)
         /\ GoodCalls(<<Call(op, S)>>, D, R)
         /\ GoodCalls(<<Call(op, S), DequeueCall>>, D, R)
         /\ op \notin {"restart", "delete"} => GoodCalls(<<DequeueCall, Call(op, S)>>, D, R)
<1>1. PICK a \in Calls, b \in Calls :
        /\ a = Call(op, S) /\ a.op = op /\ a.s = S
        /\ b = DequeueCall /\ b.op = "dequeue"
  BY CallOps, CallSessions
<1>2. /\ GoodCalls(<<>>, D, R) /\ GoodCalls(<<a>>, D, R) /\ GoodCalls(<<a, b>>, D, R)
      /\ a.op \notin {"restart", "delete"} => GoodCalls(<<b, a>>, D, R)
  BY <1>1, ShortStacks
<1>3. GoodCalls(<<b>>, D, R)
  BY <1>1, ShortStacks
<1> QED
  BY <1>1, <1>2, <1>3

\* AbortSession() restarts what restarts by itself: downloads.
LEMMA AbortCallsGood ==
  ASSUME IInv, NEW s \in Sessions, NEW error \in BOOLEAN, NEW restart \in BOOLEAN, NEW R,
         s \in autoRestart => dir[s] = "down"
  PROVE  /\ AbortCalls(s, error, restart) \in Seq(Calls)
         /\ GoodCalls(AbortCalls(s, error, restart), Down, R)
<1> DEFINE first == IF mtt[s] # "none" /\ ~RemovesItself(s, ~error)
                    THEN <<DequeueCall>> ELSE <<>>
           second == IF restart /\ s \in autoRestart
                     THEN <<Call("restart", {s}), DequeueCall>> ELSE <<>>
<1>1. first \in Seq(Calls) /\ AllStages(first)
  BY CallOps DEF AllStages, StageOps
<1>2. /\ second \in Seq(Calls) /\ GoodCalls(second, Down, R)
      /\ \A i \in 1..Len(second) : second[i].op # "delete"
  <2>1. PICK a \in Calls, b \in Calls :
          /\ a = Call("restart", {s}) /\ a.op = "restart" /\ a.s = {s}
          /\ b = DequeueCall /\ b.op = "dequeue"
    BY CallOps, CallSessions DEF SessionOps
  <2>2. CASE restart /\ s \in autoRestart
    <3>1. {s} \subseteq Down
      BY <2>2 DEF Down
    <3>2. GoodCalls(<<a, b>>, Down, R)
      BY <2>1, <3>1, ShortStacks
    <3>3. <<a, b>> \in Seq(Calls) /\ \A i \in 1..Len(<<a, b>>) : <<a, b>>[i].op # "delete"
      BY <2>1
    <3> QED
      BY <2>1, <2>2, <3>2, <3>3
  <2>3. CASE ~(restart /\ s \in autoRestart)
    <3>1. second = <<>>
      BY <2>3
    <3>2. <<>> \in Seq(Calls) /\ GoodCalls(<<>>, Down, R) /\ Len(<<>>) = 0
      BY DEF GoodCalls
    <3> HIDE DEF second
    <3> QED
      BY <3>1, <3>2
  <2> QED
    BY <2>2, <2>3
<1>3. AbortCalls(s, error, restart) = first \o second
  BY DEF AbortCalls
<1> HIDE DEF first, second
<1> QED
  BY <1>1, <1>2, <1>3, StagesOnTop

\* A step of a call for sessions: what it calls, and what it has still to visit.
LEMMA GoodOthers ==
  ASSUME IInv, todo \in Seq(Calls), NEW D, NEW R, GoodCalls(todo, D, R),
         NEW op \in SessionOps, Doing(op), NEW s, NEW calls \in Seq(Calls),
         ThenOthers(calls, s), NEW E, NEW Q,
         \/ GoodCalls(calls, E, Q) /\ op \notin {"restart", "delete"}
         \/ /\ calls = <<>>
            /\ op = "delete" => (Head(todo).s \ {s}) \cap Q = {}
            /\ op = "restart" => Head(todo).s \ {s} \subseteq E
  PROVE  GoodCalls(todo', E, Q)
<1> DEFINE others == Head(todo).s \ {s}
           mine == CallAll(Head(todo).op, others)
<1>1. Head(todo).op = op /\ todo # <<>> /\ op \notin StageOps
  BY DEF Doing, SessionOps, StageOps
<1>2. NoMore(Tail(todo)) /\ Tail(todo) \in Seq(Calls)
  BY <1>1, NoMoreBelow
<1>3. others \subseteq Sessions
  BY HeadSessions DEF IInv
<1>4. todo' = calls \o mine \o Tail(todo)
  BY DEF ThenOthers
<1>5. PICK a \in Calls : a = Call(op, others) /\ a.op = op /\ a.s = others
  BY <1>3, CallOps, CallSessions
<1>6. mine \in {<<>>, <<a>>}
  BY <1>1, <1>5 DEF CallAll
<1>7. mine \in Seq(Calls)
  <2>1. <<>> \in Seq(Calls) /\ <<a>> \in Seq(Calls)
    OBVIOUS
  <2> HIDE DEF mine
  <2> QED
    BY <1>6, <2>1
<1>8. GoodCalls(calls \o mine, E, Q) /\ calls \o mine \in Seq(Calls)
  <2>1. CASE GoodCalls(calls, E, Q) /\ op \notin {"restart", "delete"}
    <3>1. NoMore(<<>>) /\ NoMore(<<a>>)
      BY <1>5, <2>1 DEF NoMore
    <3> HIDE DEF mine
    <3>2. NoMore(mine)
      BY <1>6, <3>1
    <3> QED
      BY <1>7, <2>1, <3>2, GoodOnTop
  <2>2. CASE /\ calls = <<>>
             /\ op = "delete" => others \cap Q = {}
             /\ op = "restart" => others \subseteq E
    <3>1. GoodCalls(<<>>, E, Q) /\ GoodCalls(<<a>>, E, Q)
      BY <1>5, <2>2, CallOps, ShortStacks
    <3> HIDE DEF mine
    <3>2. calls \o mine = mine
      BY <1>7, <2>2
    <3> QED
      BY <1>6, <1>7, <3>1, <3>2
  <2> QED
    BY <2>1, <2>2
<1> HIDE DEF mine
<1> QED
  BY <1>2, <1>4, <1>8, GoodOnTop

-----------------------------------------------------------------------------
(* The posted messages *)

\* Nothing is posted, and what has been posted stays true.
LEMMA PostsSame ==
  ASSUME PostsOK, removing' = removing, opt'.autoClear = opt.autoClear, fresh' \subseteq fresh,
         autoRestart' \subseteq autoRestart,
         \A x \in Range(removing) : x \in Alive' /\ mtt'[x] = "none" /\ dir'[x] = "up",
         \A x \in autoRestart' : dir'[x] = "down"
  PROVE  PostsOK'
BY DEF PostsOK

\* The sessions of messages and of restarts.
LEMMA PostedSessions ==
  ASSUME IInv
  PROVE  /\ removing \in Seq(Sessions) /\ Range(removing) \subseteq Sessions
         /\ autoRestart \subseteq Sessions /\ Alive \subseteq Sessions
BY UploadsAreSessions DEF IInv, SessionTypeOK, Range

\* AbortSession() posts a message only if the session had a transceiver, which it has not
\* any more.
LEMMA AbortPosts ==
  ASSUME IInv, PostsOK, NEW s \in Alive, NEW error \in BOOLEAN, AbortSession(s, error),
         UNCHANGED <<list, fresh, opt>>
  PROVE  PostsOK'
<1>1. s \in Sessions
  BY PostedSessions
<1>2. mtt'[s] = "none" /\ \A x \in Sessions \ {s} : mtt'[x] = mtt[x]
  BY <1>1 DEF AbortSession, IInv, SessionTypeOK
<1>3. Alive' = Alive /\ dir' = dir /\ autoRestart' \subseteq autoRestart
  BY SameAlive DEF AbortSession, peerVars
<1>4. RemovesItself(s, ~error) <=> dir[s] = "up"
  BY DEF RemovesItself, PostsOK
<1>5. CASE mtt[s] # "none" /\ dir[s] = "up"
  <2>1. removing' = Append(removing, s)
    BY <1>4, <1>5 DEF AbortSession
  <2>2. s \notin Range(removing)
    BY <1>5 DEF PostsOK
  <2>3. Range(removing') = Range(removing) \cup {s} /\ Distinct(removing')
    BY <1>1, <2>1, <2>2, PostOne, PostedSessions DEF PostsOK
  <2>4. \A x \in Range(removing') : x \in Alive' /\ mtt'[x] = "none" /\ dir'[x] = "up"
    BY <1>2, <1>3, <1>5, <2>3, PostedSessions DEF PostsOK
  <2> QED
    BY <1>3, <2>3, <2>4 DEF PostsOK
<1>6. CASE ~(mtt[s] # "none" /\ dir[s] = "up")
  <2>1. removing' = removing
    BY <1>4, <1>6 DEF AbortSession
  <2>2. \A x \in Range(removing) : x \in Alive' /\ mtt'[x] = "none" /\ dir'[x] = "up"
    BY <1>2, <1>3, PostedSessions DEF PostsOK
  <2>3. \A x \in autoRestart' : dir'[x] = "down"
    BY <1>3 DEF PostsOK
  <2> QED
    BY <1>3, <2>1, <2>2, <2>3, PostsSame
<1> QED
  BY <1>5, <1>6

\* DoUpload() may end so, or posts nothing.
LEMMA UploadPosts ==
  ASSUME IInv, PostsOK, NEW s \in Alive, DoUpload(s), UNCHANGED <<list, fresh, opt>>
  PROVE  PostsOK'
<1>1. CASE AbortSession(s, TRUE)
  BY <1>1, AbortPosts
<1>2. CASE ~AbortSession(s, TRUE)
  <2>1. UNCHANGED <<dir, mtt, autoRestart, removing>> /\ Alive' = Alive
    BY <1>2, SameAlive DEF DoUpload, peerVars, linkVars, outcomeVars
  <2> QED
    BY <2>1, PostsSame DEF PostsOK
<1> QED
  BY <1>1, <1>2

\* BeginTransfer() may end so, or starts a thread that is there.
LEMMA BeginPosts ==
  ASSUME IInv, PostsOK, NEW s \in Alive, BeginTransfer(s), UNCHANGED <<list, fresh, opt>>
  PROVE  PostsOK'
<1>0. s \in Sessions /\ Alive' = Alive
  BY PostedSessions, SameAlive
<1>1. CASE DoUpload(s)
  BY <1>1, UploadPosts
<1>2. CASE ~DoUpload(s)
  <2>1. UNCHANGED <<dir, autoRestart, removing>>
    BY <1>2 DEF BeginTransfer, Begin, LeaveQueue, peerVars, outcomeVars
  <2>2. mtt' = mtt \/ (mtt[s] = "idle" /\ mtt' = [mtt EXCEPT ![s] = "running"])
    BY <1>2 DEF BeginTransfer, Begin, linkVars
  <2>3. \A x \in Sessions : mtt[x] = "none" => mtt'[x] = "none"
    BY <1>0, <2>2 DEF IInv, SessionTypeOK
  <2>4. \A x \in Range(removing) : x \in Alive' /\ mtt'[x] = "none" /\ dir'[x] = "up"
    BY <1>0, <2>1, <2>3, PostedSessions DEF PostsOK
  <2> QED
    BY <2>1, <2>4, PostsSame DEF PostsOK
<1> QED
  BY <1>1, <1>2

\* RestartSession() of a download, about which nothing can be posted.
LEMMA RestartPosts ==
  ASSUME IInv, PostsOK, NEW s \in Alive, RestartSession(s), dir[s] = "down",
         UNCHANGED <<list, fresh, opt>>
  PROVE  /\ PostsOK'
         /\ \A x \in Sessions \ {s} : dir'[x] = dir[x]
<1>1. s \in Sessions /\ Alive' = Alive
  BY PostedSessions, SameAlive
<1>2. \A x \in Sessions \ {s} : dir'[x] = dir[x] /\ mtt'[x] = mtt[x]
  BY <1>1 DEF RestartSession, IInv, SessionTypeOK
<1>3. autoRestart' = autoRestart \ {s} /\ removing' = removing
  BY DEF RestartSession
<1>4. s \notin Range(removing)
  BY DEF PostsOK
<1>5. \A x \in Range(removing) : x \in Alive' /\ mtt'[x] = "none" /\ dir'[x] = "up"
  BY <1>1, <1>2, <1>4, PostedSessions DEF PostsOK
<1>6. \A x \in autoRestart' : dir'[x] = "down"
  BY <1>2, <1>3, PostedSessions DEF PostsOK
<1> QED
  BY <1>2, <1>3, <1>5, <1>6, PostsSame

\* A step in which the sessions that have been posted about stay as they are.
LEMMA StillPosts ==
  ASSUME PostsOK, UNCHANGED <<dir, mtt, autoRestart, removing, fresh>>,
         opt'.autoClear = opt.autoClear, Alive \subseteq Alive'
  PROVE  PostsOK'
BY PostsSame DEF PostsOK

\* Removing one entry of a list removes no other session.
LEMMA RemoveAtKeeps ==
  ASSUME NEW seq \in Seq(Sessions), NEW i \in DOMAIN seq, NEW x \in Range(seq), x # seq[i]
  PROVE  x \in Range(RemoveAt(seq, i))
<1>1. i \in 1..Len(seq) /\ Len(seq) \in Nat
  OBVIOUS
<1>2. SubSeq(seq, 1, i - 1) \in Seq(Sessions) /\ SubSeq(seq, i + 1, Len(seq)) \in Seq(Sessions)
  BY <1>1, SubSeqProperties
<1>3. PICK a \in Seq(Sessions) : a = SubSeq(seq, 1, i - 1)
  BY <1>2
<1>4. PICK b \in Seq(Sessions) : b = SubSeq(seq, i + 1, Len(seq))
  BY <1>2
<1>5. /\ Len(a) = i - 1 /\ Len(b) = Len(seq) - i
      /\ \A k \in 1..Len(a) : a[k] = seq[k]
      /\ \A k \in 1..Len(b) : b[k] = seq[i + k]
  BY <1>1, <1>3, <1>4
<1>9. PICK r \in Seq(Sessions) : r = a \o b
  BY <1>3, <1>4, ConcatProperties
<1>10. r = RemoveAt(seq, i)
  BY <1>3, <1>4, <1>9 DEF RemoveAt
<1>11. /\ Len(r) = Len(a) + Len(b) /\ Len(a) \in Nat /\ Len(b) \in Nat
       /\ \A k \in 1..Len(a) : r[k] = a[k]
       /\ \A k \in 1..Len(b) : r[Len(a) + k] = b[k]
  <2>1. /\ Len(r) = Len(a) + Len(b) /\ Len(a) \in Nat /\ Len(b) \in Nat
        /\ \A k \in 1..Len(r) : r[k] = IF k <= Len(a) THEN a[k] ELSE b[k - Len(a)]
    BY <1>9, ConcatProperties
  <2>2. \A k \in 1..Len(a) : k \in 1..Len(r) /\ k <= Len(a)
    BY <2>1
  <2>3. \A k \in 1..Len(b) :
          Len(a) + k \in 1..Len(r) /\ ~(Len(a) + k <= Len(a)) /\ (Len(a) + k) - Len(a) = k
    BY <2>1
  <2>4. \A k \in 1..Len(b) : r[Len(a) + k] = b[(Len(a) + k) - Len(a)]
    BY <2>1, <2>3
  <2> QED
    BY <2>1, <2>2, <2>3, <2>4
<1>6. PICK k \in 1..Len(seq) : x = seq[k]
  BY DEF Range
<1>7. CASE k < i
  <2>1. k \in 1..Len(a) /\ k \in 1..Len(r)
    BY <1>1, <1>5, <1>7, <1>11
  <2>2. r[k] = seq[k]
    BY <1>5, <1>11, <2>1
  <2> QED
    BY <1>6, <1>9, <1>10, <2>1, <2>2 DEF Range
<1>8. CASE k > i
  <2>1. PICK q \in 1..Len(b) : q = k - i
    BY <1>1, <1>5, <1>8
  <2>2. i + q = k
    BY <1>1, <2>1
  <2>3. b[q] = x
    BY <1>5, <1>6, <2>1, <2>2
  <2>4. PICK p \in 1..Len(r) : p = Len(a) + q
    BY <1>11, <2>1
  <2>5. r[p] = x
    BY <1>11, <2>3, <2>4
  <2> QED
    BY <1>9, <1>10, <2>5 DEF Range
<1> QED
  BY <1>1, <1>6, <1>7, <1>8

\* Moving one entry loses nobody.
LEMMA MoveKeeps ==
  ASSUME list \in Seq(Sessions), NEW i \in DOMAIN list, NEW j \in DOMAIN list, MoveSelected(i, j)
  PROVE  Alive \subseteq Alive'
<1>0. DOMAIN list = 1..Len(list) /\ Len(list) \in Nat /\ i \in 1..Len(list) /\ j \in 1..Len(list)
  OBVIOUS
<1>1. /\ DOMAIN list' = DOMAIN list
      /\ \A k \in DOMAIN list : list'[k] = CASE k = j -> list[i]
                                             [] i <= k /\ k < j -> list[k + 1]
                                             [] j < k /\ k <= i -> list[k - 1]
                                             [] OTHER -> list[k]
  BY DEF MoveSelected
<1>2. ASSUME NEW k \in 1..Len(list) PROVE \E q \in 1..Len(list) : list'[q] = list[k]
  <2>1. CASE k = i
    BY <1>0, <1>1, <2>1
  <2>2. CASE i < k /\ k <= j
    <3>1. PICK q \in 1..Len(list) : q = k - 1 /\ i <= q /\ q < j
      BY <1>0, <2>2
    <3>2. q # j /\ q + 1 = k
      BY <1>0, <3>1
    <3>3. list'[q] = list[q + 1]
      BY <1>0, <1>1, <3>1, <3>2
    <3> QED
      BY <3>2, <3>3
  <2>3. CASE j <= k /\ k < i
    <3>1. PICK q \in 1..Len(list) : q = k + 1 /\ j < q /\ q <= i
      BY <1>0, <2>3
    <3>2. q # j /\ q - 1 = k /\ ~(i <= q /\ q < j)
      BY <1>0, <3>1
    <3>3. list'[q] = list[q - 1]
      BY <1>0, <1>1, <3>1, <3>2
    <3> QED
      BY <3>2, <3>3
  <2>4. CASE k # i /\ ~(i < k /\ k <= j) /\ ~(j <= k /\ k < i)
    <3>1. k # j /\ ~(i <= k /\ k < j) /\ ~(j < k /\ k <= i)
      BY <1>0, <2>4
    <3>2. list'[k] = list[k]
      BY <1>0, <1>1, <3>1
    <3> QED
      BY <3>2
  <2> QED
    BY <2>1, <2>2, <2>3, <2>4
<1> QED
  BY <1>0, <1>1, <1>2 DEF Alive, Range

-----------------------------------------------------------------------------
(* The steps of a handler, and the removal of sessions *)

LEMMA StagesConcat ==
  ASSUME NEW s \in Seq(Calls), NEW t \in Seq(Calls), AllStages(s), AllStages(t)
  PROVE  AllStages(s \o t) /\ s \o t \in Seq(Calls)
<1>1. PICK c \in Seq(Calls) : c = s \o t
  BY Concat
<1>2. /\ Len(s) \in Nat /\ Len(t) \in Nat /\ Len(c) = Len(s) + Len(t)
      /\ \A i \in 1..Len(s) : c[i] = s[i]
      /\ \A i \in (Len(s) + 1)..(Len(s) + Len(t)) : c[i] = t[i - Len(s)] /\ i - Len(s) \in 1..Len(t)
  BY <1>1, Concat
<1>3. \A i \in 1..Len(c) : i \in 1..Len(s) \/ i \in (Len(s) + 1)..(Len(s) + Len(t))
  BY <1>2
<1> QED
  BY <1>1, <1>2, <1>3 DEF AllStages

\* Filling slots makes further calls of its kind.
LEMMA StagesGood ==
  ASSUME IInv, todo \in Seq(Calls), GoodCalls(todo, Down, Range(removing)),
         NEW op \in StageOps, Doing(op), dir' = dir,
         Return \/ \E calls \in Seq(Calls) : AllStages(calls) /\ Then(calls)
  PROVE  GoodCalls(todo', Down', Range(removing'))
<1>1. /\ Tail(todo) \in Seq(Calls) /\ GoodCalls(Tail(todo), Down, Range(removing))
      /\ \A i \in 1..Len(Tail(todo)) : Tail(todo)[i].op # "delete"
  BY GoodBelow DEF Doing
<1>2. Down' = Down
  BY DEF Down
<1>3. PICK calls \in Seq(Calls) : AllStages(calls) /\ todo' = calls \o Tail(todo)
  <2>1. CASE Return
    <3>1. <<>> \in Seq(Calls) /\ AllStages(<<>>) /\ <<>> \o Tail(todo) = Tail(todo)
      BY <1>1 DEF AllStages
    <3> QED
      BY <2>1, <3>1 DEF Return
  <2> QED
    BY <2>1 DEF Then
<1> QED
  BY <1>1, <1>2, <1>3, StagesOnTop

LEMMA DequeueStages ==
  /\ BothSlots \in Seq(Calls) /\ AllStages(BothSlots)
  /\ BothSlots \o <<ReorderCall>> \o BothSlots \o BothSlots \in Seq(Calls)
  /\ AllStages(BothSlots \o <<ReorderCall>> \o BothSlots \o BothSlots)
<1>1. PICK u \in Calls, d \in Calls, r \in Calls :
        /\ u = SlotsCall("up") /\ u.op = "slots" /\ d = SlotsCall("down") /\ d.op = "slots"
        /\ r = ReorderCall /\ r.op = "reorder"
  BY CallOps DEF Directions
<1>2. <<u, d>> \in Seq(Calls) /\ AllStages(<<u, d>>) /\ <<r>> \in Seq(Calls) /\ AllStages(<<r>>)
  BY <1>1 DEF AllStages, StageOps
<1>3. PICK b \in Seq(Calls) : b = BothSlots
  BY <1>1, <1>2 DEF BothSlots
<1>4. PICK q \in Seq(Calls) : q = <<ReorderCall>>
  BY <1>1, <1>2
<1>5. AllStages(b) /\ AllStages(q)
  BY <1>1, <1>2, <1>3, <1>4 DEF BothSlots
<1>6. AllStages(b \o q) /\ b \o q \in Seq(Calls)
  BY <1>5, StagesConcat
<1>7. AllStages(b \o q \o b) /\ b \o q \o b \in Seq(Calls)
  BY <1>5, <1>6, StagesConcat
<1>8. AllStages(b \o q \o b \o b) /\ b \o q \o b \o b \in Seq(Calls)
  BY <1>5, <1>7, StagesConcat
<1> QED
  BY <1>3, <1>4, <1>5, <1>8

LEMMA StageRemoval ==
  ASSUME IInv, IInv', todo \in Seq(Calls), RemovalOK,
         \/ DequeueTransferSessions \/ ReorderUploads \/ CountSlots \/ StartNext \/ NothingToStart
  PROVE  RemovalOK'
<1>1. CASE DequeueTransferSessions
  <2>1. Doing("dequeue") /\ \E calls \in Seq(Calls) : AllStages(calls) /\ Then(calls)
    BY <1>1, DequeueStages DEF DequeueTransferSessions
  <2>2. UNCHANGED <<dir, mtt, autoRestart, removing, fresh, opt>> /\ Alive' = Alive
    BY <1>1, SameAlive DEF DequeueTransferSessions, windowVars, peerVars, linkVars, outcomeVars
  <2>3. PostsOK'
    BY <2>2, StillPosts DEF RemovalOK
  <2> QED
    BY <2>1, <2>2, <2>3, StagesGood DEF RemovalOK, StageOps
<1>2. CASE ReorderUploads
  <2>1. Doing("reorder") /\ Return
    BY <1>2 DEF ReorderUploads
  <2>2. UNCHANGED <<dir, mtt, autoRestart, removing, fresh, opt>>
    BY <1>2 DEF ReorderUploads, peerVars, linkVars, outcomeVars
  <2>3. Alive \subseteq Alive'
    <3>1. DOMAIN list' = DOMAIN list /\ \A s \in Alive : \E i \in DOMAIN list : list'[i] = s
      BY <1>2 DEF ReorderUploads
    <3> QED
      BY <3>1 DEF Alive, Range
  <2>4. PostsOK'
    BY <2>2, <2>3, StillPosts DEF RemovalOK
  <2> QED
    BY <2>1, <2>2, <2>4, StagesGood DEF RemovalOK, StageOps
<1>3. CASE CountSlots \/ StartNext \/ NothingToStart
  <2>1. PICK op \in StageOps : Doing(op)
    BY <1>3 DEF CountSlots, StartNext, NothingToStart, StageOps
  <2>2. Return \/ \E calls \in Seq(Calls) : AllStages(calls) /\ Then(calls)
    <3>1. ASSUME NEW c \in LoopCalls PROVE <<c>> \in Seq(Calls) /\ AllStages(<<c>>)
      <4>1. c \in Calls /\ c.op \in StageOps
        BY LoopOps DEF Calls, StageOps
      <4> QED
        BY <4>1 DEF AllStages
    <3> QED
      BY <1>3, <3>1, FillCalls
  <2>3. PostsOK' /\ dir' = dir
    <3>1. CASE CountSlots \/ NothingToStart
      <4>1. UNCHANGED <<dir, mtt, autoRestart, removing, fresh, opt>> /\ Alive' = Alive
        BY <3>1, SameAlive DEF CountSlots, NothingToStart, windowVars, sessionVars, peerVars,
                               linkVars, outcomeVars
      <4> QED
        BY <4>1, StillPosts DEF RemovalOK
    <3>2. CASE StartNext
      <4>1. PICK i \in DOMAIN list : BeginTransfer(list[i]) /\ UNCHANGED windowVars
        BY <3>2 DEF StartNext, Candidates
      <4>2. PICK s \in Alive : s = list[i]
        BY DEF Alive, Range
      <4>3. dir' = dir
        BY <4>1, BeginFacts
      <4> QED
        BY <4>1, <4>2, <4>3, BeginPosts DEF RemovalOK, windowVars
    <3> QED
      BY <1>3, <3>1, <3>2
  <2> QED
    BY <2>1, <2>2, <2>3, StagesGood DEF RemovalOK
<1> QED
  BY <1>1, <1>2, <1>3

\* A session of the list ends, or is restarted, or begins.
LEMMA SessionRemoval ==
  ASSUME IInv, IInv', todo \in Seq(Calls), RemovalOK,
         AbortNext \/ RestartNext \/ HaltNext \/ ResumeNext \/ UploadNext
  PROVE  RemovalOK'
<1>0. /\ PostsOK /\ GoodCalls(todo, Down, Range(removing)) /\ UNCHANGED <<list, fresh, opt>>
      /\ GoodCalls(<<>>, Down', Range(removing')) /\ <<>> \in Seq(Calls)
  <2>1. GoodCalls(<<>>, Down', Range(removing')) /\ <<>> \in Seq(Calls)
    BY DEF GoodCalls
  <2> QED
    BY <2>1 DEF RemovalOK, AbortNext, RestartNext, HaltNext, ResumeNext, UploadNext, windowVars
<1>1. ASSUME NEW op \in SessionOps \ {"restart", "delete"}, Doing(op), NEW s \in Alive,
             NEW restart \in BOOLEAN, ThenOthers(AbortCalls(s, TRUE, restart), s),
             AbortSession(s, TRUE)
      PROVE  RemovalOK'
  <2>1. PostsOK'
    BY <1>0, <1>1, AbortPosts
  <2>2. Down' = Down
    BY <1>1 DEF AbortSession, peerVars, Down
  <2>3. s \in Sessions /\ (s \in autoRestart => dir[s] = "down")
    BY <1>0, PostedSessions DEF PostsOK
  <2>4. /\ AbortCalls(s, TRUE, restart) \in Seq(Calls)
        /\ GoodCalls(AbortCalls(s, TRUE, restart), Down', Range(removing'))
    BY <2>2, <2>3, AbortCallsGood
  <2>5. GoodCalls(todo', Down', Range(removing'))
    BY <1>0, <1>1, <2>4, GoodOthers
  <2> QED
    BY <2>1, <2>5 DEF RemovalOK
<1>2. CASE AbortNext
  <2>1. PICK op \in SessionOps \ {"restart", "delete"} : Doing(op)
    BY <1>2 DEF AbortNext, SessionOps
  <2>2. PICK s \in Alive, restart \in BOOLEAN :
          ThenOthers(AbortCalls(s, TRUE, restart), s) /\ AbortSession(s, TRUE)
    BY <1>2, VisitedAlive DEF AbortNext
  <2> QED
    BY <1>1, <2>1, <2>2
<1>3. CASE RestartNext
  <2>1. PICK s \in Head(todo).s :
          s \in Alive /\ RestartSession(s) /\ ThenOthers(<<>>, s) /\ Doing("restart")
    BY <1>3, VisitedAlive DEF RestartNext
  <2>2. Head(todo).s \subseteq Down
    <3>1. todo # <<>> /\ Head(todo) = todo[1] /\ 1 \in 1..Len(todo) /\ todo[1].op = "restart"
      BY <2>1 DEF Doing
    <3> QED
      BY <1>0, <3>1 DEF GoodCalls
  <2>3. dir[s] = "down" /\ s \in Sessions
    BY <2>1, <2>2 DEF Down
  <2>4. PostsOK' /\ \A x \in Sessions \ {s} : dir'[x] = dir[x]
    BY <1>0, <2>1, <2>3, RestartPosts
  <2>5. Head(todo).s \ {s} \subseteq Down'
    BY <2>2, <2>4 DEF Down
  <2>6. GoodCalls(todo', Down', Range(removing'))
    BY <1>0, <2>1, <2>5, GoodOthers DEF SessionOps
  <2> QED
    BY <2>4, <2>6 DEF RemovalOK
<1>4. CASE HaltNext
  <2>1. Doing("halt")
    BY <1>4 DEF HaltNext
  <2>2. PICK s \in Alive :
          \/ /\ ThenOthers(<<>>, s)
             /\ UNCHANGED <<peerVars, linkVars, outcomeVars, uploadVars, removing>>
          \/ AbortSession(s, TRUE) /\ ThenOthers(AbortCalls(s, TRUE, FALSE), s)
    BY <1>4, VisitedAlive DEF HaltNext
  <2>3. CASE AbortSession(s, TRUE) /\ ThenOthers(AbortCalls(s, TRUE, FALSE), s)
    BY <1>1, <2>1, <2>3 DEF SessionOps
  <2>4. CASE /\ ThenOthers(<<>>, s)
             /\ UNCHANGED <<peerVars, linkVars, outcomeVars, uploadVars, removing>>
    <3>1. UNCHANGED <<dir, mtt, autoRestart, removing>> /\ Alive' = Alive
      BY <1>0, <2>4, SameAlive DEF peerVars, linkVars, outcomeVars
    <3>2. PostsOK'
      BY <1>0, <3>1, StillPosts
    <3>3. GoodCalls(todo', Down', Range(removing'))
      BY <1>0, <2>1, <2>4, GoodOthers DEF SessionOps
    <3> QED
      BY <3>2, <3>3 DEF RemovalOK
  <2> QED
    BY <2>2, <2>3, <2>4
<1>5. CASE ResumeNext \/ UploadNext
  <2>1. PICK op \in SessionOps \ {"restart", "delete"} : Doing(op)
    BY <1>5 DEF ResumeNext, UploadNext, SessionOps
  <2>2. PICK s \in Alive :
          /\ ThenOthers(<<>>, s)
          /\ \/ BeginTransfer(s) \/ DoUpload(s)
             \/ dir[s] = "down" /\ RestartSession(s)
             \/ UNCHANGED <<peerVars, linkVars, outcomeVars, removing>>
    BY <1>5, VisitedAlive DEF ResumeNext, UploadNext, sessionVars
  <2>3. PostsOK'
    <3>1. CASE UNCHANGED <<peerVars, linkVars, outcomeVars, removing>>
      <4>1. UNCHANGED <<dir, mtt, autoRestart, removing>> /\ Alive' = Alive
        BY <1>0, <3>1, SameAlive DEF peerVars, linkVars, outcomeVars
      <4> QED
        BY <1>0, <4>1, StillPosts
    <3> QED
      BY <1>0, <2>2, <3>1, BeginPosts, UploadPosts, RestartPosts
  <2>4. GoodCalls(todo', Down', Range(removing'))
    BY <1>0, <2>1, <2>2, GoodOthers
  <2> QED
    BY <2>3, <2>4 DEF RemovalOK
<1> QED
  BY <1>2, <1>3, <1>4, <1>5

\* The session that is deleted is not the one of another message.
LEMMA DeleteRemoval ==
  ASSUME IInv, todo \in Seq(Calls), RemovalOK, DeleteNext
  PROVE  RemovalOK'
<1>0. PostsOK /\ GoodCalls(todo, Down, Range(removing)) /\ Doing("delete")
  BY DEF RemovalOK, DeleteNext
<1>1. PICK s \in Head(todo).s, i \in DOMAIN list :
        /\ s \in Alive /\ list[i] = s /\ list' = RemoveAt(list, i) /\ ThenOthers(<<>>, s)
        /\ dir' = [dir EXCEPT ![s] = "down"] /\ mtt' = [mtt EXCEPT ![s] = "none"]
        /\ autoRestart' = autoRestart \ {s} /\ UNCHANGED <<fresh, removing, opt>>
  BY VisitedAlive DEF DeleteNext
<1>2. Head(todo).s \cap Range(removing) = {}
  <2>1. todo # <<>> /\ Head(todo) = todo[1] /\ 1 \in 1..Len(todo) /\ todo[1].op = "delete"
    BY <1>0 DEF Doing
  <2> QED
    BY <1>0, <2>1 DEF GoodCalls
<1>3. /\ s \in Sessions /\ s \notin Range(removing)
      /\ \A x \in Sessions \ {s} : dir'[x] = dir[x] /\ mtt'[x] = mtt[x]
  BY <1>1, <1>2, PostedSessions DEF IInv, SessionTypeOK
<1>4. ASSUME NEW x \in Alive \ {s} PROVE x \in Alive'
  <2>1. list \in Seq(Sessions) /\ x \in Range(list) /\ x # list[i]
    BY <1>1 DEF IInv, WindowTypeOK, Alive
  <2>2. x \in Range(RemoveAt(list, i))
    BY <2>1, RemoveAtKeeps
  <2> QED
    BY <1>1, <2>2 DEF Alive
<1>5. \A x \in Range(removing) : x \in Alive' /\ mtt'[x] = "none" /\ dir'[x] = "up"
  BY <1>0, <1>3, <1>4, PostedSessions DEF PostsOK
<1>6. \A x \in autoRestart' : dir'[x] = "down"
  BY <1>0, <1>1, <1>3, PostedSessions DEF PostsOK
<1>7. PostsOK'
  BY <1>0, <1>1, <1>5, <1>6, PostsSame
<1>8. GoodCalls(todo', Down', Range(removing'))
  <2>1. (Head(todo).s \ {s}) \cap Range(removing') = {}
    BY <1>1, <1>2
  <2>2. <<>> \in Seq(Calls) /\ "delete" \in SessionOps
    BY DEF SessionOps
  <2> QED
    BY <1>0, <1>1, <2>1, <2>2, GoodOthers
<1> QED
  BY <1>7, <1>8 DEF RemovalOK

-----------------------------------------------------------------------------
(* Handlers, and the removal of sessions *)

\* A new session is an upload or a download that nothing is known of.
LEMMA ArrivalRemoval ==
  ASSUME SlotInv, RemovalOK, Arrival
  PROVE  RemovalOK'
<1>0. IInv /\ PostsOK
  BY DEF SlotInv, RemovalOK
<1>1. PICK s \in Sessions, e \in Directions, x \in {"idle", "running"} :
        /\ s \in fresh /\ fresh' = fresh \ {s} /\ list' = Append(list, s)
        /\ dir' = [dir EXCEPT ![s] = e] /\ mtt' = [mtt EXCEPT ![s] = x]
        /\ todo' = <<DequeueCall>>
        /\ UNCHANGED <<autoRestart, removing, opt>>
  BY DEF Arrival, SocketAccepted, ConnectBackRequestReceived, RequestDownload,
         RequestCallback, NewSession, outcomeVars, Directions
<1>2. s \notin Range(removing) \cup autoRestart
  BY <1>0, <1>1 DEF SlotInv, FreshOK, PostsOK
<1>3. Alive \subseteq Alive'
  <2>1. list \in Seq(Sessions) /\ list' \in Seq(Sessions)
    BY <1>0, <1>1 DEF IInv, WindowTypeOK
  <2>2. Len(list') = Len(list) + 1 /\ Len(list) \in Nat /\ \A i \in 1..Len(list) : list'[i] = list[i]
    BY <1>1, <2>1
  <2>3. \A i \in DOMAIN list : i \in DOMAIN list' /\ list'[i] = list[i]
    BY <2>1, <2>2
  <2> QED
    BY <2>3 DEF Alive, Range
<1>4. \A y \in Sessions \ {s} : dir'[y] = dir[y] /\ mtt'[y] = mtt[y]
  BY <1>0, <1>1 DEF IInv, SessionTypeOK
<1>5. \A y \in Range(removing) : y \in Alive' /\ mtt'[y] = "none" /\ dir'[y] = "up"
  BY <1>0, <1>2, <1>3, <1>4, PostedSessions DEF PostsOK
<1>6. \A y \in autoRestart' : dir'[y] = "down"
  BY <1>0, <1>1, <1>2, <1>4, PostedSessions DEF PostsOK
<1>7. PostsOK'
  BY <1>0, <1>1, <1>5, <1>6, PostsSame
<1>8. GoodCalls(todo', Down', Range(removing'))
  BY <1>1, FirstGood DEF SessionOps
<1> QED
  BY <1>7, <1>8 DEF RemovalOK

\* A connection ends, or a session goes on.
LEMMA EventRemoval ==
  ASSUME SlotInv, RemovalOK, Event
  PROVE  RemovalOK'
<1>0. IInv /\ PostsOK
  BY DEF SlotInv, RemovalOK
<1>1. PICK s \in Alive :
        \/ Connected(s) \/ Disconnected(s) \/ BadMessage(s) \/ Rejected(s)
        \/ Md5SendDone(s) \/ FileData(s) \/ Drained(s)
        \/ \E u \in Users : PeerId(s, u) \/ FileList(s, u)
        \/ \E n \in 1..MaxFiles : Md5RecvDone(s, n)
  BY DEF Event
<1>2. UNCHANGED windowVars /\ todo = <<>>
  BY <1>1 DEF Connected, Disconnected, BadMessage, Rejected, Md5SendDone, FileData, Drained,
              PeerId, FileList, Md5RecvDone, Idle
<1>3. Alive' = Alive /\ UNCHANGED <<list, fresh, opt>>
  BY <1>2, SameAlive DEF windowVars
<1>4. /\ s \in Sessions /\ s \notin fresh /\ {s} \in SUBSET Sessions
      /\ {"error", "stop", "upload", "restart"} \subseteq SessionOps
  BY <1>0, PostedSessions DEF SlotInv, FreshOK, SessionOps
<1>5. \A D, R : GoodCalls(<<>>, D, R) /\ GoodCalls(<<DequeueCall>>, D, R)
  BY FirstGood DEF SessionOps
<1>6. \A D, R : \A op \in {"error", "stop", "upload"} :
        GoodCalls(<<Call(op, {s})>>, D, R) /\ GoodCalls(<<DequeueCall, Call(op, {s})>>, D, R)
  BY <1>4, FirstGood
<1>7. dir' = dir
  BY <1>1 DEF Connected, Disconnected, BadMessage, Rejected, Md5SendDone, FileData, Drained,
              PeerId, FileList, Md5RecvDone, AbortSession, sessionVars, peerVars
<1>8. CASE Disconnected(s)
  <2> DEFINE incomplete == IF dir[s] = "down" THEN files[s] > 0 ELSE toSend[s] > 0
             restart == incomplete /\ s \in autoRestart
             leaves == ~restart /\ RemovesItself(s, ~incomplete)
  <2>1. /\ mtt[s] = "running" /\ mtt' = [mtt EXCEPT ![s] = "none"]
        /\ autoRestart' = autoRestart \ {s}
        /\ removing' = IF leaves THEN Append(removing, s) ELSE removing
        /\ todo' = CASE restart -> <<Call("restart", {s}), DequeueCall>>
                     [] leaves -> <<>>
                     [] OTHER -> <<DequeueCall>>
    BY <1>8 DEF Disconnected
  <2>2. leaves => dir[s] = "up"
    BY <1>0 DEF RemovesItself, PostsOK
  <2>3. restart => dir[s] = "down"
    BY <1>0 DEF PostsOK
  <2> HIDE DEF incomplete, restart, leaves
  <2>4. mtt'[s] = "none" /\ \A x \in Sessions \ {s} : mtt'[x] = mtt[x]
    BY <1>0, <1>4, <2>1 DEF IInv, SessionTypeOK
  <2>5. s \notin Range(removing)
    BY <1>0, <2>1 DEF PostsOK
  <2>6. CASE leaves
    <3>1. removing' = Append(removing, s)
      BY <2>1, <2>6
    <3>2. Range(removing') = Range(removing) \cup {s} /\ Distinct(removing')
      BY <1>0, <1>4, <2>5, <3>1, PostOne, PostedSessions DEF PostsOK
    <3>3. \A x \in Range(removing') : x \in Alive' /\ mtt'[x] = "none" /\ dir'[x] = "up"
      BY <1>0, <1>3, <1>7, <2>2, <2>4, <2>6, <3>2, PostedSessions DEF PostsOK
    <3>4. PostsOK'
      BY <1>0, <1>3, <1>7, <2>1, <3>2, <3>3 DEF PostsOK
    <3>5. todo' \in {<<Call("restart", {s}), DequeueCall>>, <<>>} /\ ~restart
      BY <2>1, <2>2, <2>3, <2>6
    <3>6. todo' = <<>>
      BY <2>1, <2>6, <3>5
    <3> QED
      BY <1>5, <3>4, <3>6 DEF RemovalOK
  <2>7. CASE ~leaves
    <3>1. removing' = removing
      BY <2>1, <2>7
    <3>2. \A x \in Range(removing) : x \in Alive' /\ mtt'[x] = "none" /\ dir'[x] = "up"
      BY <1>0, <1>3, <1>7, <2>4, PostedSessions DEF PostsOK
    <3>3. PostsOK'
      BY <1>0, <1>3, <1>7, <2>1, <3>1, <3>2, PostsSame DEF PostsOK
    <3>4. restart => {s} \subseteq Down'
      BY <1>4, <1>7, <2>3 DEF Down
    <3>5. restart => GoodCalls(<<Call("restart", {s}), DequeueCall>>, Down', Range(removing'))
      BY <1>4, <3>4, FirstGood
    <3>6. GoodCalls(todo', Down', Range(removing'))
      BY <1>5, <2>1, <2>7, <3>5
    <3> QED
      BY <3>3, <3>6 DEF RemovalOK
  <2> QED
    BY <2>6, <2>7
<1>9. CASE Drained(s)
  <2>1. CASE AbortSession(s, FALSE) /\ todo' = AbortCalls(s, FALSE, FALSE)
    <3>1. PostsOK'
      BY <1>0, <1>3, <2>1, AbortPosts
    <3>2. Down' = Down /\ (s \in autoRestart => dir[s] = "down")
      BY <1>0, <1>7 DEF Down, PostsOK
    <3>3. GoodCalls(todo', Down', Range(removing'))
      BY <1>0, <1>4, <2>1, <3>2, AbortCallsGood
    <3> QED
      BY <3>1, <3>3 DEF RemovalOK
  <2>2. CASE /\ todo' = <<Call("upload", {s})>>
             /\ UNCHANGED <<peerVars, linkVars, outcomeVars, removing>>
    <3>1. UNCHANGED <<mtt, autoRestart, removing>>
      BY <2>2 DEF linkVars, outcomeVars
    <3>2. PostsOK'
      BY <1>0, <1>3, <1>7, <3>1, StillPosts
    <3> QED
      BY <1>6, <2>2, <3>2 DEF RemovalOK
  <2> QED
    BY <1>9, <2>1, <2>2 DEF Drained
<1>10. CASE FileData(s)
  <2>1. /\ dir[s] = "down" /\ autoRestart' = autoRestart \cup {s}
        /\ UNCHANGED <<mtt, removing, todo>>
    BY <1>10 DEF FileData, linkVars
  <2>2. PostsOK'
    BY <1>0, <1>3, <1>4, <1>7, <2>1 DEF PostsOK
  <2> QED
    BY <1>2, <1>5, <2>1, <2>2 DEF RemovalOK
<1>11. CASE \/ Connected(s) \/ BadMessage(s) \/ Rejected(s) \/ Md5SendDone(s)
            \/ \E u \in Users : PeerId(s, u) \/ FileList(s, u)
            \/ \E n \in 1..MaxFiles : Md5RecvDone(s, n)
  <2>1. UNCHANGED <<mtt, autoRestart, removing>>
    BY <1>11 DEF Connected, BadMessage, Rejected, Md5SendDone, PeerId, FileList, Md5RecvDone,
                 sessionVars, linkVars, outcomeVars
  <2>2. PostsOK'
    BY <1>0, <1>3, <1>7, <2>1, StillPosts
  <2>3. \/ todo' = todo \/ todo' = <<DequeueCall>>
        \/ \E op \in {"error", "stop", "upload"} :
             todo' = <<Call(op, {s})>> \/ todo' = <<DequeueCall, Call(op, {s})>>
    <3>1. CASE Connected(s) \/ \E u \in Users : PeerId(s, u)
      BY <3>1 DEF Connected, PeerId
    <3>2. CASE BadMessage(s) \/ Rejected(s)
      BY <3>2 DEF BadMessage, Rejected
    <3>3. CASE Md5SendDone(s) \/ \E u \in Users : FileList(s, u)
      BY <3>3 DEF Md5SendDone, FileList
    <3>4. CASE \E n \in 1..MaxFiles : Md5RecvDone(s, n)
      BY <3>4 DEF Md5RecvDone
    <3> QED
      BY <1>11, <3>1, <3>2, <3>3, <3>4
  <2> QED
    BY <1>2, <1>5, <1>6, <2>2, <2>3 DEF RemovalOK
<1> QED
  BY <1>1, <1>8, <1>9, <1>10, <1>11

\* A handler that changes no session.
LEMMA CallsRemoval ==
  ASSUME RemovalOK, UNCHANGED <<dir, mtt, autoRestart, removing, fresh>>,
         opt'.autoClear = opt.autoClear, Alive \subseteq Alive',
         GoodCalls(todo', Down, Range(removing))
  PROVE  RemovalOK'
<1>1. PostsOK'
  BY StillPosts DEF RemovalOK
<1>2. Down' = Down
  BY DEF Down
<1> QED
  BY <1>1, <1>2 DEF RemovalOK

LEMMA NoticeRemoval ==
  ASSUME SlotInv, RemovalOK, Notice
  PROVE  RemovalOK'
<1>0. IInv /\ PostsOK /\ Alive \subseteq Sessions
  BY PostedSessions DEF SlotInv, RemovalOK
<1>1. \A D, R : GoodCalls(<<>>, D, R) /\ GoodCalls(<<DequeueCall>>, D, R)
  BY FirstGood DEF SessionOps
<1>2. CASE ScanStarts \/ SharesScanComplete
  <2>1. /\ UNCHANGED <<list, dir, mtt, autoRestart, removing, fresh, opt, todo>>
        /\ todo = <<>>
    BY <1>2 DEF ScanStarts, SharesScanComplete, sessionVars, peerVars, linkVars, outcomeVars, Idle
  <2> QED
    BY <1>1, <2>1, SameAlive, CallsRemoval
<1>3. CASE RemoveSession
  <2>1. /\ removing # <<>> /\ removing' = Tail(removing) /\ todo = <<>>
        /\ UNCHANGED <<list, fresh, opt, dir, mtt, autoRestart>>
    BY <1>3 DEF RemoveSession, sessionVars, peerVars, linkVars, outcomeVars, Idle
  <2>2. /\ Range(removing') \subseteq Range(removing) \ {Head(removing)}
        /\ Head(removing) \in Range(removing) /\ Distinct(removing')
    BY <1>0, <2>1, HandleOne, PostedSessions DEF PostsOK
  <2>3. PostsOK'
    BY <1>0, <2>1, <2>2, SameAlive DEF PostsOK
  <2>4. todo' = <<Call("delete", {Head(removing)}), DequeueCall>>
    BY <1>0, <1>3, <2>2 DEF RemoveSession, PostsOK
  <2>5. {Head(removing)} \in SUBSET Sessions /\ {Head(removing)} \cap Range(removing') = {}
    BY <1>0, <2>2, PostedSessions
  <2>6. GoodCalls(todo', Down', Range(removing'))
    BY <2>4, <2>5, FirstGood DEF SessionOps
  <2> QED
    BY <2>3, <2>6 DEF RemovalOK
<1>4. CASE \/ \E u \in Users : TransferCallbackRejected(u) \/ RemoveUser(u)
                               \/ RestartDownloadsFor(u)
           \/ \E expired \in SUBSET Sessions : CheckForMoribundConnections(expired)
  <2>1. PICK op \in {"reject", "stop", "restart", "error"}, S \in SUBSET Sessions :
          /\ Handler(<<Call(op, S)>>) \/ Handler(<<Call(op, S), DequeueCall>>)
          /\ op = "restart" => S \subseteq Down
    <3>1. ASSUME NEW u \in Users, TransferCallbackRejected(u)
          PROVE  \E S \in SUBSET Sessions : Handler(<<Call("reject", S)>>)
      BY <1>0, <3>1 DEF TransferCallbackRejected
    <3>2. ASSUME NEW u \in Users, RemoveUser(u)
          PROVE  \E S \in SUBSET Sessions : Handler(<<Call("stop", S)>>)
      BY <1>0, <3>2 DEF RemoveUser
    <3>3. ASSUME NEW u \in Users, RestartDownloadsFor(u)
          PROVE  \E S \in SUBSET Sessions : /\ Handler(<<Call("restart", S), DequeueCall>>)
                                            /\ S \subseteq Down
      BY <1>0, <3>3 DEF RestartDownloadsFor, Down
    <3>4. ASSUME NEW expired \in SUBSET Sessions, CheckForMoribundConnections(expired)
          PROVE  \E S \in SUBSET Sessions : Handler(<<Call("error", S)>>)
      BY <3>4 DEF CheckForMoribundConnections
    <3> QED
      BY <1>4, <3>1, <3>2, <3>3, <3>4
  <2>2. /\ UNCHANGED <<list, dir, mtt, autoRestart, removing, fresh, opt>>
        /\ todo' \in {<<Call(op, S)>>, <<Call(op, S), DequeueCall>>}
    BY <2>1 DEF Handler, windowVars, sessionVars, peerVars, linkVars, outcomeVars
  <2>3. GoodCalls(todo', Down, Range(removing))
    BY <2>1, <2>2, FirstGood DEF SessionOps
  <2> QED
    BY <2>2, <2>3, SameAlive, CallsRemoval
<1> QED
  BY <1>2, <1>3, <1>4 DEF Notice

LEMMA UserCommandRemoval ==
  ASSUME SlotInv, OnlyUploadsAreRemoved, RemovalOK, UserCommand
  PROVE  RemovalOK'
<1>0. /\ IInv /\ PostsOK /\ Alive \subseteq Sessions /\ Uploads \subseteq Sessions
      /\ \A S \in Selections : S \in SUBSET Sessions
  BY PostedSessions, UploadsAreSessions DEF SlotInv, IInv, RemovalOK, Selections
<1>1. \A D, R : GoodCalls(<<>>, D, R) /\ GoodCalls(<<DequeueCall>>, D, R)
  BY FirstGood DEF SessionOps
<1>2. \A S \in SUBSET Sessions, op \in {"halt", "resume"} :
        GoodCalls(<<Call(op, S), DequeueCall>>, Down, Range(removing))
  BY FirstGood DEF SessionOps
<1>3. ASSUME UNCHANGED <<list, fresh, sessionVars, removing>>, opt'.autoClear = opt.autoClear,
             GoodCalls(todo', Down, Range(removing))
      PROVE  RemovalOK'
  <2>1. UNCHANGED <<dir, mtt, autoRestart, removing, fresh>> /\ Alive' = Alive
    BY <1>3, SameAlive DEF sessionVars, peerVars, linkVars, outcomeVars
  <2> QED
    BY <1>3, <2>1, CallsRemoval
<1>4. ASSUME NEW e \in Directions, NEW n \in Limits, SetLimit(e, n) \/ SetPerUserLimit(e, n)
      PROVE  RemovalOK'
  <2>1. opt'.autoClear = opt.autoClear
    BY <1>0, <1>4 DEF SetLimit, SetPerUserLimit, IInv, WindowTypeOK, Settings
  <2>2. UNCHANGED <<list, fresh, sessionVars, removing>> /\ todo' = <<DequeueCall>>
    BY <1>4 DEF SetLimit, SetPerUserLimit
  <2> QED
    BY <1>1, <1>3, <2>1, <2>2
<1>5. ASSUME ToggleShortestUploadsFirst PROVE RemovalOK'
  <2>1. opt'.autoClear = opt.autoClear
    BY <1>0, <1>5 DEF ToggleShortestUploadsFirst, IInv, WindowTypeOK, Settings
  <2>2. UNCHANGED <<list, fresh, sessionVars, removing>> /\ todo' = <<DequeueCall>>
    BY <1>5 DEF ToggleShortestUploadsFirst
  <2> QED
    BY <1>1, <1>3, <2>1, <2>2
<1>6. ~ToggleAutoClear /\ ~ClearFinished /\ \A S \in Selections : ~CancelSelected(S)
  BY DEF OnlyUploadsAreRemoved, ToggleAutoClear, ClearFinished, CancelSelected
<1>7. ASSUME PauseAllUploads PROVE RemovalOK'
  <2>1. /\ UNCHANGED <<dir, mtt, autoRestart, removing, fresh, opt, list>>
        /\ todo' = <<DequeueCall>>
    BY <1>7 DEF PauseAllUploads, windowVars, peerVars, linkVars, outcomeVars
  <2> QED
    BY <1>1, <2>1, SameAlive, CallsRemoval
<1>8. ASSUME NEW S \in Selections, HaltSelected(S) \/ ResumeSelected(S) PROVE RemovalOK'
  <2>1. PICK op \in {"halt", "resume"} : Handler(<<Call(op, S), DequeueCall>>)
    BY <1>8 DEF HaltSelected, ResumeSelected
  <2> QED
    BY <1>0, <1>2, <1>3, <2>1 DEF Handler, windowVars
<1>9. ASSUME ResumeAllUploads PROVE RemovalOK'
  <2> DEFINE S == Uploads \cap waiting
             calls == CallAll("resume", S) \o <<DequeueCall>>
  <2>1. GoodCalls(calls, Down, Range(removing))
    <3>1. PICK a \in Calls, b \in Calls :
            a = Call("resume", S) /\ a.op = "resume" /\ b = DequeueCall /\ b.op = "dequeue"
      BY <1>0, CallOps DEF SessionOps
    <3>2. GoodCalls(<<>>, Down, Range(removing)) /\ GoodCalls(<<a>>, Down, Range(removing))
      BY <3>1, ShortStacks
    <3>7. NoMore(<<b>>)
      BY <3>1 DEF NoMore
    <3>3. CallAll("resume", S) \in {<<>>, <<a>>}
      BY <3>1 DEF CallAll
    <3>4. <<>> \in Seq(Calls) /\ <<a>> \in Seq(Calls) /\ <<b>> \in Seq(Calls)
      OBVIOUS
    <3>5. PICK c \in Seq(Calls) : c = CallAll("resume", S)
      BY <3>3, <3>4
    <3>6. GoodCalls(c \o <<b>>, Down, Range(removing))
      BY <3>2, <3>3, <3>4, <3>5, <3>7, GoodOnTop
    <3> QED
      BY <3>1, <3>5, <3>6
  <2>2. Handler(calls)
    BY <1>9 DEF ResumeAllUploads
  <2> HIDE DEF calls
  <2> QED
    BY <1>3, <2>1, <2>2 DEF Handler, windowVars
<1>10. ASSUME NEW i \in DOMAIN list, NEW j \in DOMAIN list, MoveSelected(i, j) PROVE RemovalOK'
  <2>1. Alive \subseteq Alive'
    BY <1>0, <1>10, MoveKeeps DEF IInv, WindowTypeOK
  <2>2. /\ UNCHANGED <<dir, mtt, autoRestart, removing, fresh, opt, todo>> /\ todo = <<>>
    BY <1>10 DEF MoveSelected, sessionVars, peerVars, linkVars, outcomeVars, Idle
  <2> QED
    BY <1>1, <2>1, <2>2, CallsRemoval
<1> QED
  BY <1>4, <1>5, <1>6, <1>7, <1>8, <1>9, <1>10 DEF UserCommand

LEMMA InitRemoval == Init => RemovalInv
<1> SUFFICES ASSUME Init PROVE RemovalInv
  OBVIOUS
<1>1. SlotInv
  BY InitSlot
<1>2. removing = <<>> /\ todo = <<>> /\ autoRestart = {} /\ opt = FirstOpt
  BY DEF Init
<1>3. Range(removing) = {} /\ Distinct(removing)
  BY <1>2 DEF Range, Distinct
<1>4. GoodCalls(todo, Down, Range(removing))
  BY <1>2 DEF GoodCalls
<1> QED
  BY <1>1, <1>2, <1>3, <1>4 DEF RemovalInv, RemovalOK, PostsOK, OnlyUploadsAreRemoved

LEMMA NextRemoval == RemovalInv /\ [Next]_vars => RemovalInv'
<1> SUFFICES ASSUME RemovalInv, [Next]_vars PROVE RemovalInv'
  OBVIOUS
<1>1. SlotInv /\ SlotInv'
  BY NextSlot DEF RemovalInv
<1>2. IInv /\ IInv' /\ todo \in Seq(Calls)
  BY <1>1, InvType DEF SlotInv, TypeOK
<1>3. SUFFICES ASSUME OnlyUploadsAreRemoved PROVE RemovalOK'
  BY <1>1 DEF RemovalInv, OnlyUploadsAreRemoved
<1>4. RemovalOK
  BY <1>3 DEF RemovalInv
<1>5. CASE UNCHANGED vars
  <2>1. UNCHANGED <<todo, list, dir, mtt, autoRestart, removing, fresh, opt>>
    BY <1>5 DEF vars, windowVars, sessionVars, peerVars, linkVars, outcomeVars
  <2> QED
    BY <1>4, <2>1, SameAlive, CallsRemoval DEF RemovalOK
<1> QED
  BY <1>1, <1>2, <1>3, <1>4, <1>5, StageRemoval, SessionRemoval, DeleteRemoval, ArrivalRemoval,
     EventRemoval, NoticeRemoval, UserCommandRemoval DEF Next, Step

\* REMOVE_SESSION is posted once for a session, which is still in the list when the message
\* is handled, whatever connections, restarts, resumptions and limits come in between:
\* as long as nothing else deletes sessions and only uploads post it (RemovesItself()).
THEOREM RemovesLiveSessionsHolds == OnlyUploadsAreRemoved /\ Spec => []RemovesLiveSessions
<1>1. OnlyUploadsAreRemoved /\ RemovalInv => RemovesLiveSessions
  BY DEF RemovalInv, RemovalOK, PostsOK, Distinct, RemovesLiveSessions
<1>2. Spec => []RemovalInv
  BY InitRemoval, NextRemoval, PTL DEF Spec
<1>3. CASE OnlyUploadsAreRemoved
  <2>1. RemovalInv => RemovesLiveSessions
    BY <1>1, <1>3
  <2> QED
    BY <1>2, <2>1, PTL
<1> QED
  BY <1>3

-----------------------------------------------------------------------------
(* What the calls on the stack are followed by *)

\* A call that looks for somebody to give the slots of one direction to.
Refills(c, d) == c.op = "dequeue" \/ (c.op = "slots" /\ c.d = d)

RefilledFrom(calls, i, d) == \E j \in i..Len(calls) : Refills(calls[j], d)

\* After what changes the queue or frees slots without looking further.
Followed == {"reorder", "restart", "halt", "resume"}

\* The calls that free a slot, queue a session or let halted ones begin are followed by
\* one that fills the slots of either direction, be it in "after", the directions filled
\* below these calls.  A deletion is the call at hand, and needs it unless its sessions
\* are over.  Before a restart, which is of downloads, and the next chunk of an upload,
\* only slots are filled.
Follows(calls, after, down, up, over) ==
  \A j \in 1..Len(calls) :
    /\ calls[j].op \in Followed =>
         \A d \in Directions : d \in after \/ RefilledFrom(calls, j + 1, d)
    /\ calls[j].op = "delete" =>
         j = 1 /\ (\/ calls[j].s \subseteq over
                   \/ \A d \in Directions : d \in after \/ RefilledFrom(calls, j + 1, d))
    /\ calls[j].op = "restart" => calls[j].s \subseteq down
    /\ calls[j].op = "upload" => calls[j].s \subseteq up
    /\ calls[j].op \in {"restart", "upload"} => \A i \in 1..(j - 1) : calls[i].op \in StageOps

\* Calls that may be below any other one.
Plain(calls) == \A i \in 1..Len(calls) : calls[i].op \notin {"restart", "upload", "delete"}

LEMMA RefilledConcat ==
  ASSUME NEW s \in Seq(Calls), NEW t \in Seq(Calls), NEW d
  PROVE  /\ \A i \in Nat \ {0} : RefilledFrom(s, i, d) => RefilledFrom(s \o t, i, d)
         /\ RefilledFrom(t, 1, d) => \A i \in 1..(Len(s) + 1) : RefilledFrom(s \o t, i, d)
<1>1. PICK c \in Seq(Calls) : c = s \o t
  BY Concat
<1>2. /\ Len(s) \in Nat /\ Len(t) \in Nat /\ Len(c) = Len(s) + Len(t)
      /\ \A i \in 1..Len(s) : c[i] = s[i]
      /\ \A i \in (Len(s) + 1)..(Len(s) + Len(t)) : c[i] = t[i - Len(s)] /\ i - Len(s) \in 1..Len(t)
  BY <1>1, Concat
<1>3. ASSUME NEW i \in Nat \ {0}, RefilledFrom(s, i, d) PROVE RefilledFrom(c, i, d)
  <2>1. PICK j \in i..Len(s) : Refills(s[j], d)
    BY <1>3 DEF RefilledFrom
  <2>2. j \in 1..Len(s) /\ j \in i..Len(c) /\ c[j] = s[j]
    BY <1>2
  <2> QED
    BY <2>1, <2>2 DEF RefilledFrom
<1>4. ASSUME RefilledFrom(t, 1, d), NEW i \in 1..(Len(s) + 1) PROVE RefilledFrom(c, i, d)
  <2>1. PICK k \in 1..Len(t) : Refills(t[k], d)
    BY <1>4 DEF RefilledFrom
  <2>2. PICK j \in (Len(s) + 1)..(Len(s) + Len(t)) : j = Len(s) + k
    <3>1. k \in Int /\ Len(s) + k \in (Len(s) + 1)..(Len(s) + Len(t))
      BY <1>2
    <3> QED
      BY <3>1
  <2>3. c[j] = t[k] /\ j \in i..Len(c)
    <3>1. c[j] = t[j - Len(s)] /\ j - Len(s) = k
      BY <1>2, <2>2
    <3> QED
      BY <1>2, <3>1
  <2> QED
    BY <2>1, <2>3 DEF RefilledFrom
<1> QED
  BY <1>1, <1>3, <1>4

\* Calls on top of others, which are not deletions and not to be met directly.
LEMMA FollowsConcat ==
  ASSUME NEW s \in Seq(Calls), NEW t \in Seq(Calls), NEW A \in SUBSET Directions,
         NEW B, NEW D, NEW U, NEW F,
         Follows(s, A, D, U, F), Follows(t, B, D, U, F),
         \A d \in A : d \in B \/ RefilledFrom(t, 1, d),
         \A i \in 1..Len(t) : t[i].op # "delete",
         Plain(t) \/ AllStages(s)
  PROVE  Follows(s \o t, B, D, U, F) /\ s \o t \in Seq(Calls)
<1>1. PICK c \in Seq(Calls) : c = s \o t
  BY Concat
<1>2. /\ Len(s) \in Nat /\ Len(t) \in Nat /\ Len(c) = Len(s) + Len(t)
      /\ \A i \in 1..Len(s) : c[i] = s[i]
      /\ \A i \in (Len(s) + 1)..(Len(s) + Len(t)) : c[i] = t[i - Len(s)] /\ i - Len(s) \in 1..Len(t)
  BY <1>1, Concat
<1>3. ASSUME NEW j \in 1..Len(s), NEW d \in Directions, d \in A \/ RefilledFrom(s, j + 1, d)
      PROVE  d \in B \/ RefilledFrom(c, j + 1, d)
  <2>1. j + 1 \in Nat \ {0} /\ j + 1 \in 1..(Len(s) + 1)
    BY <1>2
  <2>2. CASE RefilledFrom(s, j + 1, d)
    BY <1>1, <2>1, <2>2, RefilledConcat
  <2>3. CASE d \in A
    BY <1>1, <2>1, <2>3, RefilledConcat
  <2> QED
    BY <1>3, <2>2, <2>3
<1>4. ASSUME NEW k \in 1..Len(t), NEW d, RefilledFrom(t, k + 1, d)
      PROVE  RefilledFrom(c, Len(s) + k + 1, d)
  <2>1. PICK l \in (k + 1)..Len(t) : Refills(t[l], d)
    BY <1>4 DEF RefilledFrom
  <2>2. PICK j \in (Len(s) + 1)..(Len(s) + Len(t)) : j = Len(s) + l
    <3>1. l \in Int /\ Len(s) + l \in (Len(s) + 1)..(Len(s) + Len(t))
      BY <1>2
    <3> QED
      BY <3>1
  <2>3. c[j] = t[l] /\ j \in (Len(s) + k + 1)..Len(c)
    <3>1. c[j] = t[j - Len(s)] /\ j - Len(s) = l
      <4>1. j - Len(s) = l
        BY <1>2, <2>2
      <4> QED
        BY <1>2, <4>1
    <3>2. j >= Len(s) + k + 1 /\ j <= Len(c) /\ j \in Int
      BY <1>2, <2>2
    <3> QED
      BY <1>2, <3>1, <3>2
  <2> QED
    BY <2>1, <2>3 DEF RefilledFrom
<1>5. ASSUME NEW j \in 1..Len(c)
      PROVE  /\ c[j].op \in Followed => \A d \in Directions : d \in B \/ RefilledFrom(c, j + 1, d)
             /\ c[j].op = "delete" =>
                  j = 1 /\ (\/ c[j].s \subseteq F
                            \/ \A d \in Directions : d \in B \/ RefilledFrom(c, j + 1, d))
             /\ c[j].op = "restart" => c[j].s \subseteq D
             /\ c[j].op = "upload" => c[j].s \subseteq U
             /\ c[j].op \in {"restart", "upload"} => \A i \in 1..(j - 1) : c[i].op \in StageOps
  <2>1. CASE j \in 1..Len(s)
    <3>1. c[j] = s[j] /\ \A i \in 1..(j - 1) : c[i] = s[i]
      BY <1>2, <2>1
    <3>2. \A d \in Directions : d \in A \/ RefilledFrom(s, j + 1, d) => d \in B \/ RefilledFrom(c, j + 1, d)
      BY <1>3, <2>1
    <3> QED
      BY <2>1, <3>1, <3>2 DEF Follows
  <2>2. CASE j \notin 1..Len(s)
    <3>1. j \in (Len(s) + 1)..(Len(s) + Len(t))
      BY <1>2, <2>2
    <3>2. PICK k \in 1..Len(t) : c[j] = t[k] /\ k = j - Len(s)
      BY <1>2, <3>1
    <3>3. \A d \in Directions : RefilledFrom(t, k + 1, d) => RefilledFrom(c, j + 1, d)
      <4>1. Len(s) + k + 1 = j + 1
        BY <1>2, <3>2
      <4> QED
        BY <1>4, <4>1
    <3>4. ASSUME NEW i \in 1..(j - 1), c[j].op \in {"restart", "upload"} PROVE c[i].op \in StageOps
      <4>0. AllStages(s)
        BY <3>2, <3>4 DEF Plain
      <4>1. CASE i \in 1..Len(s)
        BY <1>2, <4>0, <4>1 DEF AllStages
      <4>2. CASE i \notin 1..Len(s)
        <5>1. i \in (Len(s) + 1)..(Len(s) + Len(t)) /\ i - Len(s) \in 1..(k - 1)
          BY <1>2, <3>1, <3>2, <4>2
        <5>2. c[i] = t[i - Len(s)]
          BY <1>2, <5>1
        <5> QED
          BY <3>2, <3>4, <5>1, <5>2 DEF Follows
      <4> QED
        BY <4>1, <4>2
    <3>5. c[j].op # "delete"
      BY <3>2
    <3>6. c[j].op \in Followed => \A d \in Directions : d \in B \/ RefilledFrom(c, j + 1, d)
      BY <3>2, <3>3 DEF Follows
    <3> QED
      BY <3>2, <3>4, <3>5, <3>6 DEF Follows
  <2> QED
    BY <2>1, <2>2
<1> QED
  BY <1>1, <1>5 DEF Follows

\* What is below a call can be below any other one if this is a call for sessions, and
\* fills the slots if this is to be followed.
LEMMA FollowsBelow ==
  ASSUME NEW t \in Seq(Calls), t # <<>>, NEW D, NEW U, NEW F, Follows(t, {}, D, U, F),
         NEW E, NEW V, NEW G, Head(t).op \in StageOps => E = D /\ V = U
  PROVE  /\ Tail(t) \in Seq(Calls) /\ Follows(Tail(t), {}, E, V, G)
         /\ \A i \in 1..Len(Tail(t)) : Tail(t)[i].op # "delete"
         /\ Head(t).op \notin StageOps => Plain(Tail(t))
         /\ Head(t).op \in Followed => \A d \in Directions : RefilledFrom(Tail(t), 1, d)
         /\ Head(t).op = "delete" =>
              Head(t).s \subseteq F \/ \A d \in Directions : RefilledFrom(Tail(t), 1, d)
<1>1. PICK rest \in Seq(Calls) : rest = Tail(t)
  BY TailFacts
<1>2. /\ Len(t) \in Nat \ {0} /\ Len(rest) = Len(t) - 1 /\ Head(t) = t[1]
      /\ \A i \in 1..(Len(t) - 1) : rest[i] = t[i + 1] /\ i + 1 \in 2..Len(t)
  BY <1>1, TailFacts
<1>3. ASSUME NEW k \in 1..Len(t), NEW d, RefilledFrom(t, k + 1, d) PROVE RefilledFrom(rest, k, d)
  <2>1. PICK j \in (k + 1)..Len(t) : Refills(t[j], d)
    BY <1>3 DEF RefilledFrom
  <2>2. PICK i \in k..Len(rest) : i = j - 1
    <3>1. j \in Int /\ j - 1 \in k..Len(rest)
      BY <1>2
    <3> QED
      BY <3>1
  <2>3. rest[i] = t[j]
    <3>1. i \in 1..(Len(t) - 1) /\ i + 1 = j
      BY <1>2, <2>2
    <3> QED
      BY <1>2, <3>1
  <2> QED
    BY <2>1, <2>3 DEF RefilledFrom
<1>4. ASSUME NEW i \in 1..Len(rest)
      PROVE  /\ rest[i].op # "delete"
             /\ Head(t).op \notin StageOps => rest[i].op \notin {"restart", "upload"}
             /\ rest[i].op \in Followed => \A d \in Directions : RefilledFrom(rest, i + 1, d)
             /\ rest[i].op = "restart" => rest[i].s \subseteq D
             /\ rest[i].op = "upload" => rest[i].s \subseteq U
             /\ rest[i].op \in {"restart", "upload"} => \A k \in 1..(i - 1) : rest[k].op \in StageOps
  <2>1. PICK j \in 2..Len(t) : j = i + 1 /\ rest[i] = t[j]
    BY <1>2
  <2>2. j \in 1..Len(t) /\ j # 1 /\ 1 \in 1..(j - 1)
    BY <1>2
  <2>3. \A d \in Directions : RefilledFrom(t, j + 1, d) => RefilledFrom(rest, i + 1, d)
    BY <1>3, <2>1, <2>2
  <2>4. ASSUME NEW k \in 1..(i - 1), rest[i].op \in {"restart", "upload"} PROVE rest[k].op \in StageOps
    <3>1. k + 1 \in 1..(j - 1) /\ rest[k] = t[k + 1]
      BY <1>2, <2>1
    <3> QED
      BY <2>1, <2>2, <2>4, <3>1 DEF Follows
  <2>5. Head(t).op \notin StageOps => rest[i].op \notin {"restart", "upload"}
    BY <1>2, <2>1, <2>2 DEF Follows
  <2> QED
    BY <2>1, <2>2, <2>3, <2>4, <2>5 DEF Follows
<1>5. Follows(rest, {}, E, V, G)
  BY <1>4 DEF Follows
<1>6. Head(t).op \notin StageOps => Plain(rest)
  BY <1>4 DEF Plain
<1>7. 1 \in 1..Len(t) /\ \A d : RefilledFrom(t, 1 + 1, d) => RefilledFrom(rest, 1, d)
  BY <1>2, <1>3
<1>8. /\ Head(t).op \in Followed => \A d \in Directions : RefilledFrom(rest, 1, d)
      /\ Head(t).op = "delete" =>
           Head(t).s \subseteq F \/ \A d \in Directions : RefilledFrom(rest, 1, d)
  BY <1>2, <1>7 DEF Follows
<1> QED
  BY <1>1, <1>4, <1>5, <1>6, <1>8

LEMMA FollowsOne ==
  ASSUME NEW a \in Calls, NEW D, NEW U, NEW F,
         a.op = "restart" => a.s \subseteq D, a.op = "upload" => a.s \subseteq U
  PROVE  /\ <<>> \in Seq(Calls) /\ <<a>> \in Seq(Calls)
         /\ Follows(<<>>, {}, D, U, F) /\ Plain(<<>>) /\ AllStages(<<>>)
         /\ Follows(<<a>>, Directions, D, U, F)
         /\ a.op \notin Followed /\ (a.op = "delete" => a.s \subseteq F) => Follows(<<a>>, {}, D, U, F)
         /\ a.op \notin {"restart", "upload", "delete"} => Plain(<<a>>)
         /\ a.op \in StageOps => AllStages(<<a>>)
         /\ \A d : Refills(a, d) => RefilledFrom(<<a>>, 1, d)
<1>1. /\ <<>> \in Seq(Calls) /\ Len(<<>>) = 0
      /\ <<a>> \in Seq(Calls) /\ Len(<<a>>) = 1 /\ <<a>>[1] = a
  OBVIOUS
<1>2. \A d : Refills(a, d) => RefilledFrom(<<a>>, 1, d)
  BY <1>1 DEF RefilledFrom
<1>3. \A j \in 1..Len(<<a>>) : j = 1 /\ <<a>>[j] = a /\ 1..(j - 1) = {}
  BY <1>1
<1>4. /\ Follows(<<a>>, Directions, D, U, F)
      /\ a.op \notin Followed /\ (a.op = "delete" => a.s \subseteq F) => Follows(<<a>>, {}, D, U, F)
  BY <1>3 DEF Follows
<1> QED
  BY <1>1, <1>2, <1>3, <1>4 DEF Follows, Plain, AllStages

\* A step of a call for sessions: what it calls, and what it has still to visit.
LEMMA FollowsOthers ==
  ASSUME IInv, todo \in Seq(Calls), NEW D, NEW U, NEW F, Follows(todo, {}, D, U, F),
         NEW op \in SessionOps, Doing(op), NEW s, NEW calls \in Seq(Calls),
         ThenOthers(calls, s), NEW E, NEW V, NEW G, Follows(calls, {}, E, V, G),
         op = "restart" => Head(todo).s \ {s} \subseteq E,
         op = "upload" => Head(todo).s \ {s} \subseteq V,
         op = "delete" => (Head(todo).s \subseteq F => Head(todo).s \ {s} \subseteq G),
         calls = <<>> \/ op \notin {"restart", "upload", "delete"}
  PROVE  /\ todo' \in Seq(Calls) /\ Follows(todo', {}, E, V, G)
         /\ \A d : RefilledFrom(calls, 1, d) \/ RefilledFrom(Tail(todo), 1, d) => RefilledFrom(todo', 1, d)
<1> DEFINE others == Head(todo).s \ {s}
           mine == CallAll(Head(todo).op, others)
<1>1. Head(todo).op = op /\ todo # <<>> /\ op \notin StageOps
  BY DEF Doing, SessionOps, StageOps
<1>2. PICK rest \in Seq(Calls) :
        /\ rest = Tail(todo) /\ Follows(rest, {}, E, V, G) /\ Plain(rest)
        /\ \A i \in 1..Len(rest) : rest[i].op # "delete"
        /\ op \in Followed => \A d \in Directions : RefilledFrom(rest, 1, d)
        /\ op = "delete" => Head(todo).s \subseteq F \/ \A d \in Directions : RefilledFrom(rest, 1, d)
  BY <1>1, FollowsBelow
<1>3. others \subseteq Sessions
  BY HeadSessions DEF IInv
<1>4. todo' = calls \o mine \o rest
  BY <1>2 DEF ThenOthers
<1>5. PICK a \in Calls : a = Call(op, others) /\ a.op = op /\ a.s = others
  BY <1>3, CallOps, CallSessions
<1>6. PICK m : m = mine /\ m \in {<<>>, <<a>>}
  BY <1>1, <1>5 DEF CallAll
<1> HIDE DEF mine
<1>7. PICK A \in SUBSET Directions :
        /\ Follows(m, A, E, V, G) /\ m \in Seq(Calls)
        /\ \A d \in A : RefilledFrom(rest, 1, d)
  <2>0. /\ op = "restart" => a.s \subseteq E
        /\ op = "upload" => a.s \subseteq V
    BY <1>5
  <2>1. CASE m = <<>>
    <3>1. Follows(m, {}, E, V, G) /\ m \in Seq(Calls)
      BY <1>5, <2>0, <2>1, FollowsOne
    <3> QED
      BY <3>1
  <2>2. CASE m = <<a>> /\ \A d \in Directions : RefilledFrom(rest, 1, d)
    <3>1. Follows(m, Directions, E, V, G) /\ m \in Seq(Calls)
      BY <1>5, <2>0, <2>2, FollowsOne
    <3> QED
      BY <2>2, <3>1
  <2>3. CASE m = <<a>> /\ op \notin Followed /\ (op = "delete" => Head(todo).s \subseteq F)
    <3>1. a.op = "delete" => a.s \subseteq G
      BY <1>5, <2>3
    <3>2. Follows(m, {}, E, V, G) /\ m \in Seq(Calls)
      BY <1>5, <2>0, <2>3, <3>1, FollowsOne
    <3> QED
      BY <3>2
  <2> QED
    BY <1>2, <1>6, <2>1, <2>2, <2>3
<1>8. PICK c \in Seq(Calls) : c = calls \o m /\ Follows(c, A, E, V, G)
  <2>1. CASE calls = <<>>
    BY <1>7, <2>1
  <2>2. CASE op \notin {"restart", "upload", "delete"}
    <3>1. Plain(m)
      BY <1>5, <1>6, <2>2, FollowsOne
    <3>2. \A i \in 1..Len(m) : m[i].op # "delete"
      BY <3>1 DEF Plain
    <3>3. {} \in SUBSET Directions /\ \A d \in {} : d \in A \/ RefilledFrom(m, 1, d)
      OBVIOUS
    <3>4. Follows(calls \o m, A, E, V, G) /\ calls \o m \in Seq(Calls)
      BY <1>7, <3>1, <3>2, <3>3, FollowsConcat
    <3> QED
      BY <3>4
  <2> QED
    BY <2>1, <2>2
<1>9. Follows(c \o rest, {}, E, V, G) /\ c \o rest \in Seq(Calls)
  BY <1>2, <1>7, <1>8, FollowsConcat
<1>10. ASSUME NEW d, RefilledFrom(calls, 1, d) \/ RefilledFrom(rest, 1, d)
       PROVE  RefilledFrom(c \o rest, 1, d)
  <2>1. RefilledFrom(calls, 1, d) => RefilledFrom(c, 1, d)
    <3>1. 1 \in Nat \ {0}
      OBVIOUS
    <3>2. RefilledFrom(calls, 1, d) => RefilledFrom(calls \o m, 1, d)
      BY <1>7, <3>1, RefilledConcat
    <3> QED
      BY <1>8, <3>2
  <2>2. Len(c) \in Nat /\ 1 \in 1..(Len(c) + 1) /\ 1 \in Nat \ {0}
    BY Concat
  <2> QED
    BY <1>10, <2>1, <2>2, RefilledConcat
<1> QED
  BY <1>2, <1>4, <1>6, <1>8, <1>9, <1>10

LEMMA TwoCalls ==
  ASSUME NEW a \in Calls, NEW b \in Calls
  PROVE  <<a>> \o <<b>> = <<a, b>> /\ <<a, b>> \in Seq(Calls)
<1>1. <<a>> \in Seq(Calls) /\ <<b>> \in Seq(Calls) /\ <<a, b>> \in Seq(Calls)
  OBVIOUS
<1>2. PICK x \in Seq(Calls), y \in Seq(Calls), e \in Seq(Calls) :
        x = <<a>> /\ y = <<b>> /\ e = <<a, b>>
  BY <1>1
<1>3. /\ Len(x) = 1 /\ Len(y) = 1 /\ x[1] = a /\ y[1] = b
      /\ Len(e) = 2 /\ e[1] = a /\ e[2] = b
  BY <1>2
<1>4. PICK c \in Seq(Calls) : c = x \o y
  BY Concat
<1>5. Len(c) = 2 /\ c[1] = a /\ c[2] = b
  <2>1. /\ Len(c) = Len(x) + Len(y)
        /\ \A i \in 1..Len(x) : c[i] = x[i]
        /\ \A i \in (Len(x) + 1)..(Len(x) + Len(y)) : c[i] = y[i - Len(x)]
    BY <1>4, Concat
  <2> QED
    BY <1>3, <2>1
<1>6. c = e
  BY <1>3, <1>5
<1> QED
  BY <1>1, <1>2, <1>4, <1>6

\* AbortSession() calls for the restart of downloads only, and fills the slots after it; it
\* fills them too if the session had a transceiver and does not leave the list.
LEMMA AbortCallsFollow ==
  ASSUME NEW s \in Sessions, NEW error \in BOOLEAN, NEW restart \in BOOLEAN,
         NEW D, NEW U, NEW F, s \in autoRestart => s \in D
  PROVE  /\ AbortCalls(s, error, restart) \in Seq(Calls)
         /\ Follows(AbortCalls(s, error, restart), {}, D, U, F)
         /\ mtt[s] # "none" /\ ~RemovesItself(s, ~error) =>
              \A d : RefilledFrom(AbortCalls(s, error, restart), 1, d)
<1> DEFINE first == IF mtt[s] # "none" /\ ~RemovesItself(s, ~error)
                    THEN <<DequeueCall>> ELSE <<>>
           second == IF restart /\ s \in autoRestart
                     THEN <<Call("restart", {s}), DequeueCall>> ELSE <<>>
<1>0. PICK b \in Calls : b = DequeueCall /\ b.op = "dequeue"
  BY CallOps
<1>1. /\ first \in Seq(Calls) /\ AllStages(first) /\ Follows(first, {}, D, U, F)
      /\ mtt[s] # "none" /\ ~RemovesItself(s, ~error) => \A d : RefilledFrom(first, 1, d)
  <2>1. /\ <<>> \in Seq(Calls) /\ AllStages(<<>>) /\ Follows(<<>>, {}, D, U, F)
        /\ <<b>> \in Seq(Calls) /\ AllStages(<<b>>) /\ Follows(<<b>>, {}, D, U, F)
        /\ \A d : RefilledFrom(<<b>>, 1, d)
    BY <1>0, FollowsOne DEF StageOps, Followed, Refills
  <2> QED
    BY <1>0, <2>1
<1>2. /\ second \in Seq(Calls) /\ Follows(second, {}, D, U, F)
      /\ \A i \in 1..Len(second) : second[i].op # "delete"
  <2>1. PICK a \in Calls : a = Call("restart", {s}) /\ a.op = "restart" /\ a.s = {s}
    BY CallOps, CallSessions DEF SessionOps
  <2>2. CASE restart /\ s \in autoRestart
    <3>1. a.s \subseteq D
      BY <2>1, <2>2
    <3>2. /\ <<a>> \in Seq(Calls) /\ Follows(<<a>>, Directions, D, U, F)
          /\ <<b>> \in Seq(Calls) /\ Follows(<<b>>, {}, D, U, F) /\ Plain(<<b>>)
          /\ \A d : RefilledFrom(<<b>>, 1, d)
      BY <1>0, <2>1, <3>1, FollowsOne DEF Followed, Refills
    <3>3. \A i \in 1..Len(<<b>>) : <<b>>[i].op # "delete"
      BY <3>2 DEF Plain
    <3>4. Directions \in SUBSET Directions /\ \A d \in Directions : d \in {} \/ RefilledFrom(<<b>>, 1, d)
      BY <3>2
    <3>5. Follows(<<a>> \o <<b>>, {}, D, U, F)
      BY <3>2, <3>3, <3>4, FollowsConcat
    <3>6. <<a>> \o <<b>> = <<a, b>> /\ <<a, b>> \in Seq(Calls)
      BY TwoCalls
    <3>7. \A i \in 1..Len(<<a, b>>) : <<a, b>>[i].op # "delete"
      BY <1>0, <2>1
    <3>8. second = <<a, b>>
      BY <1>0, <2>1, <2>2
    <3> HIDE DEF second
    <3> QED
      BY <3>5, <3>6, <3>7, <3>8
  <2>3. CASE ~(restart /\ s \in autoRestart)
    <3>1. second = <<>>
      BY <2>3
    <3>2. <<>> \in Seq(Calls) /\ Follows(<<>>, {}, D, U, F) /\ Len(<<>>) = 0
      BY <1>0, FollowsOne
    <3> HIDE DEF second
    <3> QED
      BY <3>1, <3>2
  <2> QED
    BY <2>2, <2>3
<1>3. AbortCalls(s, error, restart) = first \o second
  BY DEF AbortCalls
<1> HIDE DEF first, second
<1>4. {} \in SUBSET Directions /\ \A d \in {} : d \in {} \/ RefilledFrom(second, 1, d)
  OBVIOUS
<1>5. Follows(first \o second, {}, D, U, F) /\ first \o second \in Seq(Calls)
  BY <1>1, <1>2, <1>4, FollowsConcat
<1>6. \A d : RefilledFrom(first, 1, d) => RefilledFrom(first \o second, 1, d)
  <2>1. 1 \in Nat \ {0}
    OBVIOUS
  <2> QED
    BY <1>1, <1>2, <2>1, RefilledConcat
<1> QED
  BY <1>1, <1>3, <1>5, <1>6

\* The stacks with which a handler begins.
LEMMA FirstFollows ==
  ASSUME NEW op \in SessionOps, NEW S \in SUBSET Sessions, NEW D, NEW U, NEW F,
         op = "restart" => S \subseteq D, op = "upload" => S \subseteq U
  PROVE  /\ Follows(<<>>, {}, D, U, F)
         /\ Follows(<<DequeueCall>>, {}, D, U, F) /\ \A d : RefilledFrom(<<DequeueCall>>, 1, d)
         /\ op \notin Followed /\ (op = "delete" => S \subseteq F) => Follows(<<Call(op, S)>>, {}, D, U, F)
         /\ Follows(<<Call(op, S), DequeueCall>>, {}, D, U, F)
         /\ \A d \in Directions : RefilledFrom(<<Call(op, S), DequeueCall>>, 2, d)
         /\ op = "upload" => Follows(<<DequeueCall, Call(op, S)>>, {}, D, U, F)
<1>1. PICK a \in Calls, b \in Calls :
        /\ a = Call(op, S) /\ a.op = op /\ a.s = S
        /\ b = DequeueCall /\ b.op = "dequeue"
  BY CallOps, CallSessions
<1>2. /\ <<a>> \in Seq(Calls) /\ Follows(<<a>>, Directions, D, U, F)
      /\ op \notin Followed /\ (op = "delete" => S \subseteq F) => Follows(<<a>>, {}, D, U, F)
  BY <1>1, FollowsOne
<1>3. /\ <<b>> \in Seq(Calls) /\ Follows(<<b>>, {}, D, U, F) /\ Plain(<<b>>) /\ AllStages(<<b>>)
      /\ \A d : RefilledFrom(<<b>>, 1, d)
      /\ Follows(<<>>, {}, D, U, F)
  BY <1>1, FollowsOne DEF Followed, Refills, StageOps
<1>4. Follows(<<a, b>>, {}, D, U, F)
  <2>1. \A i \in 1..Len(<<b>>) : <<b>>[i].op # "delete"
    BY <1>3 DEF Plain
  <2>2. Directions \in SUBSET Directions /\ \A d \in Directions : d \in {} \/ RefilledFrom(<<b>>, 1, d)
    BY <1>3
  <2>3. Follows(<<a>> \o <<b>>, {}, D, U, F)
    BY <1>2, <1>3, <2>1, <2>2, FollowsConcat
  <2>4. <<a>> \o <<b>> = <<a, b>>
    BY TwoCalls
  <2> QED
    BY <2>3, <2>4
<1>5. \A d \in Directions : RefilledFrom(<<a, b>>, 2, d)
  BY <1>1 DEF RefilledFrom, Refills
<1>6. ASSUME op = "upload" PROVE Follows(<<b, a>>, {}, D, U, F)
  <2>1. Follows(<<a>>, {}, D, U, F)
    BY <1>2, <1>6 DEF Followed
  <2>2. \A i \in 1..Len(<<a>>) : <<a>>[i].op # "delete"
    BY <1>1, <1>6
  <2>3. {} \in SUBSET Directions /\ \A d \in {} : d \in {} \/ RefilledFrom(<<a>>, 1, d)
    OBVIOUS
  <2>4. Follows(<<b>> \o <<a>>, {}, D, U, F)
    BY <1>2, <1>3, <2>1, <2>2, <2>3, FollowsConcat
  <2>5. <<b>> \o <<a>> = <<b, a>>
    BY TwoCalls
  <2> QED
    BY <2>4, <2>5
<1> QED
  BY <1>1, <1>2, <1>3, <1>4, <1>5, <1>6

\* Filling slots makes calls of its kind.
LEMMA FollowsStages ==
  ASSUME todo \in Seq(Calls), NEW D, NEW U, NEW F, Follows(todo, {}, D, U, F),
         NEW op \in StageOps, Doing(op), NEW calls \in Seq(Calls), AllStages(calls), NEW G,
         Follows(calls, {}, D, U, G), Then(calls)
  PROVE  /\ todo' \in Seq(Calls) /\ Follows(todo', {}, D, U, G)
         /\ \A d : RefilledFrom(calls, 1, d) \/ RefilledFrom(Tail(todo), 1, d) => RefilledFrom(todo', 1, d)
<1>1. PICK rest \in Seq(Calls) :
        /\ rest = Tail(todo) /\ Follows(rest, {}, D, U, G)
        /\ \A i \in 1..Len(rest) : rest[i].op # "delete"
  BY FollowsBelow DEF Doing
<1>2. todo' = calls \o rest
  BY <1>1 DEF Then
<1>3. {} \in SUBSET Directions /\ \A d \in {} : d \in {} \/ RefilledFrom(rest, 1, d)
  OBVIOUS
<1>4. Follows(calls \o rest, {}, D, U, G) /\ calls \o rest \in Seq(Calls)
  BY <1>1, <1>3, FollowsConcat
<1>5. Len(calls) \in Nat /\ 1 \in 1..(Len(calls) + 1) /\ 1 \in Nat \ {0}
  BY Concat
<1>6. \A d : RefilledFrom(calls, 1, d) \/ RefilledFrom(rest, 1, d) => RefilledFrom(calls \o rest, 1, d)
  BY <1>5, RefilledConcat
<1> QED
  BY <1>1, <1>2, <1>4, <1>6

-----------------------------------------------------------------------------
(* What the marks of a session say of its direction, and of the messages about it *)

Up == {s \in Sessions : dir[s] = "up"}

\* A session that is deleted next, before the slots are filled.
Deleting(s) ==
  /\ Doing("delete") /\ s \in Head(todo).s
  /\ \A d \in Directions : RefilledFrom(Tail(todo), 1, d)

\* Uploads are halted, downloads restart by themselves; who is queued although he is over
\* is an upload, and an upload that is over is about to leave the list.
Marked(s) ==
  /\ s \in halted => dir[s] = "up"
  /\ s \in autoRestart => dir[s] = "down"
  /\ s \in waiting /\ s \in finished => dir[s] = "up"
  /\ s \in finished /\ dir[s] = "up" => s \in Range(removing) \/ Deleting(s)

MarksOK == halted \cup autoRestart \subseteq Alive /\ \A s \in Alive : Marked(s)

FollowInv == SlotInv /\ MarksOK /\ Follows(todo, {}, Down, Up, finished)

LEMMA FollowTypes ==
  ASSUME FollowInv
  PROVE  /\ IInv /\ SlotInv /\ todo \in Seq(Calls)
         /\ WindowTypeOK /\ SessionTypeOK /\ Alive \subseteq Sessions
         /\ removing \in Seq(Sessions)
BY InvType, UploadsAreSessions DEF FollowInv, SlotInv, IInv, TypeOK, SessionTypeOK

\* Nothing that the marks depend on changes for the worse.
StillMarked(x) ==
  /\ dir'[x] = dir[x]
  /\ x \in halted' => x \in halted \/ dir[x] = "up"
  /\ x \in autoRestart' => x \in autoRestart
  /\ x \in finished' => x \in finished
  /\ x \in waiting' => x \in waiting \/ dir[x] = "up"

\* A step after which one session's marks are right and the others' still are.
LEMMA OneMarked ==
  ASSUME FollowInv, ~Doing("delete"), NEW s \in Sessions, Alive' \subseteq Alive \cup {s},
         halted' \cup autoRestart' \subseteq Alive', Marked(s)',
         \A x \in Sessions \ {s} : StillMarked(x), Range(removing) \subseteq Range(removing')
  PROVE  MarksOK'
<1> SUFFICES ASSUME NEW x \in Alive', x # s PROVE Marked(x)'
  BY DEF MarksOK
<1>1. x \in Alive /\ StillMarked(x) /\ Marked(x)
  BY FollowTypes DEF FollowInv, MarksOK
<1>2. Range(removing') = Range(removing)'
  BY DEF Range
<1> QED
  BY <1>1, <1>2 DEF Marked, StillMarked, Deleting

LEMMA NoneMarked ==
  ASSUME FollowInv, ~Doing("delete"), Alive' \subseteq Alive,
         halted' \cup autoRestart' \subseteq Alive',
         \A x \in Sessions : StillMarked(x), Range(removing) \subseteq Range(removing')
  PROVE  MarksOK'
<1> SUFFICES ASSUME NEW x \in Alive' PROVE Marked(x)'
  BY DEF MarksOK
<1>1. x \in Alive /\ StillMarked(x) /\ Marked(x)
  BY FollowTypes DEF FollowInv, MarksOK
<1>2. Range(removing') = Range(removing)'
  BY DEF Range
<1> QED
  BY <1>1, <1>2 DEF Marked, StillMarked, Deleting

LEMMA PostedStay ==
  ASSUME NEW seq \in Seq(Sessions), NEW s \in Sessions
  PROVE  Range(seq) \subseteq Range(Append(seq, s)) /\ s \in Range(Append(seq, s)) /\ Append(seq, s) # <<>>
<1>1. /\ Append(seq, s) \in Seq(Sessions)
      /\ Len(Append(seq, s)) = Len(seq) + 1 /\ Len(seq) \in Nat
      /\ Append(seq, s)[Len(seq) + 1] = s
      /\ \A i \in 1..Len(seq) : Append(seq, s)[i] = seq[i]
  OBVIOUS
<1>2. PICK new \in Seq(Sessions) : new = Append(seq, s)
  BY <1>1
<1>3. DOMAIN new = 1..(Len(seq) + 1) /\ DOMAIN seq = 1..Len(seq) /\ new # <<>>
  BY <1>1, <1>2
<1> QED
  BY <1>1, <1>2, <1>3 DEF Range

\* What an operation of the session s leaves as it is.
Alone(s) ==
  /\ \A x \in Sessions \ {s} : StillMarked(x) /\ (x \in waiting' => x \in waiting)
  /\ halted' = halted /\ autoRestart' \subseteq autoRestart
  /\ Range(removing) \subseteq Range(removing')

\* AbortSession() of an upload posts its removal, unless that has been done before.
LEMMA AbortMarked ==
  ASSUME FollowInv, ~Doing("delete"), NEW s \in Alive, NEW error \in BOOLEAN,
         AbortSession(s, error)
  PROVE  /\ Marked(s)' /\ Alone(s) /\ dir' = dir /\ finished \subseteq finished'
         /\ mtt[s] # "none" /\ RemovesItself(s, ~error) => removing' # <<>>
<1>1. /\ dir' = dir /\ halted' = halted /\ autoRestart' = autoRestart \ {s}
      /\ finished' = finished \cup {s} /\ waiting' = waiting \ {s}
      /\ removing' = IF mtt[s] # "none" /\ RemovesItself(s, ~error)
                     THEN Append(removing, s) ELSE removing
  BY DEF AbortSession, peerVars
<1>2. s \in Sessions /\ Marked(s) /\ LiveSession(s)
  BY FollowTypes DEF FollowInv, MarksOK, SlotInv
<1>3. /\ Range(removing) \subseteq Range(Append(removing, s)) /\ s \in Range(Append(removing, s))
      /\ Append(removing, s) # <<>>
  BY <1>2, FollowTypes, PostedStay
<1>4. dir[s] = "up" => s \in Range(removing')
  <2>1. CASE mtt[s] = "none"
    BY <1>1, <1>2, <2>1 DEF Marked, LiveSession, Deleting
  <2>2. CASE mtt[s] # "none"
    BY <1>1, <1>3, <2>2 DEF RemovesItself
  <2> QED
    BY <2>1, <2>2
<1>5. Range(removing') = Range(removing)'
  BY DEF Range
<1>6. Marked(s)'
  BY <1>1, <1>2, <1>4, <1>5 DEF Marked
<1>7. Alone(s)
  BY <1>1, <1>3 DEF Alone, StillMarked
<1> QED
  BY <1>1, <1>3, <1>6, <1>7

\* What may happen to the marks of a session that is not queued again and does not end.
LEMMA CalmMarked ==
  ASSUME FollowInv, ~Doing("delete"), NEW s \in Alive,
         UNCHANGED <<dir, finished, autoRestart, halted, removing>>, waiting' \subseteq waiting
  PROVE  Marked(s)' /\ Alone(s)
<1>1. Marked(s)
  BY DEF FollowInv, MarksOK
<1>2. Range(removing') = Range(removing)'
  BY DEF Range
<1> QED
  BY <1>1, <1>2 DEF Marked, Alone, StillMarked, Deleting

LEMMA UploadMarked ==
  ASSUME FollowInv, ~Doing("delete"), NEW s \in Alive, DoUpload(s)
  PROVE  Marked(s)' /\ Alone(s) /\ dir' = dir /\ finished \subseteq finished'
<1>1. CASE AbortSession(s, TRUE)
  BY <1>1, AbortMarked
<1>2. CASE ~AbortSession(s, TRUE)
  <2>1. UNCHANGED <<dir, finished, autoRestart, halted, removing>> /\ waiting' = waiting \ {s}
    BY <1>2 DEF DoUpload, peerVars, outcomeVars
  <2> QED
    BY <2>1, CalmMarked
<1> QED
  BY <1>1, <1>2

LEMMA BeginMarked ==
  ASSUME FollowInv, ~Doing("delete"), NEW s \in Alive, BeginTransfer(s)
  PROVE  Marked(s)' /\ Alone(s) /\ dir' = dir /\ finished \subseteq finished'
<1>1. CASE DoUpload(s)
  BY <1>1, UploadMarked
<1>2. CASE ~DoUpload(s)
  <2>1. UNCHANGED <<dir, finished, autoRestart, halted, removing>> /\ waiting' \subseteq waiting
    BY <1>2 DEF BeginTransfer, Begin, LeaveQueue, peerVars, outcomeVars
  <2> QED
    BY <2>1, CalmMarked
<1> QED
  BY <1>1, <1>2

\* RestartSession() of a download, which nobody can have halted.
LEMMA RestartMarked ==
  ASSUME FollowInv, ~Doing("delete"), NEW s \in Alive, RestartSession(s), dir[s] = "down"
  PROVE  /\ Marked(s)' /\ Alone(s)
         /\ \A x \in Sessions \ {s} : dir'[x] = dir[x] /\ (x \in finished => x \in finished')
<1>1. s \in Sessions /\ Marked(s)
  BY FollowTypes DEF FollowInv, MarksOK
<1>2. \A x \in Sessions \ {s} : dir'[x] = dir[x]
  BY <1>1, FollowTypes DEF RestartSession, SessionTypeOK
<1>3. /\ finished' = finished \ {s} /\ waiting' = waiting \cup {s} /\ halted' = halted
      /\ autoRestart' = autoRestart \ {s} /\ removing' = removing
  BY DEF RestartSession
<1>4. s \notin halted
  BY <1>1 DEF Marked
<1>5. Marked(s)'
  BY <1>3, <1>4 DEF Marked
<1>6. Alone(s)
  BY <1>2, <1>3 DEF Alone, StillMarked
<1> QED
  BY <1>2, <1>3, <1>5, <1>6

LEMMA ReturnThen == ASSUME todo \in Seq(Calls), todo # <<>>, Return PROVE Then(<<>>)
<1>1. Tail(todo) \in Seq(Calls)
  BY TailFacts
<1> QED
  BY <1>1 DEF Return, Then

LEMMA BothSlotsFollow ==
  ASSUME NEW D, NEW U, NEW F
  PROVE  /\ BothSlots \in Seq(Calls) /\ AllStages(BothSlots) /\ Follows(BothSlots, {}, D, U, F)
         /\ \A d \in Directions : RefilledFrom(BothSlots, 1, d)
         /\ \A i \in 1..Len(BothSlots) : BothSlots[i].op # "delete"
<1>1. PICK u \in Calls, d \in Calls :
        /\ u = SlotsCall("up") /\ u.op = "slots" /\ u.d = "up"
        /\ d = SlotsCall("down") /\ d.op = "slots" /\ d.d = "down"
  BY CallOps DEF Directions, SlotsCall
<1>2. PICK b \in Seq(Calls) : b = BothSlots /\ AllStages(b)
  BY DequeueStages
<1>3. b = <<u, d>> /\ <<u, d>> \in Seq(Calls)
  BY <1>1, <1>2 DEF BothSlots
<1>4. Len(b) = 2 /\ b[1] = u /\ b[2] = d
  BY <1>3
<1>5. \A i \in 1..Len(b) : b[i].op = "slots"
  <2> TAKE i \in 1..Len(b)
  <2>1. i = 1 \/ i = 2
    BY <1>4
  <2> QED
    BY <1>1, <1>4, <2>1
<1>6. Follows(b, {}, D, U, F) /\ \A i \in 1..Len(b) : b[i].op # "delete"
  BY <1>5 DEF Follows, Followed
<1>7. \A e \in Directions : RefilledFrom(b, 1, e)
  <2>1. RefilledFrom(b, 1, "up")
    BY <1>1, <1>4 DEF RefilledFrom, Refills
  <2>2. RefilledFrom(b, 1, "down")
    BY <1>1, <1>4 DEF RefilledFrom, Refills
  <2> QED
    BY <2>1, <2>2 DEF Directions
<1> QED
  BY <1>2, <1>6, <1>7

\* The calls of the sort: the uploads are resumed before slots are filled for them.
LEMMA SortFollows ==
  ASSUME NEW D, NEW U, NEW F, NEW calls,
         calls = BothSlots \/ calls = BothSlots \o <<ReorderCall>> \o BothSlots \o BothSlots
  PROVE  /\ calls \in Seq(Calls) /\ AllStages(calls) /\ Follows(calls, {}, D, U, F)
         /\ \A d \in Directions : RefilledFrom(calls, 1, d)
<1>1. PICK b \in Seq(Calls) :
        /\ b = BothSlots /\ AllStages(b) /\ Follows(b, {}, D, U, F)
        /\ \A d \in Directions : RefilledFrom(b, 1, d)
        /\ \A i \in 1..Len(b) : b[i].op # "delete"
  BY BothSlotsFollow
<1>2. CASE calls = b
  BY <1>1, <1>2
<1>3. CASE calls = b \o <<ReorderCall>> \o b \o b
  <2>1. PICK r \in Calls : r = ReorderCall /\ r.op = "reorder"
    BY CallOps
  <2>2. PICK q \in Seq(Calls) : q = <<r>> /\ AllStages(q) /\ Follows(q, Directions, D, U, F)
    BY <2>1, FollowsOne DEF StageOps
  <2>3. \A i \in 1..Len(q) : q[i].op # "delete"
    BY <2>2 DEF AllStages, StageOps
  <2>4. {} \in SUBSET Directions /\ Directions \in SUBSET Directions
    OBVIOUS
  <2>5. PICK c1 \in Seq(Calls) : c1 = b \o q /\ AllStages(c1) /\ Follows(c1, Directions, D, U, F)
    <3>1. \A d \in {} : d \in Directions \/ RefilledFrom(q, 1, d)
      OBVIOUS
    <3>2. Follows(b \o q, Directions, D, U, F) /\ b \o q \in Seq(Calls)
      BY <1>1, <2>2, <2>3, <2>4, <3>1, FollowsConcat
    <3>3. AllStages(b \o q)
      BY <1>1, <2>2, StagesConcat
    <3> QED
      BY <3>2, <3>3
  <2>6. PICK c2 \in Seq(Calls) : c2 = c1 \o b /\ AllStages(c2) /\ Follows(c2, {}, D, U, F)
    BY <1>1, <2>4, <2>5, FollowsConcat, StagesConcat
  <2>7. PICK c3 \in Seq(Calls) : c3 = c2 \o b /\ AllStages(c3) /\ Follows(c3, {}, D, U, F)
    BY <1>1, <2>4, <2>6, FollowsConcat, StagesConcat
  <2>8. \A d \in Directions : RefilledFrom(c3, 1, d)
    <3>1. 1 \in Nat \ {0} /\ \A c \in Seq(Calls) : 1 \in 1..(Len(c) + 1)
      BY Concat
    <3> QED
      BY <1>1, <2>6, <2>7, <3>1, RefilledConcat
  <2>9. calls = c3
    BY <1>3, <2>1, <2>2, <2>5, <2>6, <2>7
  <2> QED
    BY <2>7, <2>8, <2>9
<1> QED
  BY <1>1, <1>2, <1>3

FollowsNow == Follows(todo, {}, Down, Up, finished)

\* Filling the slots, and sorting.
LEMMA StageFollow ==
  ASSUME FollowInv, IInv',
         \/ DequeueTransferSessions \/ ReorderUploads \/ CountSlots \/ StartNext \/ NothingToStart
  PROVE  MarksOK' /\ FollowsNow'
<1>0. PICK op \in StageOps : Doing(op)
  BY DEF DequeueTransferSessions, ReorderUploads, CountSlots, StartNext, NothingToStart, StageOps
<1>1. ~Doing("delete")
  BY <1>0 DEF Doing, StageOps
<1>2. /\ IInv /\ todo \in Seq(Calls) /\ Alive \subseteq Sessions /\ todo # <<>>
      /\ halted \cup autoRestart \subseteq Alive
  BY <1>0, FollowTypes DEF FollowInv, MarksOK, Doing
<1>3. ASSUME dir' = dir, NEW calls \in Seq(Calls), AllStages(calls), Then(calls),
             Follows(calls, {}, Down, Up, finished')
      PROVE  FollowsNow'
  <2>1. Down' = Down /\ Up' = Up
    BY <1>3 DEF Down, Up
  <2> QED
    BY <1>0, <1>2, <1>3, <2>1, FollowsStages DEF FollowInv, FollowsNow
<1>4. CASE DequeueTransferSessions
  <2>1. /\ dir' = dir /\ finished' = finished /\ autoRestart' = autoRestart /\ removing' = removing
        /\ waiting' \subseteq waiting \cup Uploads /\ halted' \subseteq halted \cup Uploads
        /\ Alive' = Alive
    BY <1>4, SameAlive DEF DequeueTransferSessions, RequeueTransfer, peerVars, outcomeVars, windowVars
  <2>2. \A x \in Sessions : StillMarked(x)
    BY <2>1 DEF StillMarked, Uploads
  <2>3. halted' \cup autoRestart' \subseteq Alive'
    BY <1>2, <2>1 DEF Uploads
  <2>4. MarksOK'
    BY <1>1, <2>1, <2>2, <2>3, NoneMarked
  <2>5. PICK calls : /\ Then(calls)
                     /\ \/ calls = BothSlots
                        \/ calls = BothSlots \o <<ReorderCall>> \o BothSlots \o BothSlots
    BY <1>4 DEF DequeueTransferSessions
  <2>6. calls \in Seq(Calls) /\ AllStages(calls) /\ Follows(calls, {}, Down, Up, finished')
    BY <2>5, SortFollows
  <2> QED
    BY <1>3, <2>1, <2>4, <2>5, <2>6
<1>5. <<>> \in Seq(Calls) /\ AllStages(<<>>) /\ Follows(<<>>, {}, Down, Up, finished')
  BY DEF AllStages, Follows
<1>6. CASE ReorderUploads
  <2>1. /\ dir' = dir /\ finished' = finished /\ autoRestart' = autoRestart /\ removing' = removing
        /\ waiting' = waiting /\ halted' \subseteq halted
    BY <1>6 DEF ReorderUploads, peerVars, outcomeVars
  <2>2. Alive' = Alive
    <3>1. /\ DOMAIN list' = DOMAIN list /\ list' \in [DOMAIN list -> Alive]
          /\ \A s \in Alive : \E i \in DOMAIN list : list'[i] = s
      BY <1>6 DEF ReorderUploads
    <3> QED
      BY <3>1 DEF Alive, Range
  <2>3. \A x \in Sessions : StillMarked(x)
    BY <2>1 DEF StillMarked
  <2>4. MarksOK'
    BY <1>1, <1>2, <2>1, <2>2, <2>3, NoneMarked
  <2>5. Then(<<>>)
    BY <1>2, <1>6, ReturnThen DEF ReorderUploads
  <2> QED
    BY <1>3, <1>5, <2>1, <2>4, <2>5
<1>7. CASE CountSlots \/ StartNext \/ NothingToStart
  <2>1. MarksOK' /\ dir' = dir
    <3>1. CASE CountSlots \/ NothingToStart
      <4>1. UNCHANGED <<dir, waiting, finished, autoRestart, halted, removing>> /\ Alive' = Alive
        BY <3>1, SameAlive DEF CountSlots, NothingToStart, windowVars, sessionVars, peerVars,
                               outcomeVars
      <4>2. \A x \in Sessions : StillMarked(x)
        BY <4>1 DEF StillMarked
      <4> QED
        BY <1>1, <1>2, <4>1, <4>2, NoneMarked
    <3>2. CASE StartNext
      <4>1. PICK i \in DOMAIN list : BeginTransfer(list[i]) /\ UNCHANGED windowVars
        BY <3>2 DEF StartNext, Candidates
      <4>2. PICK s \in Alive : s = list[i]
        BY DEF Alive, Range
      <4>3. Marked(s)' /\ Alone(s) /\ dir' = dir
        BY <1>1, <4>1, <4>2, BeginMarked
      <4>4. Alive' = Alive /\ s \in Sessions
        BY <1>2, <4>1, SameAlive DEF windowVars
      <4> QED
        BY <1>1, <1>2, <4>3, <4>4, OneMarked DEF Alone
    <3> QED
      BY <1>7, <3>1, <3>2
  <2>2. PICK calls \in Seq(Calls) :
          Then(calls) /\ AllStages(calls) /\ Follows(calls, {}, Down, Up, finished')
    <3>1. CASE Return
      BY <1>2, <1>5, <3>1, ReturnThen
    <3>2. ASSUME NEW c \in LoopCalls, Then(<<c>>)
          PROVE  \E calls \in Seq(Calls) :
                   Then(calls) /\ AllStages(calls) /\ Follows(calls, {}, Down, Up, finished')
      <4>1. c \in Calls /\ c.op = "loop"
        BY LoopOps DEF Calls
      <4>2. <<c>> \in Seq(Calls) /\ AllStages(<<c>>) /\ Follows(<<c>>, {}, Down, Up, finished')
        BY <4>1, FollowsOne DEF StageOps, Followed
      <4> QED
        BY <3>2, <4>2
    <3> QED
      BY <1>2, <1>7, <3>1, <3>2, FillCalls
  <2> QED
    BY <1>3, <2>1, <2>2
<1> QED
  BY <1>4, <1>6, <1>7

\* The session visited by a call that goes on with the others.
LEMMA HeadFollows ==
  ASSUME FollowInv, NEW op \in SessionOps, Doing(op)
  PROVE  /\ op = "restart" => Head(todo).s \subseteq Down
         /\ op = "upload" => Head(todo).s \subseteq Up
         /\ op = "delete" => Head(todo).s \subseteq finished
                             \/ \A d \in Directions : RefilledFrom(Tail(todo), 1, d)
         /\ op \in Followed => \A d \in Directions : RefilledFrom(Tail(todo), 1, d)
<1>1. todo \in Seq(Calls) /\ todo # <<>> /\ Head(todo).op = op /\ op \notin StageOps
  BY FollowTypes DEF Doing, SessionOps, StageOps
<1>2. Head(todo) = todo[1] /\ 1 \in 1..Len(todo)
  BY <1>1
<1>3. Follows(todo, {}, Down, Up, finished)
  BY DEF FollowInv
<1>4. /\ op = "restart" => Head(todo).s \subseteq Down
      /\ op = "upload" => Head(todo).s \subseteq Up
  BY <1>1, <1>2, <1>3 DEF Follows
<1> QED
  BY <1>1, <1>3, <1>4, FollowsBelow

\* A session of the list ends, or is restarted, or begins.
LEMMA SessionFollow ==
  ASSUME FollowInv, IInv',
         AbortNext \/ RestartNext \/ HaltNext \/ ResumeNext \/ UploadNext
  PROVE  MarksOK' /\ FollowsNow'
<1>0. PICK op \in SessionOps \ {"delete"} : Doing(op)
  BY DEF AbortNext, RestartNext, HaltNext, ResumeNext, UploadNext, SessionOps
<1>1. ~Doing("delete") /\ UNCHANGED windowVars
  BY <1>0 DEF Doing, AbortNext, RestartNext, HaltNext, ResumeNext, UploadNext
<1>2. /\ IInv /\ todo \in Seq(Calls) /\ Alive \subseteq Sessions /\ Alive' = Alive
      /\ halted \cup autoRestart \subseteq Alive
  BY <1>1, SameAlive, FollowTypes DEF FollowInv, MarksOK, windowVars
<1>3. ASSUME NEW s \in Alive, Marked(s)', Alone(s)
      PROVE  MarksOK'
  BY <1>1, <1>2, <1>3, OneMarked DEF Alone
<1>4. ASSUME NEW s, NEW calls \in Seq(Calls), ThenOthers(calls, s),
             Follows(calls, {}, Down', Up', finished'),
             op = "restart" => Head(todo).s \ {s} \subseteq Down',
             op = "upload" => Head(todo).s \ {s} \subseteq Up',
             calls = <<>> \/ op \notin {"restart", "upload"}
      PROVE  FollowsNow'
  BY <1>0, <1>2, <1>4, FollowsOthers DEF FollowInv, FollowsNow
<1>5. <<>> \in Seq(Calls) /\ Follows(<<>>, {}, Down', Up', finished')
  BY DEF Follows
<1>6. ASSUME dir' = dir PROVE Down' = Down /\ Up' = Up
  BY <1>6 DEF Down, Up
<1>7. ASSUME NEW s \in Alive, NEW restart \in BOOLEAN, ThenOthers(AbortCalls(s, TRUE, restart), s),
             AbortSession(s, TRUE), op \notin {"restart", "upload"}
      PROVE  MarksOK' /\ FollowsNow'
  <2>1. Marked(s)' /\ Alone(s) /\ dir' = dir
    BY <1>1, <1>7, AbortMarked
  <2>2. s \in Sessions /\ (s \in autoRestart => s \in Down')
    BY <1>2, <1>6, <2>1 DEF FollowInv, MarksOK, Marked, Down
  <2>3. /\ AbortCalls(s, TRUE, restart) \in Seq(Calls)
        /\ Follows(AbortCalls(s, TRUE, restart), {}, Down', Up', finished')
    BY <2>2, AbortCallsFollow
  <2> QED
    BY <1>3, <1>4, <1>7, <2>1, <2>3
<1>8. CASE AbortNext
  <2>1. PICK s \in Alive, restart \in BOOLEAN :
          ThenOthers(AbortCalls(s, TRUE, restart), s) /\ AbortSession(s, TRUE)
    BY <1>8, VisitedAlive DEF AbortNext
  <2>2. op \notin {"restart", "upload"}
    BY <1>0, <1>8 DEF AbortNext, Doing
  <2> QED
    BY <1>7, <2>1, <2>2
<1>9. CASE RestartNext
  <2>1. PICK s \in Head(todo).s :
          s \in Alive /\ RestartSession(s) /\ ThenOthers(<<>>, s) /\ op = "restart"
    BY <1>0, <1>9, VisitedAlive DEF RestartNext, Doing
  <2>2. Head(todo).s \subseteq Down
    BY <1>0, <2>1, HeadFollows
  <2>3. Marked(s)' /\ Alone(s) /\ \A x \in Sessions \ {s} : dir'[x] = dir[x]
    BY <1>1, <2>1, <2>2, RestartMarked DEF Down
  <2>4. Head(todo).s \ {s} \subseteq Down'
    BY <2>2, <2>3 DEF Down
  <2> QED
    BY <1>3, <1>4, <1>5, <2>1, <2>3, <2>4
<1>10. CASE HaltNext
  <2>0. op = "halt"
    BY <1>0, <1>10 DEF HaltNext, Doing
  <2>1. PICK s \in Alive :
          \/ /\ dir[s] = "up" /\ RequeueTransfer({s} \ waiting) /\ halted' = halted \cup {s}
             /\ ThenOthers(<<>>, s)
             /\ UNCHANGED <<peerVars, linkVars, outcomeVars, uploadVars, removing>>
          \/ AbortSession(s, TRUE) /\ ThenOthers(AbortCalls(s, TRUE, FALSE), s)
    BY <1>10, VisitedAlive DEF HaltNext
  <2>2. CASE AbortSession(s, TRUE) /\ ThenOthers(AbortCalls(s, TRUE, FALSE), s)
    BY <1>7, <2>0, <2>2
  <2>3. CASE /\ dir[s] = "up" /\ RequeueTransfer({s} \ waiting) /\ halted' = halted \cup {s}
             /\ ThenOthers(<<>>, s)
             /\ UNCHANGED <<peerVars, linkVars, outcomeVars, uploadVars, removing>>
    <3>1. UNCHANGED <<dir, finished, autoRestart, removing>> /\ waiting' \subseteq waiting \cup {s}
      BY <2>3 DEF RequeueTransfer, peerVars, outcomeVars
    <3>2. \A x \in Sessions : StillMarked(x)
      BY <2>3, <3>1 DEF StillMarked
    <3>3. MarksOK'
      BY <1>1, <1>2, <2>3, <3>1, <3>2, NoneMarked
    <3> QED
      BY <1>4, <1>5, <2>0, <2>3, <3>3
  <2> QED
    BY <2>1, <2>2, <2>3
<1>11. CASE ResumeNext
  <2>0. op = "resume"
    BY <1>0, <1>11 DEF ResumeNext, Doing
  <2>1. PICK s \in Alive :
          /\ ThenOthers(<<>>, s)
          /\ \/ BeginTransfer(s)
             \/ dir[s] = "down" /\ RestartSession(s)
             \/ /\ halted' \subseteq halted
                /\ UNCHANGED <<peerVars, linkVars, outcomeVars, waiting, removing>>
    BY <1>11, VisitedAlive DEF ResumeNext
  <2>2. MarksOK'
    <3>1. CASE BeginTransfer(s) \/ (dir[s] = "down" /\ RestartSession(s))
      BY <1>1, <1>3, <3>1, BeginMarked, RestartMarked
    <3>2. CASE /\ halted' \subseteq halted
               /\ UNCHANGED <<peerVars, linkVars, outcomeVars, waiting, removing>>
      <4>1. \A x \in Sessions : StillMarked(x)
        BY <3>2 DEF StillMarked, peerVars, outcomeVars
      <4>2. autoRestart' = autoRestart
        BY <3>2 DEF outcomeVars
      <4> QED
        BY <1>1, <1>2, <3>2, <4>1, <4>2, NoneMarked
    <3> QED
      BY <2>1, <3>1, <3>2
  <2> QED
    BY <1>4, <1>5, <2>0, <2>1, <2>2
<1>12. CASE UploadNext
  <2>0. op = "upload" /\ Head(todo).s \subseteq Up
    <3>1. op = "upload"
      BY <1>0, <1>12 DEF UploadNext, Doing
    <3> QED
      BY <1>0, <3>1, HeadFollows
  <2>1. PICK s \in Alive : ThenOthers(<<>>, s) /\ (DoUpload(s) \/ UNCHANGED <<sessionVars, removing>>)
    BY <1>12, VisitedAlive DEF UploadNext
  <2>2. MarksOK' /\ dir' = dir
    <3>1. CASE DoUpload(s)
      BY <1>1, <1>3, <3>1, UploadMarked
    <3>2. CASE UNCHANGED <<sessionVars, removing>>
      <4>1. UNCHANGED <<dir, waiting, finished, autoRestart, halted, removing>>
        BY <3>2 DEF sessionVars, peerVars, outcomeVars
      <4>2. \A x \in Sessions : StillMarked(x)
        BY <4>1 DEF StillMarked
      <4> QED
        BY <1>1, <1>2, <4>1, <4>2, NoneMarked
    <3> QED
      BY <2>1, <3>1, <3>2
  <2> QED
    BY <1>4, <1>5, <1>6, <2>0, <2>1, <2>2
<1> QED
  BY <1>8, <1>9, <1>10, <1>11, <1>12

\* The session that is deleted leaves the list and loses its marks.
LEMMA DeleteFollow ==
  ASSUME FollowInv, IInv', DeleteNext
  PROVE  MarksOK' /\ FollowsNow'
<1>1. PICK s \in Head(todo).s, i \in DOMAIN list :
        /\ s \in Alive /\ list[i] = s /\ list' = RemoveAt(list, i) /\ ThenOthers(<<>>, s)
        /\ dir' = [dir EXCEPT ![s] = "down"] /\ waiting' = waiting \ {s}
        /\ finished' = finished \cup {s} /\ halted' = halted \ {s}
        /\ autoRestart' = autoRestart \ {s} /\ UNCHANGED <<removing, app>>
  BY VisitedAlive DEF DeleteNext
<1>2. Doing("delete") /\ "delete" \in SessionOps
  BY DEF DeleteNext, SessionOps
<1>3. /\ IInv /\ todo \in Seq(Calls) /\ Alive \subseteq Sessions /\ list \in Seq(Sessions)
      /\ halted \cup autoRestart \subseteq Alive
  BY FollowTypes DEF FollowInv, MarksOK, WindowTypeOK
<1>4. s \in Sessions /\ dir'[s] = "down" /\ \A x \in Sessions \ {s} : dir'[x] = dir[x]
  BY <1>1, <1>3, FollowTypes DEF SessionTypeOK
<1>5. Alive' \subseteq Alive /\ Alive \ {s} \subseteq Alive'
  <2>1. Range(RemoveAt(list, i)) \subseteq Range(list)
    BY <1>3, RemoveAtRange
  <2>2. \A x \in Range(list) : x # list[i] => x \in Range(RemoveAt(list, i))
    BY <1>3, RemoveAtKeeps
  <2> QED
    BY <1>1, <2>1, <2>2 DEF Alive
<1>6. <<>> \in Seq(Calls) /\ Follows(<<>>, {}, Down', Up', finished')
  BY DEF Follows
<1>7. /\ todo' \in Seq(Calls) /\ Follows(todo', {}, Down', Up', finished')
      /\ \A d : RefilledFrom(Tail(todo), 1, d) => RefilledFrom(todo', 1, d)
  <2>1. Head(todo).s \subseteq finished => Head(todo).s \ {s} \subseteq finished'
    BY <1>1
  <2>2. Follows(todo, {}, Down, Up, finished) /\ ThenOthers(<<>>, s)
    BY <1>1 DEF FollowInv
  <2>3. ASSUME NEW op \in SessionOps, Doing(op), NEW calls \in Seq(Calls), ThenOthers(calls, s),
               Follows(calls, {}, Down', Up', finished'),
               op = "restart" => Head(todo).s \ {s} \subseteq Down',
               op = "upload" => Head(todo).s \ {s} \subseteq Up',
               op = "delete" => (Head(todo).s \subseteq finished => Head(todo).s \ {s} \subseteq finished'),
               calls = <<>> \/ op \notin {"restart", "upload", "delete"}
        PROVE  /\ todo' \in Seq(Calls) /\ Follows(todo', {}, Down', Up', finished')
               /\ \A d : RefilledFrom(Tail(todo), 1, d) => RefilledFrom(todo', 1, d)
    BY <1>3, <2>2, <2>3, FollowsOthers
  <2> QED
    BY <1>2, <1>6, <2>1, <2>2, <2>3
<1>8. ASSUME NEW x \in Sessions \ {s}, Deleting(x) PROVE Deleting(x)'
  <2>1. x \in Head(todo).s \ {s} /\ \A d \in Directions : RefilledFrom(Tail(todo), 1, d)
    BY <1>8 DEF Deleting
  <2>2. PICK S : S = Head(todo).s \ {s}
    OBVIOUS
  <2>3. PICK rest \in Seq(Calls) : rest = Tail(todo)
    BY <1>2, <1>3, TailFacts DEF Doing
  <2>4. S \in SUBSET Sessions /\ S # {}
    BY <1>2, <1>3, <2>1, <2>2, HeadSessions DEF IInv
  <2>5. todo' = <<Call("delete", S)>> \o rest
    <3>1. CallAll("delete", S) = <<Call("delete", S)>>
      BY <2>4 DEF CallAll
    <3>2. Head(todo).op = "delete"
      BY <1>2 DEF Doing
    <3>3. <<>> \o <<Call("delete", S)>> = <<Call("delete", S)>>
      OBVIOUS
    <3> QED
      BY <1>1, <2>2, <2>3, <3>1, <3>2, <3>3 DEF ThenOthers
  <2>6. PICK c \in Calls : c = Call("delete", S) /\ c.op = "delete" /\ c.s = S
    BY <1>2, <2>4, CallOps, CallSessions
  <2>7. todo' # <<>> /\ Head(todo') = c /\ Tail(todo') = rest
    BY <2>5, <2>6
  <2> QED
    BY <1>1, <1>2, <2>1, <2>2, <2>3, <2>6, <2>7 DEF Deleting, Doing
<1>9. ASSUME NEW x \in Alive' PROVE Marked(x)'
  <2>1. CASE x = s
    BY <1>1, <1>4, <2>1 DEF Marked
  <2>2. CASE x # s
    <3>1. Marked(x) /\ x \in Sessions \ {s}
      BY <1>3, <1>5, <2>2 DEF FollowInv, MarksOK
    <3>2. Range(removing') = Range(removing) /\ Range(removing)' = Range(removing)
      BY <1>1 DEF Range
    <3> QED
      BY <1>1, <1>4, <1>8, <3>1, <3>2 DEF Marked
  <2> QED
    BY <2>1, <2>2
<1>10. halted' \cup autoRestart' \subseteq Alive'
  BY <1>1, <1>3, <1>5
<1> QED
  BY <1>7, <1>9, <1>10 DEF MarksOK, FollowsNow

\* A handler that ends no session and starts none; it may halt uploads, and queue them.
LEMMA HandlerFollow ==
  ASSUME FollowInv, Idle, Alive' = Alive, UNCHANGED <<dir, finished, autoRestart, removing>>,
         waiting' \subseteq waiting \cup Uploads, halted' \subseteq halted \cup Uploads,
         Follows(todo', {}, Down, Up, finished)
  PROVE  MarksOK' /\ FollowsNow'
<1>1. ~Doing("delete")
  BY DEF Idle, Doing
<1>2. \A x \in Sessions : StillMarked(x)
  BY DEF StillMarked, Uploads
<1>3. halted' \cup autoRestart' \subseteq Alive'
  BY DEF FollowInv, MarksOK, Uploads
<1>4. Down' = Down /\ Up' = Up
  BY DEF Down, Up
<1> QED
  BY <1>1, <1>2, <1>3, <1>4, NoneMarked DEF FollowsNow

\* A new session has no mark but that it is queued.
LEMMA ArrivalFollow ==
  ASSUME FollowInv, Arrival
  PROVE  MarksOK' /\ FollowsNow'
<1>1. PICK s \in Sessions, e \in Directions :
        /\ s \in fresh /\ list' = Append(list, s) /\ Idle
        /\ dir' = [dir EXCEPT ![s] = e] /\ waiting' = waiting \cup {s}
        /\ todo' = <<DequeueCall>>
        /\ UNCHANGED <<finished, autoRestart, halted, removing>>
  BY DEF Arrival, SocketAccepted, ConnectBackRequestReceived, RequestDownload,
         RequestCallback, NewSession, outcomeVars, Directions
<1>2. s \notin Alive /\ s \notin finished /\ s \notin halted \cup autoRestart
  BY <1>1 DEF FollowInv, SlotInv, FreshOK, MarksOK
<1>3. list \in Seq(Sessions)
  BY FollowTypes DEF WindowTypeOK
<1>4. Alive \subseteq Alive' /\ Alive' \subseteq Alive \cup {s}
  <2>1. Range(list) \subseteq Range(Append(list, s))
    BY <1>3, PostedStay
  <2>2. Alive' \subseteq Alive \cup {s}
    BY <1>1, <1>3 DEF Alive, Range
  <2> QED
    BY <1>1, <2>1, <2>2 DEF Alive
<1>5. ~Doing("delete")
  BY <1>1 DEF Idle, Doing
<1>6. \A x \in Sessions \ {s} : StillMarked(x)
  BY <1>1, FollowTypes DEF StillMarked, SessionTypeOK
<1>7. Marked(s)'
  BY <1>1, <1>2 DEF Marked
<1>8. MarksOK'
  BY <1>1, <1>4, <1>5, <1>6, <1>7, OneMarked DEF FollowInv, MarksOK
<1>9. FollowsNow'
  BY <1>1, FirstFollows DEF FollowsNow, SessionOps
<1> QED
  BY <1>8, <1>9

\* A connection ends, or a session goes on.
LEMMA EventFollow ==
  ASSUME FollowInv, Event
  PROVE  MarksOK' /\ FollowsNow'
<1>1. PICK s \in Alive :
        \/ Connected(s) \/ Disconnected(s) \/ BadMessage(s) \/ Rejected(s)
        \/ Md5SendDone(s) \/ FileData(s) \/ Drained(s)
        \/ \E u \in Users : PeerId(s, u) \/ FileList(s, u)
        \/ \E n \in 1..MaxFiles : Md5RecvDone(s, n)
  BY DEF Event
<1>2. UNCHANGED windowVars /\ Idle
  BY <1>1 DEF Connected, Disconnected, BadMessage, Rejected, Md5SendDone, FileData, Drained,
              PeerId, FileList, Md5RecvDone
<1>3. /\ Alive' = Alive /\ s \in Sessions /\ {s} \in SUBSET Sessions
      /\ halted \cup autoRestart \subseteq Alive /\ Marked(s) /\ ~Doing("delete") /\ todo = <<>>
  BY <1>2, SameAlive, FollowTypes DEF windowVars, FollowInv, MarksOK, Idle, Doing
<1>4. dir' = dir
  BY <1>1 DEF Connected, Disconnected, BadMessage, Rejected, Md5SendDone, FileData, Drained,
              PeerId, FileList, Md5RecvDone, AbortSession, sessionVars, peerVars
<1>5. Down' = Down /\ Up' = Up
  BY <1>4 DEF Down, Up
<1>6. \A D, U, F : /\ Follows(<<>>, {}, D, U, F) /\ Follows(<<DequeueCall>>, {}, D, U, F)
                   /\ \A op \in {"error", "stop"} : Follows(<<Call(op, {s})>>, {}, D, U, F)
  BY <1>3, FirstFollows DEF SessionOps, Followed
<1>7. ASSUME dir[s] = "up"
      PROVE  \A F : /\ Follows(<<Call("upload", {s})>>, {}, Down, Up, F)
                    /\ Follows(<<DequeueCall, Call("upload", {s})>>, {}, Down, Up, F)
  <2>1. {s} \subseteq Up
    BY <1>3, <1>7 DEF Up
  <2> QED
    BY <1>3, <2>1, FirstFollows DEF SessionOps, Followed
<1>8. CASE Disconnected(s)
  <2> DEFINE incomplete == IF dir[s] = "down" THEN files[s] > 0 ELSE toSend[s] > 0
             restart == incomplete /\ s \in autoRestart
             leaves == ~restart /\ RemovesItself(s, ~incomplete)
  <2>1. /\ finished' = finished \cup {s} /\ waiting' = waiting \ {s}
        /\ autoRestart' = autoRestart \ {s} /\ halted' = halted
        /\ removing' = IF leaves THEN Append(removing, s) ELSE removing
        /\ todo' = CASE restart -> <<Call("restart", {s}), DequeueCall>>
                     [] leaves -> <<>>
                     [] OTHER -> <<DequeueCall>>
    BY <1>8 DEF Disconnected
  <2>2. dir[s] = "up" => leaves
    BY <1>3 DEF Marked, RemovesItself
  <2>3. restart => {s} \subseteq Down
    BY <1>3 DEF Marked, Down
  <2> HIDE DEF incomplete, restart, leaves
  <2>4. Range(removing) \subseteq Range(Append(removing, s)) /\ s \in Range(Append(removing, s))
    BY <1>3, FollowTypes, PostedStay
  <2>5. Range(removing') = Range(removing)'
    BY DEF Range
  <2>6. Marked(s)'
    BY <1>3, <1>4, <2>1, <2>2, <2>4, <2>5 DEF Marked
  <2>7. \A x \in Sessions \ {s} : StillMarked(x)
    BY <1>4, <2>1 DEF StillMarked
  <2>8. Range(removing) \subseteq Range(removing')
    BY <2>1, <2>4
  <2>9. MarksOK'
    BY <1>3, <2>1, <2>6, <2>7, <2>8, OneMarked
  <2>10. FollowsNow'
    <3>1. restart => \A F : Follows(<<Call("restart", {s}), DequeueCall>>, {}, Down, Up, F)
      BY <1>3, <2>3, FirstFollows DEF SessionOps
    <3>2. Follows(todo', {}, Down, Up, finished')
      BY <1>6, <2>1, <3>1
    <3> QED
      BY <1>5, <3>2 DEF FollowsNow
  <2> QED
    BY <2>9, <2>10
<1>9. CASE Drained(s)
  <2>1. CASE AbortSession(s, FALSE) /\ todo' = AbortCalls(s, FALSE, FALSE)
    <3>1. Marked(s)' /\ Alone(s)
      BY <1>3, <2>1, AbortMarked
    <3>2. MarksOK'
      BY <1>3, <3>1, OneMarked DEF Alone
    <3>3. s \in autoRestart => s \in Down
      BY <1>3 DEF Marked, Down
    <3>4. Follows(AbortCalls(s, FALSE, FALSE), {}, Down, Up, finished')
      BY <1>3, <3>3, AbortCallsFollow
    <3> QED
      BY <1>5, <2>1, <3>2, <3>4 DEF FollowsNow
  <2>2. CASE /\ todo' = <<Call("upload", {s})>>
             /\ UNCHANGED <<peerVars, linkVars, outcomeVars, waiting, halted, removing>>
    <3>1. UNCHANGED <<dir, finished, autoRestart, removing>> /\ dir[s] = "up"
      BY <1>9, <2>2 DEF Drained, peerVars, outcomeVars
    <3> QED
      BY <1>2, <1>3, <1>7, <2>2, <3>1, HandlerFollow
  <2> QED
    BY <1>9, <2>1, <2>2 DEF Drained
<1>10. CASE FileData(s)
  <2>1. /\ dir[s] = "down" /\ autoRestart' = autoRestart \cup {s} /\ todo' = todo
        /\ UNCHANGED <<dir, finished, waiting, halted, removing>>
    BY <1>10 DEF FileData
  <2>2. Marked(s)'
    <3>1. Range(removing') = Range(removing)'
      BY DEF Range
    <3> QED
      BY <1>3, <2>1, <3>1 DEF Marked
  <2>3. \A x \in Sessions \ {s} : StillMarked(x)
    BY <2>1 DEF StillMarked
  <2>4. MarksOK'
    BY <1>3, <2>1, <2>2, <2>3, OneMarked
  <2> QED
    BY <1>3, <1>6, <2>1, <2>4 DEF FollowsNow
<1>11. CASE \/ Connected(s) \/ BadMessage(s) \/ Rejected(s) \/ Md5SendDone(s)
            \/ \E u \in Users : PeerId(s, u) \/ FileList(s, u)
            \/ \E n \in 1..MaxFiles : Md5RecvDone(s, n)
  <2>1. UNCHANGED <<finished, autoRestart, removing, waiting, halted>>
    BY <1>11 DEF Connected, BadMessage, Rejected, Md5SendDone, PeerId, FileList, Md5RecvDone,
                 sessionVars, outcomeVars
  <2>2. \/ todo' = todo \/ todo' = <<DequeueCall>>
        \/ \E op \in {"error", "stop"} : todo' = <<Call(op, {s})>>
        \/ dir[s] = "up" /\ todo' = <<DequeueCall, Call("upload", {s})>>
    <3>1. CASE Connected(s) \/ \E u \in Users : PeerId(s, u)
      BY <3>1 DEF Connected, PeerId
    <3>2. CASE BadMessage(s) \/ Rejected(s)
      BY <3>2 DEF BadMessage, Rejected
    <3>3. CASE Md5SendDone(s) \/ \E u \in Users : FileList(s, u)
      BY <3>3 DEF Md5SendDone, FileList
    <3>4. CASE \E n \in 1..MaxFiles : Md5RecvDone(s, n)
      BY <3>4 DEF Md5RecvDone
    <3> QED
      BY <1>11, <3>1, <3>2, <3>3, <3>4
  <2>3. Follows(todo', {}, Down, Up, finished)
    BY <1>3, <1>6, <1>7, <2>2
  <2> QED
    BY <1>2, <1>3, <1>4, <2>1, <2>3, HandlerFollow
<1> QED
  BY <1>1, <1>8, <1>9, <1>10, <1>11

\* What a posted message removes is removed before the slots are filled.
LEMMA NoticeFollow ==
  ASSUME FollowInv, Notice
  PROVE  MarksOK' /\ FollowsNow'
<1>0. IInv /\ Alive \subseteq Sessions /\ removing \in Seq(Sessions)
  BY FollowTypes
<1>1. \A D, U, F : Follows(<<>>, {}, D, U, F) /\ Follows(<<DequeueCall>>, {}, D, U, F)
  BY FirstFollows DEF SessionOps
<1>2. CASE ScanStarts \/ SharesScanComplete
  <2>1. /\ UNCHANGED <<list, dir, waiting, finished, autoRestart, halted, removing, todo>>
        /\ Idle /\ todo = <<>>
    BY <1>2 DEF ScanStarts, SharesScanComplete, sessionVars, peerVars, outcomeVars, Idle
  <2>2. Follows(todo', {}, Down, Up, finished)
    BY <1>1, <2>1
  <2> QED
    BY <2>1, <2>2, SameAlive, HandlerFollow
<1>3. CASE \/ \E u \in Users : TransferCallbackRejected(u) \/ RemoveUser(u)
                               \/ RestartDownloadsFor(u)
           \/ \E expired \in SUBSET Sessions : CheckForMoribundConnections(expired)
  <2>1. PICK op \in {"reject", "stop", "restart", "error"}, S \in SUBSET Sessions :
          /\ \/ op # "restart" /\ Handler(<<Call(op, S)>>)
             \/ Handler(<<Call(op, S), DequeueCall>>)
          /\ op = "restart" => S \subseteq Down
    <3>1. ASSUME NEW u \in Users, TransferCallbackRejected(u)
          PROVE  \E S \in SUBSET Sessions : Handler(<<Call("reject", S)>>)
      BY <1>0, <3>1 DEF TransferCallbackRejected
    <3>2. ASSUME NEW u \in Users, RemoveUser(u)
          PROVE  \E S \in SUBSET Sessions : Handler(<<Call("stop", S)>>)
      BY <1>0, <3>2 DEF RemoveUser
    <3>3. ASSUME NEW u \in Users, RestartDownloadsFor(u)
          PROVE  \E S \in SUBSET Sessions : /\ Handler(<<Call("restart", S), DequeueCall>>)
                                            /\ S \subseteq Down
      BY <1>0, <3>3 DEF RestartDownloadsFor, Down
    <3>4. ASSUME NEW expired \in SUBSET Sessions, CheckForMoribundConnections(expired)
          PROVE  \E S \in SUBSET Sessions : Handler(<<Call("error", S)>>)
      BY <3>4 DEF CheckForMoribundConnections
    <3> QED
      BY <1>3, <3>1, <3>2, <3>3, <3>4
  <2>2. /\ UNCHANGED <<list, dir, waiting, finished, autoRestart, halted, removing>> /\ Idle
        /\ \/ op # "restart" /\ todo' = <<Call(op, S)>>
           \/ todo' = <<Call(op, S), DequeueCall>>
    BY <2>1 DEF Handler, windowVars, sessionVars, peerVars, outcomeVars
  <2>3. Follows(todo', {}, Down, Up, finished)
    BY <2>1, <2>2, FirstFollows DEF SessionOps, Followed
  <2> QED
    BY <2>2, <2>3, SameAlive, HandlerFollow
<1>4. CASE RemoveSession
  <2> DEFINE h == Head(removing)
  <2>1. /\ removing # <<>> /\ removing' = Tail(removing) /\ todo = <<>> /\ app = "running"
        /\ \/ /\ h \in Alive /\ todo' = <<Call("delete", {h}), DequeueCall>> /\ app' = app
           \/ h \notin Alive /\ (todo' = <<DequeueCall>> \/ todo' = todo)
        /\ UNCHANGED <<list, dir, waiting, finished, autoRestart, halted>>
    BY <1>4 DEF RemoveSession, sessionVars, peerVars, outcomeVars, Idle
  <2>2. h \in Sessions /\ \A x \in Range(removing) : x = h \/ x \in Range(removing')
    <3>1. PICK rest \in Seq(Sessions) : rest = Tail(removing)
      BY <1>0, <2>1
    <3>2. /\ Len(removing) \in Nat \ {0} /\ Len(rest) = Len(removing) - 1 /\ h = removing[1]
          /\ \A i \in 1..(Len(removing) - 1) : rest[i] = removing[i + 1]
          /\ DOMAIN rest = 1..Len(rest) /\ DOMAIN removing = 1..Len(removing)
          /\ removing[1] \in Sessions
      BY <1>0, <2>1, <3>1
    <3>3. ASSUME NEW i \in 1..Len(removing), removing[i] # h PROVE removing[i] \in Range(rest)
      <4>1. i - 1 \in 1..(Len(removing) - 1) /\ (i - 1) + 1 = i
        BY <3>2, <3>3
      <4>2. rest[i - 1] = removing[i] /\ i - 1 \in DOMAIN rest
        BY <3>2, <4>1
      <4> QED
        BY <4>2 DEF Range
    <3> QED
      BY <2>1, <3>1, <3>2, <3>3 DEF Range
  <2>3. PICK a \in Calls, b \in Calls :
          /\ a = Call("delete", {h}) /\ a.op = "delete" /\ a.s = {h} /\ b = DequeueCall
    BY <2>2, CallOps, CallSessions DEF SessionOps
  <2>4. ASSUME NEW x \in Alive, x = h PROVE Deleting(x)'
    <3>1. todo' = <<a, b>> /\ app' = "running"
      BY <2>1, <2>3, <2>4
    <3>2. todo' # <<>> /\ Head(todo') = a /\ Tail(todo') = <<b>>
      BY <3>1
    <3>3. \A d : RefilledFrom(Tail(todo'), 1, d)
      BY <1>0, <2>3, <3>2, FirstFollows DEF SessionOps
    <3> QED
      BY <2>3, <2>4, <3>1, <3>2, <3>3 DEF Deleting, Doing
  <2>5. Alive' = Alive
    BY <2>1, SameAlive
  <2>6. ASSUME NEW x \in Alive' PROVE Marked(x)'
    <3>1. Marked(x) /\ ~Deleting(x)
      BY <2>1, <2>5 DEF FollowInv, MarksOK, Deleting, Doing
    <3>2. Range(removing') = Range(removing)'
      BY DEF Range
    <3>3. x \in Range(removing) => x \in Range(removing') \/ Deleting(x)'
      BY <2>2, <2>4, <2>5
    <3> HIDE DEF h
    <3> QED
      BY <2>1, <3>1, <3>2, <3>3 DEF Marked
  <2>7. MarksOK'
    BY <2>1, <2>5, <2>6 DEF FollowInv, MarksOK
  <2>8. Follows(todo', {}, Down, Up, finished)
    <3>1. {h} \in SUBSET Sessions
      BY <2>2
    <3>2. Follows(<<Call("delete", {h}), DequeueCall>>, {}, Down, Up, finished)
      BY <3>1, FirstFollows DEF SessionOps
    <3> QED
      BY <1>1, <2>1, <3>2
  <2>9. Down' = Down /\ Up' = Up /\ finished' = finished
    BY <2>1 DEF Down, Up
  <2> QED
    BY <2>7, <2>8, <2>9 DEF FollowsNow
<1> QED
  BY <1>2, <1>3, <1>4 DEF Notice

LEMMA UserCommandFollow ==
  ASSUME FollowInv, UserCommand
  PROVE  MarksOK' /\ FollowsNow'
<1>0. /\ IInv /\ Alive \subseteq Sessions /\ Uploads \subseteq Sessions
      /\ list \in Seq(Sessions) /\ \A S \in Selections : S \in SUBSET Sessions
  BY FollowTypes, UploadsAreSessions DEF WindowTypeOK, Selections
<1>1. \A D, U, F : Follows(<<>>, {}, D, U, F) /\ Follows(<<DequeueCall>>, {}, D, U, F)
  BY FirstFollows DEF SessionOps
<1>2. \A S \in SUBSET Sessions, op \in {"halt", "resume", "delete"} :
        Follows(<<Call(op, S), DequeueCall>>, {}, Down, Up, finished)
  BY FirstFollows DEF SessionOps
<1>3. ASSUME Idle, UNCHANGED <<list, sessionVars, removing>>,
             Follows(todo', {}, Down, Up, finished)
      PROVE  MarksOK' /\ FollowsNow'
  <2>1. UNCHANGED <<dir, finished, autoRestart, removing, waiting, halted>> /\ Alive' = Alive
    BY <1>3, SameAlive DEF sessionVars, peerVars, outcomeVars
  <2> QED
    BY <1>3, <2>1, HandlerFollow
<1>4. CASE \/ \E d \in Directions, n \in Limits : SetLimit(d, n) \/ SetPerUserLimit(d, n)
           \/ ToggleShortestUploadsFirst \/ ToggleAutoClear
  <2>1. /\ UNCHANGED <<list, sessionVars, removing>> /\ Idle /\ todo = <<>>
        /\ todo' = <<DequeueCall>> \/ todo' = todo
    BY <1>4 DEF SetLimit, SetPerUserLimit, ToggleShortestUploadsFirst, ToggleAutoClear, Idle
  <2>2. Follows(todo', {}, Down, Up, finished)
    BY <1>1, <2>1
  <2> QED
    BY <1>3, <2>1, <2>2
<1>5. CASE PauseAllUploads
  <2>1. /\ UNCHANGED <<dir, finished, autoRestart, removing, list>> /\ Idle
        /\ todo' = <<DequeueCall>> /\ waiting' \subseteq waiting \cup Uploads
        /\ halted' \subseteq halted \cup Uploads
    BY <1>5 DEF PauseAllUploads, RequeueTransfer, windowVars, peerVars, outcomeVars
  <2>2. Follows(todo', {}, Down, Up, finished)
    BY <1>1, <2>1
  <2> QED
    BY <2>1, <2>2, SameAlive, HandlerFollow
<1>6. CASE \E S \in Selections : HaltSelected(S) \/ ResumeSelected(S) \/ CancelSelected(S)
  <2>1. PICK S \in Selections, op \in {"halt", "resume", "delete"} :
          Handler(<<Call(op, S), DequeueCall>>)
    BY <1>6 DEF HaltSelected, ResumeSelected, CancelSelected
  <2>2. Follows(<<Call(op, S), DequeueCall>>, {}, Down, Up, finished)
    BY <1>0, <1>2
  <2> QED
    BY <1>3, <2>1, <2>2 DEF Handler, windowVars
<1>7. CASE ClearFinished
  <2>1. PICK S \in SUBSET Sessions : S = Alive \cap finished
    BY <1>0
  <2>2. Handler(<<Call("delete", S)>>)
    BY <1>7, <2>1 DEF ClearFinished
  <2>3. Follows(<<Call("delete", S)>>, {}, Down, Up, finished)
    <3>1. S \subseteq finished
      BY <2>1
    <3> QED
      BY <3>1, FirstFollows DEF SessionOps, Followed
  <2> QED
    BY <1>3, <2>2, <2>3 DEF Handler, windowVars
<1>8. CASE ResumeAllUploads
  <2>1. PICK S \in SUBSET Sessions : S = Uploads \cap waiting
    BY <1>0
  <2>2. PICK calls : calls = CallAll("resume", S) \o <<DequeueCall>> /\ Handler(calls)
    BY <1>8, <2>1 DEF ResumeAllUploads
  <2>3. calls = <<DequeueCall>> \/ calls = <<Call("resume", S), DequeueCall>>
    <3>1. PICK a \in Calls, b \in Calls : a = Call("resume", S) /\ b = DequeueCall
      BY CallOps DEF SessionOps
    <3>2. <<a>> \o <<b>> = <<a, b>> /\ <<>> \o <<b>> = <<b>>
      BY TwoCalls
    <3> QED
      BY <2>2, <3>1, <3>2 DEF CallAll
  <2>4. Follows(calls, {}, Down, Up, finished)
    BY <1>1, <1>2, <2>3
  <2> QED
    BY <1>3, <2>2, <2>4 DEF Handler, windowVars
<1>9. ASSUME NEW i \in DOMAIN list, NEW j \in DOMAIN list, MoveSelected(i, j)
      PROVE  MarksOK' /\ FollowsNow'
  <2>1. Alive' = Alive
    <3>1. Range(list') \subseteq Range(list) /\ Alive \subseteq Alive'
      BY <1>0, <1>9, MoveKeeps, MoveType
    <3> QED
      BY <3>1 DEF Alive, Range
  <2>2. /\ UNCHANGED <<dir, finished, autoRestart, removing, waiting, halted, todo>>
        /\ Idle /\ todo = <<>>
    BY <1>9 DEF MoveSelected, sessionVars, peerVars, outcomeVars, Idle
  <2>3. Follows(todo', {}, Down, Up, finished)
    BY <1>1, <2>2
  <2> QED
    BY <2>1, <2>2, <2>3, HandlerFollow
<1> QED
  BY <1>4, <1>5, <1>6, <1>7, <1>8, <1>9 DEF UserCommand

LEMMA InitFollow == Init => FollowInv
<1> SUFFICES ASSUME Init PROVE FollowInv
  OBVIOUS
<1>1. SlotInv
  BY InitSlot
<1>2. halted = {} /\ autoRestart = {} /\ todo = <<>> /\ Alive = {}
  BY DEF Init, Alive, Range
<1>3. Follows(todo, {}, Down, Up, finished)
  BY <1>2, FirstFollows DEF SessionOps
<1> QED
  BY <1>1, <1>2, <1>3 DEF FollowInv, MarksOK

LEMMA NextFollow == FollowInv /\ [Next]_vars => FollowInv'
<1> SUFFICES ASSUME FollowInv, [Next]_vars PROVE FollowInv'
  OBVIOUS
<1>1. SlotInv' /\ IInv'
  BY NextSlot DEF FollowInv, SlotInv
<1>2. SUFFICES MarksOK' /\ FollowsNow'
  BY <1>1 DEF FollowInv, FollowsNow
<1>3. CASE UNCHANGED vars
  <2>1. UNCHANGED <<list, dir, waiting, finished, autoRestart, halted, removing, todo, app>>
    BY <1>3 DEF vars, windowVars, sessionVars, peerVars, outcomeVars
  <2>2. MarksOK'
    BY <2>1, SameAlive DEF FollowInv, MarksOK, Marked, Deleting, Doing, Range
  <2>3. FollowsNow'
    BY <2>1 DEF FollowInv, FollowsNow, Down, Up
  <2> QED
    BY <2>2, <2>3
<1> QED
  BY <1>1, <1>3, StageFollow, SessionFollow, DeleteFollow, ArrivalFollow, EventFollow,
     NoticeFollow, UserCommandFollow DEF Next, Step

-----------------------------------------------------------------------------
(* Free slots are offered to everybody who could have them *)

\* Why a queued session is passed over: its user has his share, or it has not yet said
\* what it wants.
Share(s) == CountActiveSessions(dir[s], user[s]) >= opt.perUser[dir[s]]
Excepted(s) ==
  dir[s] = "up" /\ user[s] # Anon /\ s \in connected \ (saved \cup hashing) /\ files[s] = 0
Passed(s) == Share(s) \/ Excepted(s)

\* The slots of a direction are taken, or nobody in the queue could have one.
Full(d) == CountActiveSessions(d, Anon) >= opt.max[d]
Served(d) == Full(d) \/ \A s \in Alive : s \in waiting /\ dir[s] = d => Passed(s)

\* The loop over the list that the looper is in has as many slots left as are free, and
\* passed over those it has seen.
Looping(d) ==
  /\ todo # <<>> /\ Head(todo).op = "loop" /\ Head(todo).d = d
  /\ Cardinality(ActiveSessions(d)) + Head(todo).left = opt.max[d]
  /\ \A j \in DOMAIN list :
       j < Head(todo).pos /\ list[j] \in waiting /\ dir[list[j]] = d => Passed(list[j])

Ahead(d) == RefilledFrom(todo, 1, d) \/ Looping(d)

\* Unless a session is about to leave the list, after which the slots are filled, or has
\* been halted, no slot is kept idle, but until the calls to come fill it.
Filled ==
  app = "running" =>
    removing # <<>> \/ halted # {} \/ \A d \in Directions : Served(d) \/ Ahead(d)

FillInv == FollowInv /\ Filled

\* A step after which whoever was passed over still is, or is not queued any more.
Keeps(d) ==
  /\ opt'.max = opt.max /\ opt'.perUser = opt.perUser
  /\ ActiveSessions(d) \subseteq ActiveSessions(d)'
  /\ \A x \in ActiveSessions(d) : user[x] # Anon => user'[x] = user[x]
  /\ \A x \in Alive' : x \in waiting' /\ dir'[x] = d =>
       /\ x \in Alive /\ x \in waiting /\ dir[x] = d
       /\ Excepted(x)' \/ (user'[x] = user[x] /\ ~Excepted(x))

LEMMA MoreActive ==
  ASSUME IInv, IInv', NEW d \in Directions, Keeps(d), NEW u
  PROVE  /\ CountActiveSessions(d, u) \in Nat /\ CountActiveSessions(d, u)' \in Nat
         /\ CountActiveSessions(d, u) <= CountActiveSessions(d, u)'
<1> DEFINE A == {s \in ActiveSessions(d) : u = Anon \/ user[s] = u}
           B == {s \in ActiveSessions(d)' : u = Anon \/ user'[s] = u}
<1>1. /\ CountActiveSessions(d, u) = Cardinality(A)
      /\ CountActiveSessions(d, u)' = Cardinality(B)
  BY DEF CountActiveSessions
<1>2. A \subseteq B
  BY DEF Keeps
<1>3. WindowTypeOK' => IsFiniteSet(ActiveSessions(d)')
  <2>1. (WindowTypeOK => IsFiniteSet(ActiveSessions(d)))'
    BY ActiveFinite, PTL
  <2> QED
    BY <2>1
<1>4. IsFiniteSet(B)
  BY <1>3, FS_Subset DEF IInv
<1> HIDE DEF A, B
<1>5. IsFiniteSet(A) /\ Cardinality(A) <= Cardinality(B)
  BY <1>2, <1>4, FS_Subset
<1> QED
  BY <1>1, <1>4, <1>5, FS_CardinalityType

LEMMA StillPassed ==
  ASSUME IInv, IInv', NEW d \in Directions, Keeps(d),
         NEW x \in Alive', x \in waiting', dir'[x] = d, Passed(x)
  PROVE  Passed(x)'
<1>1. dir[x] = d /\ (Excepted(x)' \/ (user'[x] = user[x] /\ ~Excepted(x)))
  BY DEF Keeps
<1>2. CASE user'[x] = user[x] /\ ~Excepted(x)
  <2>1. PICK u : u = user[x] /\ user'[x] = u
    BY <1>2
  <2>2. PICK n : n = CountActiveSessions(d, u)'
    OBVIOUS
  <2>3. /\ CountActiveSessions(d, u) \in Nat /\ n \in Nat
        /\ CountActiveSessions(d, u) <= n
    BY <2>2, MoreActive
  <2>4. CountActiveSessions(d, u) >= opt.perUser[d]
    BY <1>1, <1>2, <2>1 DEF Passed, Share
  <2>5. opt.perUser[d] \in Nat
    BY LimitsAssumption DEF IInv, WindowTypeOK, Settings
  <2>6. n >= opt'.perUser[d]
    BY <2>3, <2>4, <2>5 DEF Keeps
  <2>7. CountActiveSessions(dir[x], user[x])' = n
    <3>1. CountActiveSessions(dir[x], user[x])' = Cardinality({s \in ActiveSessions(d)' : u = Anon \/ user'[s] = u})
      <4>1. ActiveSessions(dir[x])' = ActiveSessions(d)'
        BY DEF ActiveSessions
      <4> QED
        BY <2>1, <4>1 DEF CountActiveSessions
    <3>2. n = Cardinality({s \in ActiveSessions(d)' : u = Anon \/ user'[s] = u})
      BY <2>2 DEF CountActiveSessions
    <3> QED
      BY <3>1, <3>2
  <2> QED
    BY <2>6, <2>7 DEF Passed, Share
<1> QED
  BY <1>1, <1>2 DEF Passed

LEMMA StillServed ==
  ASSUME IInv, IInv', NEW d \in Directions, Keeps(d), Served(d)
  PROVE  Served(d)'
<1>1. CASE Full(d)
  <2>1. PICK n : n = CountActiveSessions(d, Anon)'
    OBVIOUS
  <2>2. /\ CountActiveSessions(d, Anon) \in Nat /\ n \in Nat
        /\ CountActiveSessions(d, Anon) <= n
    BY <2>1, MoreActive
  <2>3. opt.max[d] \in Nat
    BY LimitsAssumption DEF IInv, WindowTypeOK, Settings
  <2>4. n >= opt'.max[d]
    BY <1>1, <2>2, <2>3 DEF Keeps, Full
  <2>5. CountActiveSessions(d, Anon)' = n
    BY <2>1
  <2>6. Full(d)'
    BY <2>4, <2>5 DEF Full
  <2> QED
    BY <2>6 DEF Served
<1>2. CASE \A s \in Alive : s \in waiting /\ dir[s] = d => Passed(s)
  <2>1. ASSUME NEW x \in Alive', x \in waiting', dir'[x] = d PROVE Passed(x)'
    <3>1. Passed(x)
      BY <1>2, <2>1 DEF Keeps
    <3> QED
      BY <2>1, <3>1, StillPassed
  <2> QED
    BY <2>1 DEF Served
<1> QED
  BY <1>1, <1>2 DEF Served

\* The calls under the one at hand fill the slots, if those ahead do.
LEMMA AheadBelow ==
  ASSUME todo \in Seq(Calls), todo # <<>>, NEW d, Ahead(d),
         Head(todo).op # "loop", ~Refills(Head(todo), d)
  PROVE  RefilledFrom(Tail(todo), 1, d)
<1>1. RefilledFrom(todo, 1, d)
  BY DEF Ahead, Looping
<1>2. PICK j \in 1..Len(todo) : Refills(todo[j], d)
  BY <1>1 DEF RefilledFrom
<1>3. /\ Tail(todo) \in Seq(Calls) /\ Len(todo) \in Nat \ {0}
      /\ Len(Tail(todo)) = Len(todo) - 1 /\ Head(todo) = todo[1]
      /\ \A i \in 1..(Len(todo) - 1) : Tail(todo)[i] = todo[i + 1] /\ i + 1 \in 2..Len(todo)
  BY TailFacts
<1>4. j # 1
  BY <1>2, <1>3
<1>5. j - 1 \in 1..(Len(todo) - 1) /\ (j - 1) + 1 = j
  BY <1>3, <1>4
<1>6. Tail(todo)[j - 1] = todo[j] /\ j - 1 \in 1..Len(Tail(todo))
  BY <1>3, <1>5
<1> QED
  BY <1>2, <1>6 DEF RefilledFrom

\* The same for a loop, which fills the slots itself.
LEMMA LoopBelow ==
  ASSUME todo \in Seq(Calls), todo # <<>>, NEW d, Head(todo).op = "loop", RefilledFrom(todo, 1, d)
  PROVE  RefilledFrom(Tail(todo), 1, d)
<1>1. PICK j \in 1..Len(todo) : Refills(todo[j], d)
  BY DEF RefilledFrom
<1>2. /\ Tail(todo) \in Seq(Calls) /\ Len(todo) \in Nat \ {0}
      /\ Len(Tail(todo)) = Len(todo) - 1 /\ Head(todo) = todo[1]
      /\ \A i \in 1..(Len(todo) - 1) : Tail(todo)[i] = todo[i + 1] /\ i + 1 \in 2..Len(todo)
  BY TailFacts
<1>3. j # 1
  BY <1>1, <1>2 DEF Refills
<1>4. j - 1 \in 1..(Len(todo) - 1) /\ (j - 1) + 1 = j
  BY <1>2, <1>3
<1>5. Tail(todo)[j - 1] = todo[j] /\ j - 1 \in 1..Len(Tail(todo))
  BY <1>2, <1>4
<1> QED
  BY <1>1, <1>5 DEF RefilledFrom

\* What a call makes, and what is under it, stays ahead.
LEMMA RefillsOthers ==
  ASSUME IInv, todo \in Seq(Calls), NEW op \in SessionOps, Doing(op), NEW s,
         NEW calls \in Seq(Calls), ThenOthers(calls, s), NEW d,
         RefilledFrom(calls, 1, d) \/ RefilledFrom(Tail(todo), 1, d)
  PROVE  RefilledFrom(todo', 1, d)
<1>1. Head(todo).op = op /\ todo # <<>>
  BY DEF Doing
<1>2. PICK rest \in Seq(Calls) : rest = Tail(todo)
  BY <1>1, TailFacts
<1>3. PICK others \in SUBSET Sessions : others = Head(todo).s \ {s}
  <2>1. Head(todo).s \in SUBSET Sessions
    BY HeadSessions DEF IInv
  <2> QED
    BY <2>1
<1>4. PICK a \in Calls : a = Call(op, others)
  BY <1>3, CallOps
<1>5. PICK m \in Seq(Calls) : m = CallAll(op, others)
  <2>1. <<a>> \in Seq(Calls) /\ <<>> \in Seq(Calls)
    OBVIOUS
  <2> QED
    BY <1>4, <2>1 DEF CallAll
<1>6. todo' = calls \o m \o rest
  BY <1>1, <1>2, <1>3, <1>5 DEF ThenOthers
<1>7. PICK c \in Seq(Calls) : c = calls \o m
  BY Concat
<1>8. 1 \in Nat \ {0} /\ Len(c) \in Nat /\ 1 \in 1..(Len(c) + 1)
  BY Concat
<1>9. RefilledFrom(calls, 1, d) => RefilledFrom(c, 1, d)
  BY <1>7, <1>8, RefilledConcat
<1>10. RefilledFrom(c \o rest, 1, d)
  BY <1>2, <1>8, <1>9, RefilledConcat
<1> QED
  BY <1>6, <1>7, <1>10

LEMMA RefillsThen ==
  ASSUME todo \in Seq(Calls), todo # <<>>, NEW calls \in Seq(Calls), Then(calls), NEW d,
         RefilledFrom(calls, 1, d) \/ RefilledFrom(Tail(todo), 1, d)
  PROVE  RefilledFrom(todo', 1, d)
<1>1. PICK rest \in Seq(Calls) : rest = Tail(todo)
  BY TailFacts
<1>2. 1 \in Nat \ {0} /\ 1 \in 1..(Len(calls) + 1)
  BY Concat
<1>3. RefilledFrom(calls \o rest, 1, d)
  BY <1>1, <1>2, RefilledConcat
<1> QED
  BY <1>1, <1>3 DEF Then

\* A session that leaves the queue when it is started: if the attempt failed, it would be
\* about to leave the list.
LEMMA BeginStarts ==
  ASSUME FollowInv, ~Doing("delete"), NEW s \in Alive, s \in waiting, s \notin halted,
         BeginTransfer(s), removing' = <<>>
  PROVE  /\ removing = <<>> /\ s \notin finished /\ halted' = halted
         /\ waiting' = waiting \ {s}
         /\ UNCHANGED <<peerVars, finished, connected>>
<1>1. s \in Sessions /\ Marked(s) /\ LiveSession(s)
  BY FollowTypes DEF FollowInv, MarksOK, SlotInv
<1>2. Alone(s)
  BY BeginMarked
<1>3. removing = <<>> /\ Range(removing) = {} /\ Range(removing') = {}
  <2>1. Range(removing') = {}
    BY DEF Range
  <2>2. Range(removing) = {}
    BY <1>2, <2>1 DEF Alone
  <2>3. removing \in Seq(Sessions)
    BY FollowTypes
  <2>4. ASSUME removing # <<>> PROVE FALSE
    <3>1. 1 \in DOMAIN removing
      BY <2>3, <2>4
    <3> QED
      BY <2>2, <3>1 DEF Range
  <2> QED
    BY <2>1, <2>2, <2>4
<1>4. s \notin finished /\ mtt[s] # "none"
  BY <1>1, <1>3 DEF Marked, Deleting, LiveSession
<1>5. Begin(s)
  BY DEF BeginTransfer
<1>6. CASE AbortSession(s, TRUE) /\ dir[s] = "up"
  <2>1. RemovesItself(s, ~TRUE)
    BY <1>6 DEF RemovesItself
  <2> QED
    BY <1>4, <1>6, <2>1, AbortMarked
<1>7. CASE ~(AbortSession(s, TRUE) /\ dir[s] = "up")
  BY <1>3, <1>4, <1>5, <1>7 DEF Begin, DoUpload, LeaveQueue, linkVars, outcomeVars, uploadVars
<1> QED
  BY <1>6, <1>7

\* Filling the slots, and sorting.
LEMMA StageFill ==
  ASSUME FillInv, IInv', app' = "running", removing' = <<>>, halted' = {},
         NEW d \in Directions,
         DequeueTransferSessions \/ ReorderUploads \/ CountSlots
  PROVE  Served(d)' \/ Ahead(d)'
<1>0. /\ IInv /\ todo \in Seq(Calls) /\ todo # <<>> /\ FollowInv
  BY FollowTypes DEF FillInv, DequeueTransferSessions, ReorderUploads, CountSlots, Doing
<1>1. ASSUME RefilledFrom(todo', 1, d) PROVE Ahead(d)'
  BY <1>1 DEF Ahead
<1>2. CASE DequeueTransferSessions
  <2>1. PICK calls : /\ Then(calls)
                     /\ \/ calls = BothSlots
                        \/ calls = BothSlots \o <<ReorderCall>> \o BothSlots \o BothSlots
    BY <1>2 DEF DequeueTransferSessions
  <2>2. calls \in Seq(Calls) /\ RefilledFrom(calls, 1, d)
    BY <2>1, SortFollows
  <2> QED
    BY <1>0, <1>1, <2>1, <2>2, RefillsThen
<1>3. CASE ReorderUploads
  <2>1. Head(todo).op \in Followed /\ Return
    BY <1>3 DEF ReorderUploads, Doing, Followed
  <2>2. Follows(todo, {}, Down, Up, finished)
    BY <1>0 DEF FollowInv
  <2>3. RefilledFrom(Tail(todo), 1, d)
    <3>1. Head(todo).op \in StageOps => Down = Down /\ Up = Up
      OBVIOUS
    <3> QED
      BY <1>0, <2>1, <2>2, <3>1, FollowsBelow
  <2> QED
    BY <1>1, <2>1, <2>3 DEF Return
<1>4. CASE CountSlots
  <2> DEFINE e == Head(todo).d
             n == opt.max[e] - CountActiveSessions(e, Anon)
  <2>1. /\ Head(todo).op = "slots" /\ app = "running"
        /\ IF n > 0 THEN Then(<<LoopCall(e, 1, n)>>) ELSE Return
        /\ UNCHANGED <<windowVars, sessionVars, removing>>
    BY <1>4 DEF CountSlots, Doing
  <2>2. UNCHANGED <<list, opt, app, dir, user, files, waiting, finished, connected, saved, hashing,
                    halted, removing>>
    BY <2>1 DEF windowVars, sessionVars, peerVars, linkVars, outcomeVars
  <2>3. Alive' = Alive /\ ActiveSessions(d)' = ActiveSessions(d)
    BY <2>1, <2>2, SameAlive, SameActive
  <2>4. Keeps(d)
    BY <2>2, <2>3 DEF Keeps, Excepted
  <2>5. Served(d) \/ Ahead(d)
    BY <2>1, <2>2 DEF FillInv, Filled
  <2>6. CASE d # e
    <3>1. Ahead(d) => RefilledFrom(Tail(todo), 1, d)
      BY <1>0, <2>1, <2>6, AheadBelow DEF Refills
    <3>2. \/ Return
          \/ \E c \in Seq(Calls) : Then(c)
      <4>1. Return \/ \E c \in LoopCalls : Then(<<c>>)
        BY <1>0, <1>4, FillCalls
      <4>2. \A c \in LoopCalls : <<c>> \in Seq(Calls)
        BY DEF Calls
      <4> QED
        BY <4>1, <4>2
    <3>3. RefilledFrom(Tail(todo), 1, d) => RefilledFrom(todo', 1, d)
      BY <1>0, <3>2, RefillsThen DEF Return
    <3> QED
      BY <1>0, <1>1, <2>4, <2>5, <3>1, <3>3, StillServed
  <2>7. CASE d = e /\ n > 0
    <3>0. PICK c : c = LoopCall(d, 1, n)
      OBVIOUS
    <3>1. c = LoopCall(d, 1, n) /\ c.op = "loop" /\ c.d = d /\ c.pos = 1 /\ c.left = n
      BY <3>0 DEF LoopCall
    <3>2. todo' = <<c>> \o Tail(todo) /\ Tail(todo) \in Seq(Calls)
      BY <1>0, <2>1, <2>7, <3>1, TailFacts DEF Then
    <3>3. todo' # <<>> /\ Head(todo') = c
      BY <3>2
    <3>4. /\ Cardinality(ActiveSessions(d)) \in Nat /\ opt.max[d] \in Nat
          /\ n = opt.max[d] - Cardinality(ActiveSessions(d))
      BY <1>0, <2>7, ActiveFinite, CountAll, LimitsAssumption DEF IInv, WindowTypeOK, Settings
    <3> HIDE DEF n
    <3>5. Cardinality(ActiveSessions(d)') + c.left = opt'.max[d]
      BY <2>2, <2>3, <3>1, <3>4
    <3>6. \A j \in DOMAIN list' : ~(j < c.pos)
      <4>1. list' \in Seq(Sessions)
        BY DEF IInv, WindowTypeOK
      <4> QED
        BY <3>1, <4>1
    <3>7. Looping(d)'
      BY <3>1, <3>3, <3>5, <3>6 DEF Looping
    <3> QED
      BY <3>7 DEF Ahead
  <2>8. CASE d = e /\ ~(n > 0)
    <3>1. Full(d)
      <4>1. CountActiveSessions(d, Anon) \in Nat /\ opt.max[d] \in Nat
        BY <1>0, ActiveFinite, CountAll, LimitsAssumption DEF IInv, WindowTypeOK, Settings
      <4> QED
        BY <2>8, <4>1 DEF Full
    <3> QED
      BY <1>0, <2>4, <3>1, StillServed DEF Served
  <2> QED
    BY <2>6, <2>7, <2>8
<1> QED
  BY <1>2, <1>3, <1>4

\* The end of the loop.
LEMMA NothingToStartFill ==
  ASSUME FillInv, IInv', app' = "running", removing' = <<>>, halted' = {},
         NEW d \in Directions, NothingToStart
  PROVE  Served(d)' \/ Ahead(d)'
<1>0. /\ IInv /\ todo \in Seq(Calls) /\ todo # <<>> /\ Head(todo).op = "loop" /\ app = "running"
      /\ Candidates(Head(todo)) = {} /\ Return
      /\ UNCHANGED <<windowVars, sessionVars, removing>>
  BY FollowTypes DEF FillInv, NothingToStart, Doing
<1>1. UNCHANGED <<list, opt, app, dir, user, files, waiting, finished, connected, saved, hashing,
                  halted, removing>>
  BY <1>0 DEF windowVars, sessionVars, peerVars, linkVars, outcomeVars
<1>2. Alive' = Alive /\ ActiveSessions(d)' = ActiveSessions(d)
  BY <1>0, <1>1, SameAlive, SameActive
<1>3. Keeps(d)
  BY <1>1, <1>2 DEF Keeps, Excepted
<1>4. Served(d) \/ Ahead(d)
  BY <1>0, <1>1 DEF FillInv, Filled
<1>5. CASE RefilledFrom(todo, 1, d)
  <2>1. RefilledFrom(Tail(todo), 1, d)
    BY <1>0, <1>5, LoopBelow
  <2> QED
    BY <1>0, <2>1 DEF Return, Ahead
<1>6. CASE Looping(d)
  <2>1. ASSUME NEW x \in Alive, x \in waiting, dir[x] = d PROVE Passed(x)
    <3>1. PICK j \in DOMAIN list : list[j] = x
      BY DEF Alive, Range
    <3>2. CASE j < Head(todo).pos
      BY <1>6, <2>1, <3>1, <3>2 DEF Looping
    <3>3. CASE j >= Head(todo).pos
      <4>1. ~Startable(x, d)
        BY <1>0, <1>6, <3>1, <3>3 DEF Candidates, Looping
      <4>2. CountActiveSessions(d, user[x]) \in Nat /\ opt.perUser[d] \in Nat
        BY <1>0, <1>3, MoreActive, LimitsAssumption DEF IInv, WindowTypeOK, Settings
      <4> QED
        BY <2>1, <4>1, <4>2 DEF Startable, Passed, Share
    <3>4. j \in Nat /\ Head(todo).pos \in Nat
      <4>1. j \in Nat
        BY <1>0, <3>1 DEF IInv, WindowTypeOK
      <4>2. Head(todo) \in LoopCalls
        BY <1>0, DoingLoop DEF IInv, Doing
      <4> QED
        BY <4>1, <4>2 DEF LoopCalls
    <3> QED
      BY <3>2, <3>3, <3>4
  <2> QED
    BY <1>0, <1>3, <2>1, StillServed DEF Served
<1> QED
  BY <1>0, <1>3, <1>4, <1>5, <1>6, StillServed DEF Ahead

\* The loop starts one session, which takes one of the slots that are left.
LEMMA StartNextFill ==
  ASSUME FillInv, IInv', app' = "running", removing' = <<>>, halted' = {},
         NEW d \in Directions, StartNext
  PROVE  Served(d)' \/ Ahead(d)'
<1> DEFINE call == Head(todo)
<1>0. /\ IInv /\ FollowInv /\ todo \in Seq(Calls) /\ todo # <<>> /\ call.op = "loop"
      /\ app = "running" /\ ~Doing("delete")
  BY FollowTypes DEF FillInv, StartNext, Doing
<1>1. PICK i \in Candidates(call) :
        /\ \A j \in Candidates(call) : i <= j
        /\ BeginTransfer(list[i]) /\ UNCHANGED windowVars
        /\ IF call.left = 1 THEN Return ELSE Then(<<LoopCall(call.d, i + 1, call.left - 1)>>)
  BY DEF StartNext
<1>2. PICK s \in Alive : s = list[i] /\ s \in waiting /\ dir[s] = call.d /\ i \in DOMAIN list
  BY <1>1 DEF Candidates, Startable, Alive, Range
<1>3. /\ UNCHANGED <<list, opt, app>> /\ Alive' = Alive /\ Alive \subseteq Sessions
      /\ list \in Seq(Sessions) /\ DOMAIN list \subseteq Nat
  BY <1>0, <1>1, SameAlive, UploadsAreSessions DEF windowVars, IInv, WindowTypeOK
<1>4. halted' = halted
  BY <1>0, <1>1, <1>2, BeginMarked DEF Alone
<1>5. /\ removing = <<>> /\ s \notin finished /\ waiting' = waiting \ {s}
      /\ UNCHANGED <<dir, user, files, saved, hashing, finished, connected>>
  BY <1>0, <1>1, <1>2, <1>4, BeginStarts DEF peerVars
<1>6. Served(d) \/ Ahead(d)
  BY <1>0, <1>4, <1>5 DEF FillInv, Filled
<1>7. Keeps(d)
  BY <1>3, <1>5 DEF Keeps, Excepted, ActiveSessions, IsActive
<1>8. CASE Served(d)
  BY <1>0, <1>7, <1>8, StillServed
<1>9. CASE RefilledFrom(todo, 1, d)
  <2>1. RefilledFrom(Tail(todo), 1, d)
    BY <1>0, <1>9, LoopBelow
  <2>2. Return \/ \E c \in Seq(Calls) : Then(c)
    <3>1. Return \/ \E c \in LoopCalls : Then(<<c>>)
      BY <1>0, FillCalls
    <3>2. \A c \in LoopCalls : <<c>> \in Seq(Calls)
      BY DEF Calls
    <3> QED
      BY <3>1, <3>2
  <2>3. RefilledFrom(todo', 1, d)
    BY <1>0, <2>1, <2>2, RefillsThen DEF Return
  <2> QED
    BY <2>3 DEF Ahead
<1>10. CASE Looping(d)
  <2>0. call \in LoopCalls /\ call.d = d /\ call.left \in Nat \ {0} /\ call.pos \in Nat \ {0}
    <3>1. call \in LoopCalls
      BY <1>0, DoingLoop DEF IInv, Doing
    <3> QED
      BY <1>10, <3>1 DEF LoopCalls, Looping
  <2>1. /\ Cardinality(ActiveSessions(d)) \in Nat /\ Cardinality(ActiveSessions(d)') \in Nat
        /\ Cardinality(ActiveSessions(d)') = Cardinality(ActiveSessions(d)) + 1
    <3>1. PICK A : A = ActiveSessions(d)
      OBVIOUS
    <3>2. PICK B : B = ActiveSessions(d)'
      OBVIOUS
    <3>3. B = A \cup {s} /\ s \notin A
      BY <1>2, <1>3, <1>5, <2>0, <3>1, <3>2 DEF ActiveSessions, IsActive
    <3>4. IsFiniteSet(A) /\ Cardinality(A) \in Nat
      BY <1>0, <3>1, ActiveFinite DEF IInv
    <3>5. Cardinality(B) = Cardinality(A) + 1
      BY <3>3, <3>4, FS_AddElement
    <3> QED
      BY <3>1, <3>2, <3>4, <3>5
  <2>2. opt'.max[d] = opt.max[d] /\ opt.max[d] \in Nat
    BY <1>0, <1>3, LimitsAssumption DEF IInv, WindowTypeOK, Settings
  <2>3. Cardinality(ActiveSessions(d)) + call.left = opt.max[d]
    BY <1>10 DEF Looping
  <2>4. CASE call.left = 1
    <3>1. Cardinality(ActiveSessions(d)') = opt'.max[d]
      BY <2>1, <2>2, <2>3, <2>4
    <3>2. PICK n : n = Cardinality(ActiveSessions(d)')
      OBVIOUS
    <3>3. CountActiveSessions(d, Anon)' = n
      <4>1. (CountActiveSessions(d, Anon) = Cardinality(ActiveSessions(d)))'
        BY CountAll, PTL
      <4> QED
        BY <3>2, <4>1
    <3>4. n >= opt'.max[d]
      BY <2>2, <3>1, <3>2
    <3> QED
      BY <3>3, <3>4 DEF Served, Full
  <2>5. CASE call.left # 1
    <3>0. PICK c : c = LoopCall(d, i + 1, call.left - 1)
      OBVIOUS
    <3>1. c.op = "loop" /\ c.d = d /\ c.pos = i + 1 /\ c.left = call.left - 1
      BY <3>0 DEF LoopCall
    <3>2. todo' = <<c>> \o Tail(todo) /\ Tail(todo) \in Seq(Calls)
      BY <1>0, <1>1, <2>0, <2>5, <3>0, TailFacts DEF Then
    <3>3. todo' # <<>> /\ Head(todo') = c
      BY <3>2
    <3>4. Cardinality(ActiveSessions(d)') + c.left = opt'.max[d]
      BY <2>0, <2>1, <2>2, <2>3, <3>1
    <3>5. ASSUME NEW j \in DOMAIN list', j < c.pos, list'[j] \in waiting', dir'[list'[j]] = d
          PROVE  Passed(list[j])'
      <4>1. j \in DOMAIN list /\ j \in Nat /\ i \in Nat /\ list'[j] = list[j] /\ list[j] \in Alive'
        BY <1>2, <1>3, <3>5 DEF Alive, Range
      <4>2. list[j] \in waiting /\ list[j] # s /\ dir[list[j]] = d
        BY <1>5, <3>5, <4>1
      <4>3. j # i
        BY <1>2, <4>2
      <4>4. j < i
        BY <3>1, <3>5, <4>1, <4>3
      <4>5. Passed(list[j])
        <5>1. CASE j < call.pos
          BY <1>10, <4>1, <4>2, <5>1 DEF Looping
        <5>2. CASE j >= call.pos
          <6>1. ~Startable(list[j], d)
            BY <1>1, <2>0, <4>1, <4>4, <5>2 DEF Candidates
          <6>2. CountActiveSessions(d, user[list[j]]) \in Nat /\ opt.perUser[d] \in Nat
            BY <1>0, <1>7, MoreActive, LimitsAssumption DEF IInv, WindowTypeOK, Settings
          <6> QED
            BY <4>2, <6>1, <6>2 DEF Startable, Passed, Share
        <5> QED
          BY <2>0, <4>1, <5>1, <5>2
      <4>6. PICK x \in Alive' : x = list[j]
        BY <4>1
      <4>7. Passed(x)'
        BY <1>0, <1>7, <3>5, <4>1, <4>5, <4>6, StillPassed
      <4>8. x = list'[j]
        BY <4>1, <4>6
      <4> QED
        BY <4>7, <4>8, <1>3 DEF Passed, Share, Excepted, CountActiveSessions
    <3>6. Looping(d)'
      BY <1>3, <3>1, <3>3, <3>4, <3>5 DEF Looping
    <3> QED
      BY <3>6 DEF Ahead
  <2> QED
    BY <2>4, <2>5
<1> QED
  BY <1>6, <1>8, <1>9, <1>10 DEF Ahead

\* A call for sessions that frees no slot.
LEMMA CallFill ==
  ASSUME FillInv, IInv', app' = "running", removing = <<>>, halted = {}, NEW d \in Directions,
         NEW op \in SessionOps, Doing(op), Keeps(d),
         RefilledFrom(Tail(todo), 1, d) => RefilledFrom(todo', 1, d)
  PROVE  Served(d)' \/ Ahead(d)'
<1>1. /\ IInv /\ todo \in Seq(Calls) /\ todo # <<>> /\ app = "running"
      /\ Head(todo).op # "loop" /\ ~Refills(Head(todo), d)
  BY FollowTypes DEF FillInv, Doing, SessionOps, Refills
<1>2. Served(d) \/ Ahead(d)
  BY <1>1 DEF FillInv, Filled
<1>3. Ahead(d) => RefilledFrom(todo', 1, d)
  BY <1>1, AheadBelow
<1> QED
  BY <1>1, <1>2, <1>3, StillServed DEF Ahead

\* A session that is over already has no slot to free.
LEMMA OverKeeps ==
  ASSUME FollowInv, NEW s \in Alive, mtt[s] = "none", NEW error \in BOOLEAN,
         AbortSession(s, error), UNCHANGED windowVars, NEW d \in Directions
  PROVE  Keeps(d) /\ removing' = removing /\ halted' = halted
<1>1. s \in finished /\ s \notin connected
  BY DEF FollowInv, SlotInv, LiveSession, Linked
<1>2. /\ UNCHANGED <<list, opt, dir, user, files, saved, hashing, removing, halted>>
      /\ waiting' = waiting \ {s} /\ connected' = connected \ {s} /\ finished' = finished \cup {s}
  BY DEF AbortSession, peerVars, windowVars
<1>3. Alive' = Alive /\ connected' = connected /\ finished' = finished
  BY <1>1, <1>2, SameAlive
<1> QED
  BY <1>1, <1>2, <1>3 DEF Keeps, Excepted, ActiveSessions, IsActive

LEMMA SessionFill ==
  ASSUME FillInv, IInv', app' = "running", removing' = <<>>, halted' = {},
         NEW d \in Directions, AbortNext \/ RestartNext \/ HaltNext \/ ResumeNext \/ UploadNext
  PROVE  Served(d)' \/ Ahead(d)'
<1>0. PICK op \in SessionOps : Doing(op) /\ op # "delete"
  BY DEF AbortNext, RestartNext, HaltNext, ResumeNext, UploadNext, SessionOps
<1>1. /\ IInv /\ FollowInv /\ todo \in Seq(Calls) /\ Alive \subseteq Sessions
      /\ UNCHANGED windowVars /\ ~Doing("delete")
  BY <1>0, FollowTypes DEF FillInv, AbortNext, RestartNext, HaltNext, ResumeNext, UploadNext, Doing
<1>2. ASSUME NEW s, NEW calls \in Seq(Calls), ThenOthers(calls, s),
             RefilledFrom(calls, 1, d) \/ RefilledFrom(Tail(todo), 1, d)
      PROVE  Ahead(d)' /\ RefilledFrom(todo', 1, d)
  <2>1. RefilledFrom(todo', 1, d)
    BY <1>0, <1>1, <1>2, RefillsOthers
  <2> QED
    BY <2>1 DEF Ahead
<1>3. <<>> \in Seq(Calls)
  OBVIOUS
<1>4. ASSUME NEW s \in Alive, NEW restart \in BOOLEAN
      PROVE  /\ AbortCalls(s, TRUE, restart) \in Seq(Calls)
             /\ mtt[s] # "none" /\ ~RemovesItself(s, ~TRUE) =>
                  RefilledFrom(AbortCalls(s, TRUE, restart), 1, d)
  <2>1. s \in Sessions /\ (s \in autoRestart => s \in Sessions)
    BY <1>1
  <2> QED
    BY <2>1, AbortCallsFollow
<1>5. CASE op \in Followed
  <2>1. RefilledFrom(Tail(todo), 1, d)
    BY <1>0, <1>1, <1>5, HeadFollows
  <2>2. PICK s \in Alive, calls \in Seq(Calls) : ThenOthers(calls, s)
    <3>1. CASE RestartNext \/ ResumeNext
      <4>1. PICK s \in Alive : ThenOthers(<<>>, s)
        BY <3>1, VisitedAlive DEF RestartNext, ResumeNext
      <4> QED
        BY <1>3, <4>1
    <3>2. CASE HaltNext
      <4>1. PICK s \in Alive : ThenOthers(<<>>, s) \/ ThenOthers(AbortCalls(s, TRUE, FALSE), s)
        BY <3>2, VisitedAlive DEF HaltNext
      <4> QED
        BY <1>3, <1>4, <4>1
    <3>3. ~AbortNext /\ ~UploadNext
      BY <1>0, <1>5 DEF AbortNext, UploadNext, Followed, Doing
    <3> QED
      BY <3>1, <3>2, <3>3
  <2> QED
    BY <1>2, <2>1, <2>2
<1>6. CASE AbortNext
  <2>1. PICK s \in Alive, restart \in BOOLEAN :
          ThenOthers(AbortCalls(s, TRUE, restart), s) /\ AbortSession(s, TRUE)
    BY <1>6, VisitedAlive DEF AbortNext
  <2>2. CASE mtt[s] # "none" /\ RemovesItself(s, ~TRUE)
    BY <1>1, <2>1, <2>2, AbortMarked
  <2>3. CASE mtt[s] # "none" /\ ~RemovesItself(s, ~TRUE)
    BY <1>2, <1>4, <2>1, <2>3
  <2>4. CASE mtt[s] = "none"
    <3>1. Keeps(d) /\ removing' = removing /\ halted' = halted
      BY <1>1, <2>1, <2>4, OverKeeps
    <3>2. RefilledFrom(Tail(todo), 1, d) => RefilledFrom(todo', 1, d)
      BY <1>2, <1>4, <2>1
    <3> QED
      BY <1>0, <3>1, <3>2, CallFill
  <2> QED
    BY <2>2, <2>3, <2>4
<1>7. CASE UploadNext
  <2>0. op = "upload" /\ Head(todo).s \subseteq Up
    <3>1. op = "upload"
      BY <1>0, <1>7 DEF UploadNext, Doing
    <3> QED
      BY <1>0, <1>1, <3>1, HeadFollows
  <2>1. PICK s \in Alive :
          /\ s \in Head(todo).s /\ ThenOthers(<<>>, s)
          /\ IF s \in waiting THEN UNCHANGED <<sessionVars, removing>> ELSE DoUpload(s)
    BY <1>7, VisitedAlive DEF UploadNext
  <2>2. RefilledFrom(Tail(todo), 1, d) => RefilledFrom(todo', 1, d)
    BY <1>2, <1>3, <2>1
  <2>3. Keeps(d) /\ removing = <<>> /\ halted = {}
    <3>1. CASE AbortSession(s, TRUE)
      <4>1. RemovesItself(s, ~TRUE)
        BY <2>0, <2>1 DEF RemovesItself, Up
      <4>2. mtt[s] = "none"
        BY <1>1, <3>1, <4>1, AbortMarked
      <4> QED
        BY <1>1, <3>1, <4>2, OverKeeps
    <3>2. CASE ~AbortSession(s, TRUE)
      <4>1. UNCHANGED <<list, opt, dir, user, files, saved, hashing, removing, halted, waiting,
                        connected, finished>>
        BY <1>1, <2>1, <3>2 DEF DoUpload, windowVars, sessionVars, peerVars, linkVars, outcomeVars
      <4>2. Alive' = Alive
        BY <4>1, SameAlive
      <4> QED
        BY <4>1, <4>2 DEF Keeps, Excepted, ActiveSessions, IsActive
    <3> QED
      BY <3>1, <3>2
  <2> QED
    BY <1>0, <2>2, <2>3, CallFill
<1>8. RestartNext \/ HaltNext \/ ResumeNext => op \in Followed
  BY <1>0 DEF RestartNext, HaltNext, ResumeNext, Followed, Doing
<1> QED
  BY <1>5, <1>6, <1>7, <1>8

LEMMA DeleteFill ==
  ASSUME FillInv, IInv', app' = "running", removing' = <<>>, halted' = {},
         NEW d \in Directions, DeleteNext
  PROVE  Served(d)' \/ Ahead(d)'
<1>0. PICK op \in SessionOps : op = "delete" /\ Doing(op)
  BY DEF DeleteNext, SessionOps
<1>1. /\ IInv /\ FollowInv /\ todo \in Seq(Calls) /\ Alive \subseteq Sessions
      /\ list \in Seq(Sessions) /\ SessionTypeOK /\ <<>> \in Seq(Calls)
  BY FollowTypes DEF FillInv, WindowTypeOK
<1>2. PICK s \in Head(todo).s, i \in DOMAIN list :
        /\ s \in Alive /\ list[i] = s /\ list' = RemoveAt(list, i) /\ ThenOthers(<<>>, s)
        /\ dir' = [dir EXCEPT ![s] = "down"] /\ user' = [user EXCEPT ![s] = Anon]
        /\ files' = [files EXCEPT ![s] = 0]
        /\ waiting' = waiting \ {s} /\ connected' = connected \ {s}
        /\ saved' = saved \ {s} /\ hashing' = hashing \ {s}
        /\ finished' = finished \cup {s} /\ halted' = halted \ {s}
        /\ UNCHANGED <<removing, opt, app>>
  BY VisitedAlive DEF DeleteNext
<1>3. RefilledFrom(Tail(todo), 1, d) => RefilledFrom(todo', 1, d)
  BY <1>0, <1>1, <1>2, RefillsOthers
<1>4. CASE \A e \in Directions : RefilledFrom(Tail(todo), 1, e)
  BY <1>3, <1>4 DEF Ahead
<1>5. CASE ~\A e \in Directions : RefilledFrom(Tail(todo), 1, e)
  <2>1. s \in finished
    BY <1>0, <1>1, <1>2, <1>5, HeadFollows
  <2>2. s \notin halted
    <3>1. Range(removing) = {} /\ ~Deleting(s) /\ Marked(s)
      BY <1>1, <1>2, <1>5 DEF Range, Deleting, FollowInv, MarksOK
    <3> QED
      BY <2>1, <3>1 DEF Marked
  <2>3. Alive' \subseteq Alive /\ Alive \ {s} \subseteq Alive'
    <3>1. Range(RemoveAt(list, i)) \subseteq Range(list)
      BY <1>1, RemoveAtRange
    <3>2. \A x \in Range(list) : x # list[i] => x \in Range(RemoveAt(list, i))
      BY <1>1, RemoveAtKeeps
    <3> QED
      BY <1>2, <3>1, <3>2 DEF Alive
  <2>4. \A x \in Sessions \ {s} : dir'[x] = dir[x] /\ user'[x] = user[x] /\ files'[x] = files[x]
    BY <1>1, <1>2 DEF SessionTypeOK
  <2>5. ActiveSessions(d) \subseteq ActiveSessions(d)'
    BY <1>1, <1>2, <2>1, <2>3, <2>4 DEF ActiveSessions, IsActive
  <2>6. ASSUME NEW x \in ActiveSessions(d), user[x] # Anon PROVE user'[x] = user[x]
    BY <1>1, <2>1, <2>4, <2>6 DEF ActiveSessions, IsActive
  <2>7. ASSUME NEW x \in Alive', x \in waiting', dir'[x] = d
        PROVE  /\ x \in Alive /\ x \in waiting /\ dir[x] = d
               /\ Excepted(x)' \/ (user'[x] = user[x] /\ ~Excepted(x))
    <3>1. x \in Sessions \ {s}
      BY <1>1, <1>2, <2>3, <2>7
    <3> QED
      BY <1>2, <2>3, <2>4, <2>7, <3>1 DEF Excepted
  <2>8. Keeps(d)
    BY <1>2, <2>5, <2>6, <2>7 DEF Keeps
  <2>9. removing = <<>> /\ halted = {}
    BY <1>2, <2>2
  <2> QED
    BY <1>0, <1>3, <2>8, <2>9, CallFill
<1> QED
  BY <1>4, <1>5

\* The stacks with which a handler fills the slots.
LEMMA FirstRefills ==
  ASSUME NEW op \in SessionOps, NEW S \in SUBSET Sessions, NEW d
  PROVE  /\ RefilledFrom(<<DequeueCall>>, 1, d)
         /\ RefilledFrom(<<Call(op, S), DequeueCall>>, 1, d)
         /\ RefilledFrom(<<DequeueCall, Call(op, S)>>, 1, d)
<1>1. PICK a \in Calls, b \in Calls : a = Call(op, S) /\ b = DequeueCall /\ Refills(b, d)
  BY CallOps DEF Refills
<1>2. RefilledFrom(<<b>>, 1, d) /\ RefilledFrom(<<a, b>>, 1, d) /\ RefilledFrom(<<b, a>>, 1, d)
  BY <1>1 DEF RefilledFrom
<1> QED
  BY <1>1, <1>2

\* A handler that frees no slot.
LEMMA IdleFill ==
  ASSUME FillInv, IInv', Idle, removing = <<>>, halted = {}, NEW d \in Directions, Keeps(d)
  PROVE  Served(d)'
<1>1. IInv /\ todo = <<>> /\ app = "running"
  BY FollowTypes DEF FillInv, Idle
<1>2. ~Ahead(d)
  BY <1>1 DEF Ahead, Looping, RefilledFrom
<1> QED
  BY <1>1, <1>2, StillServed DEF FillInv, Filled

\* What the slots depend on stays as it is.
LEMMA SameKeeps ==
  ASSUME UNCHANGED <<dir, user, files, waiting, finished, connected>>, Alive' = Alive,
         UNCHANGED <<saved, hashing>> \/ saved' \cup hashing' = saved \cup hashing,
         opt'.max = opt.max, opt'.perUser = opt.perUser, NEW d
  PROVE  Keeps(d)
BY DEF Keeps, Excepted, ActiveSessions, IsActive

LEMMA ArrivalFill ==
  ASSUME Arrival, NEW d \in Directions
  PROVE  Ahead(d)'
<1>1. todo' = <<DequeueCall>>
  BY DEF Arrival, SocketAccepted, ConnectBackRequestReceived, RequestDownload, RequestCallback,
         NewSession
<1>2. "delete" \in SessionOps /\ {} \in SUBSET Sessions
  BY DEF SessionOps
<1>3. RefilledFrom(<<DequeueCall>>, 1, d)
  BY <1>2, FirstRefills
<1> QED
  BY <1>1, <1>3 DEF Ahead

\* A session that has ended leaves the list, or the slots are filled.
LEMMA EventFill ==
  ASSUME FillInv, IInv', removing' = <<>>, halted' = {}, NEW d \in Directions, Event
  PROVE  Served(d)' \/ Ahead(d)'
<1>1. PICK s \in Alive :
        \/ Connected(s) \/ Disconnected(s) \/ BadMessage(s) \/ Rejected(s)
        \/ Md5SendDone(s) \/ FileData(s) \/ Drained(s)
        \/ \E u \in Users : PeerId(s, u) \/ FileList(s, u)
        \/ \E n \in 1..MaxFiles : Md5RecvDone(s, n)
  BY DEF Event
<1>2. UNCHANGED windowVars /\ Idle
  BY <1>1 DEF Connected, Disconnected, BadMessage, Rejected, Md5SendDone, FileData, Drained,
              PeerId, FileList, Md5RecvDone
<1>3. /\ IInv /\ FollowInv /\ SessionTypeOK /\ Alive' = Alive /\ list' = list /\ opt' = opt
      /\ s \in Sessions /\ {s} \in SUBSET Sessions /\ ~Doing("delete")
  BY <1>2, SameAlive, FollowTypes DEF windowVars, FillInv, Idle, Doing
<1>4. ASSUME \/ todo' = <<DequeueCall>>
             \/ \E op \in SessionOps : \/ todo' = <<Call(op, {s}), DequeueCall>>
                                       \/ todo' = <<DequeueCall, Call(op, {s})>>
      PROVE  Ahead(d)'
  <2>1. RefilledFrom(<<DequeueCall>>, 1, d)
    BY <1>3, FirstRefills DEF SessionOps
  <2>2. RefilledFrom(todo', 1, d)
    BY <1>3, <1>4, <2>1, FirstRefills
  <2> QED
    BY <2>2 DEF Ahead
<1>5. ASSUME Keeps(d), removing' = removing, halted' = halted PROVE Served(d)'
  BY <1>2, <1>5, IdleFill
<1>6. CASE Disconnected(s)
  <2> DEFINE incomplete == IF dir[s] = "down" THEN files[s] > 0 ELSE toSend[s] > 0
             restart == incomplete /\ s \in autoRestart
             leaves == ~restart /\ RemovesItself(s, ~incomplete)
  <2>1. /\ removing' = IF leaves THEN Append(removing, s) ELSE removing
        /\ todo' = CASE restart -> <<Call("restart", {s}), DequeueCall>>
                     [] leaves -> <<>>
                     [] OTHER -> <<DequeueCall>>
    BY <1>6 DEF Disconnected
  <2> HIDE DEF incomplete, restart, leaves
  <2>2. Append(removing, s) # <<>>
    BY <1>3, PostedStay DEF SessionTypeOK
  <2>3. ~leaves
    BY <2>1, <2>2
  <2>4. todo' = <<DequeueCall>> \/ todo' = <<Call("restart", {s}), DequeueCall>>
    BY <2>1, <2>3
  <2> QED
    BY <1>4, <2>4 DEF SessionOps
<1>7. CASE Drained(s)
  <2>1. CASE AbortSession(s, FALSE)
    <3>1. RemovesItself(s, ~FALSE)
      BY <1>7 DEF Drained, RemovesItself
    <3>2. mtt[s] = "none"
      BY <1>3, <2>1, <3>1, AbortMarked
    <3> QED
      BY <1>2, <1>3, <1>5, <2>1, <3>2, OverKeeps
  <2>2. CASE UNCHANGED <<peerVars, linkVars, outcomeVars, waiting, halted, removing>>
    <3>1. UNCHANGED <<dir, user, files, waiting, finished, connected, saved, hashing>>
      BY <2>2 DEF peerVars, linkVars, outcomeVars
    <3> QED
      BY <1>3, <1>5, <2>2, <3>1, SameKeeps
  <2> QED
    BY <1>7, <2>1, <2>2 DEF Drained
<1>8. CASE \/ Md5SendDone(s) \/ (\E u \in Users : FileList(s, u))
           \/ \E n \in 1..MaxFiles : Md5RecvDone(s, n)
  <2>1. todo' = <<DequeueCall>> \/ todo' = <<DequeueCall, Call("upload", {s})>>
    <3>1. CASE Md5SendDone(s) \/ \E u \in Users : FileList(s, u)
      BY <3>1 DEF Md5SendDone, FileList
    <3>2. CASE \E n \in 1..MaxFiles : Md5RecvDone(s, n)
      BY <3>2 DEF Md5RecvDone
    <3> QED
      BY <1>8, <3>1, <3>2
  <2> QED
    BY <1>4, <2>1 DEF SessionOps
<1>9. CASE BadMessage(s) \/ Rejected(s)
  <2>1. UNCHANGED <<dir, user, files, waiting, finished, connected, saved, hashing, removing, halted>>
    BY <1>9 DEF BadMessage, Rejected, sessionVars, peerVars, linkVars, outcomeVars
  <2> QED
    BY <1>3, <1>5, <2>1, SameKeeps
<1>10. CASE Connected(s)
  <2>1. /\ connected' = connected \cup {s}
        /\ dir[s] = "up" => hashing' = hashing
        /\ hashing' \subseteq hashing \cup {s}
        /\ UNCHANGED <<dir, user, files, saved, waiting, finished, removing, halted>>
    BY <1>10 DEF Connected, outcomeVars
  <2>2. \A x \in Sessions : Excepted(x)' \/ ~Excepted(x)
    BY <2>1 DEF Excepted
  <2>3. Keeps(d)
    <3>1. Alive' \subseteq Sessions
      BY <1>3, FollowTypes
    <3> QED
      BY <1>3, <2>1, <2>2, <3>1 DEF Keeps, ActiveSessions, IsActive
  <2> QED
    BY <1>5, <2>1, <2>3
<1>11. CASE FileData(s)
  <2>1. /\ dir[s] = "down" /\ files' \in {files, [files EXCEPT ![s] = @ - 1]}
        /\ UNCHANGED <<dir, user, saved, hashing, waiting, finished, connected, removing, halted>>
    BY <1>11 DEF FileData, linkVars
  <2>2. \A x \in Sessions \ {s} : files'[x] = files[x]
    BY <1>3, <2>1 DEF SessionTypeOK
  <2>3. \A x \in Sessions : Excepted(x)' \/ ~Excepted(x)
    BY <2>1, <2>2 DEF Excepted
  <2>4. Keeps(d)
    <3>1. Alive' \subseteq Sessions
      BY <1>3, FollowTypes
    <3> QED
      BY <1>3, <2>1, <2>3, <3>1 DEF Keeps, ActiveSessions, IsActive
  <2> QED
    BY <1>5, <2>1, <2>4
<1>12. ASSUME NEW u \in Users, PeerId(s, u) PROVE Served(d)'
  <2>1. /\ dir[s] = "up" /\ s \in connected \ (saved \cup hashing) /\ files[s] = 0
        /\ user[s] \in {Anon, u} /\ user' = [user EXCEPT ![s] = u]
        /\ UNCHANGED <<dir, files, saved, hashing, waiting, finished, connected, removing, halted>>
    BY <1>12 DEF PeerId, linkVars, outcomeVars
  <2>2. user'[s] = u /\ u # Anon /\ \A x \in Sessions \ {s} : user'[x] = user[x]
    BY <1>3, <2>1, UsersAssumption DEF SessionTypeOK
  <2>3. Excepted(s)'
    BY <2>1, <2>2 DEF Excepted
  <2>4. \A x \in Sessions \ {s} : Excepted(x)' \/ ~Excepted(x)
    BY <2>1, <2>2 DEF Excepted
  <2>5. Keeps(d)
    <3>1. Alive \subseteq Sessions
      BY <1>3, FollowTypes
    <3>2. \A x \in Sessions : user[x] # Anon => user'[x] = user[x]
      BY <2>1, <2>2
    <3> QED
      BY <1>3, <2>1, <2>2, <2>3, <2>4, <3>1, <3>2 DEF Keeps, ActiveSessions, IsActive
  <2> QED
    BY <1>5, <2>1, <2>5
<1> QED
  BY <1>1, <1>6, <1>7, <1>8, <1>9, <1>10, <1>11, <1>12

LEMMA NoticeFill ==
  ASSUME FillInv, IInv', app' = "running", removing' = <<>>, halted' = {},
         NEW d \in Directions, Notice
  PROVE  Served(d)' \/ Ahead(d)'
<1>0. IInv /\ FollowInv /\ Alive \subseteq Sessions
  BY FollowTypes DEF FillInv
<1>1. ASSUME NEW op \in SessionOps, NEW S \in SUBSET Sessions,
             todo' = <<DequeueCall>> \/ todo' = <<Call(op, S), DequeueCall>>
      PROVE  Ahead(d)'
  <2>1. RefilledFrom(todo', 1, d)
    BY <1>1, FirstRefills
  <2> QED
    BY <2>1 DEF Ahead
<1>2. ASSUME Idle, UNCHANGED <<list, opt, sessionVars, removing>> PROVE Served(d)'
  <2>1. UNCHANGED <<dir, user, files, waiting, finished, connected, saved, hashing, halted>>
    BY <1>2 DEF sessionVars, peerVars, linkVars, outcomeVars
  <2>2. Keeps(d)
    BY <1>2, <2>1, SameAlive, SameKeeps
  <2> QED
    BY <1>2, <2>1, <2>2, IdleFill
<1>3. CASE ScanStarts \/ SharesScanComplete
  <2>1. /\ UNCHANGED <<list, opt, dir, user, files, waiting, finished, connected, removing, halted>>
        /\ UNCHANGED <<saved, hashing>> \/ saved' \cup hashing' = saved \cup hashing
        /\ Idle
    BY <1>3 DEF ScanStarts, SharesScanComplete, sessionVars, peerVars, linkVars, outcomeVars
  <2>2. Keeps(d)
    BY <2>1, SameAlive, SameKeeps
  <2> QED
    BY <2>1, <2>2, IdleFill
<1>4. CASE \/ \E u \in Users : TransferCallbackRejected(u) \/ RemoveUser(u)
           \/ \E expired \in SUBSET Sessions : CheckForMoribundConnections(expired)
  <2>1. Idle /\ UNCHANGED <<windowVars, sessionVars, removing>>
    BY <1>4 DEF TransferCallbackRejected, RemoveUser, CheckForMoribundConnections, Handler
  <2> QED
    BY <1>2, <2>1 DEF windowVars
<1>5. CASE \E u \in Users : RestartDownloadsFor(u)
  <2>1. PICK u \in Users : RestartDownloadsFor(u)
    BY <1>5
  <2>2. PICK S \in SUBSET Sessions : todo' = <<Call("restart", S), DequeueCall>>
    BY <1>0, <2>1 DEF RestartDownloadsFor, Handler
  <2> QED
    BY <1>1, <2>2 DEF SessionOps
<1>6. CASE RemoveSession
  <2>1. \/ todo' = <<DequeueCall>>
        \/ /\ Head(removing) \in Alive
           /\ todo' = <<Call("delete", {Head(removing)}), DequeueCall>>
    BY <1>6 DEF RemoveSession
  <2>2. "delete" \in SessionOps /\ {} \in SUBSET Sessions
    BY DEF SessionOps
  <2>3. CASE todo' = <<DequeueCall>>
    BY <1>1, <2>2, <2>3
  <2>4. CASE /\ Head(removing) \in Alive
             /\ todo' = <<Call("delete", {Head(removing)}), DequeueCall>>
    <3>1. {Head(removing)} \in SUBSET Sessions
      BY <1>0, <2>4
    <3> QED
      BY <1>1, <2>2, <2>4, <3>1
  <2> QED
    BY <2>1, <2>3, <2>4
<1> QED
  BY <1>3, <1>4, <1>5, <1>6 DEF Notice

LEMMA UserCommandFill ==
  ASSUME FillInv, IInv', removing' = <<>>, halted' = {}, NEW d \in Directions, UserCommand
  PROVE  Served(d)' \/ Ahead(d)'
<1>0. /\ IInv /\ Alive \subseteq Sessions /\ Uploads \subseteq Sessions /\ list \in Seq(Sessions)
      /\ \A S \in Selections : S \in SUBSET Sessions
  BY FollowTypes, UploadsAreSessions DEF FillInv, WindowTypeOK, Selections
<1>1. ASSUME NEW op \in SessionOps, NEW S \in SUBSET Sessions,
             todo' = <<DequeueCall>> \/ todo' = <<Call(op, S), DequeueCall>>
      PROVE  Ahead(d)'
  <2>1. RefilledFrom(todo', 1, d)
    BY <1>1, FirstRefills
  <2> QED
    BY <2>1 DEF Ahead
<1>2. ASSUME todo' = <<DequeueCall>> PROVE Ahead(d)'
  <2>1. "delete" \in SessionOps /\ {} \in SUBSET Sessions
    BY DEF SessionOps
  <2> QED
    BY <1>1, <1>2, <2>1
<1>3. ASSUME Idle, Alive' = Alive, UNCHANGED <<sessionVars, removing>>,
             opt'.max = opt.max, opt'.perUser = opt.perUser
      PROVE  Served(d)'
  <2>1. UNCHANGED <<dir, user, files, waiting, finished, connected, saved, hashing, halted>>
    BY <1>3 DEF sessionVars, peerVars, linkVars, outcomeVars
  <2>2. Keeps(d)
    BY <1>3, <2>1, SameKeeps
  <2> QED
    BY <1>3, <2>1, <2>2, IdleFill
<1>4. CASE \/ \E e \in Directions, n \in Limits : SetLimit(e, n) \/ SetPerUserLimit(e, n)
           \/ ToggleShortestUploadsFirst \/ PauseAllUploads
  BY <1>2, <1>4 DEF SetLimit, SetPerUserLimit, ToggleShortestUploadsFirst, PauseAllUploads
<1>5. CASE ToggleAutoClear
  <2>1. Idle /\ UNCHANGED <<list, sessionVars, removing>>
    BY <1>5 DEF ToggleAutoClear
  <2>2. opt'.max = opt.max /\ opt'.perUser = opt.perUser
    BY <1>0, <1>5 DEF ToggleAutoClear, IInv, WindowTypeOK, Settings
  <2> QED
    BY <1>3, <2>1, <2>2, SameAlive
<1>6. CASE ClearFinished
  <2>1. Idle /\ UNCHANGED <<list, opt, sessionVars, removing>>
    BY <1>6 DEF ClearFinished, Handler, windowVars
  <2> QED
    BY <1>3, <2>1, SameAlive
<1>7. ASSUME NEW i \in DOMAIN list, NEW j \in DOMAIN list, MoveSelected(i, j) PROVE Served(d)'
  <2>1. Alive' = Alive
    <3>1. Range(list') \subseteq Range(list) /\ Alive \subseteq Alive'
      BY <1>0, <1>7, MoveKeeps, MoveType
    <3> QED
      BY <3>1 DEF Alive, Range
  <2>2. Idle /\ UNCHANGED <<opt, sessionVars, removing>>
    BY <1>7 DEF MoveSelected
  <2> QED
    BY <1>3, <2>1, <2>2
<1>8. CASE \E S \in Selections : HaltSelected(S) \/ ResumeSelected(S) \/ CancelSelected(S)
  <2>1. PICK S \in Selections, op \in SessionOps : todo' = <<Call(op, S), DequeueCall>>
    BY <1>8 DEF HaltSelected, ResumeSelected, CancelSelected, Handler, SessionOps
  <2> QED
    BY <1>0, <1>1, <2>1
<1>9. CASE ResumeAllUploads
  <2>1. PICK S \in SUBSET Sessions : S = Uploads \cap waiting
    BY <1>0
  <2>2. todo' = CallAll("resume", S) \o <<DequeueCall>>
    BY <1>9, <2>1 DEF ResumeAllUploads, Handler
  <2>3. PICK a \in Calls, b \in Calls : a = Call("resume", S) /\ b = DequeueCall
    BY CallOps DEF SessionOps
  <2>4. <<a>> \o <<b>> = <<a, b>> /\ <<>> \o <<b>> = <<b>>
    BY TwoCalls
  <2>5. todo' = <<DequeueCall>> \/ todo' = <<Call("resume", S), DequeueCall>>
    BY <2>2, <2>3, <2>4 DEF CallAll
  <2> QED
    BY <1>1, <2>5 DEF SessionOps
<1> QED
  BY <1>4, <1>5, <1>6, <1>7, <1>8, <1>9 DEF UserCommand

LEMMA InitFill == Init => FillInv
<1> SUFFICES ASSUME Init PROVE FillInv
  OBVIOUS
<1>1. Alive = {}
  BY DEF Init, Alive, Range
<1> QED
  BY <1>1, InitFollow DEF FillInv, Filled, Served

LEMMA NextFill == FillInv /\ [Next]_vars => FillInv'
<1> SUFFICES ASSUME FillInv, [Next]_vars PROVE FillInv'
  OBVIOUS
<1>1. FollowInv' /\ IInv'
  BY NextFollow DEF FillInv, FollowInv, SlotInv
<1>2. SUFFICES ASSUME app' = "running", removing' = <<>>, halted' = {}, NEW d \in Directions
               PROVE  Served(d)' \/ Ahead(d)'
  BY <1>1 DEF FillInv, Filled
<1>3. CASE UNCHANGED vars
  <2>1. /\ UNCHANGED <<windowVars, sessionVars, removing, todo>>
        /\ UNCHANGED <<list, opt, app, dir, user, files, waiting, finished, connected, saved,
                       hashing, halted>>
    BY <1>3 DEF vars, windowVars, sessionVars, peerVars, linkVars, outcomeVars
  <2>2. Served(d) \/ Ahead(d)
    BY <1>2, <2>1 DEF FillInv, Filled
  <2>3. Keeps(d)
    BY <2>1, SameAlive, SameKeeps
  <2>4. IInv
    BY DEF FillInv, FollowInv, SlotInv
  <2>5. Served(d) => Served(d)'
    BY <1>1, <2>3, <2>4, StillServed
  <2>6. Ahead(d) => Ahead(d)'
    <3>1. CASE RefilledFrom(todo, 1, d)
      BY <2>1, <3>1 DEF Ahead
    <3>2. CASE Looping(d)
      <4>1. ActiveSessions(d)' = ActiveSessions(d) /\ Alive' = Alive
        BY <2>1, SameActive, SameAlive
      <4>2. \A j \in DOMAIN list : list[j] \in Alive'
        BY <4>1 DEF Alive, Range
      <4>3. ASSUME NEW j \in DOMAIN list', j < Head(todo').pos, list'[j] \in waiting',
                   dir'[list'[j]] = d
            PROVE  Passed(list[j])'
        <5>1. PICK x \in Alive' : x = list[j] /\ x = list'[j]
          BY <2>1, <4>2, <4>3
        <5>2. Passed(x)
          BY <2>1, <3>2, <4>3, <5>1 DEF Looping
        <5>3. Passed(x)'
          BY <1>1, <2>3, <2>4, <4>3, <5>1, <5>2, StillPassed
        <5> QED
          BY <2>1, <5>1, <5>3 DEF Passed, Share, Excepted, CountActiveSessions
      <4>4. Looping(d)'
        BY <2>1, <3>2, <4>1, <4>3 DEF Looping
      <4> QED
        BY <4>4 DEF Ahead
    <3> QED
      BY <3>1, <3>2 DEF Ahead
  <2> QED
    BY <2>2, <2>5, <2>6
<1> QED
  BY <1>1, <1>2, <1>3, StageFill, StartNextFill, NothingToStartFill, SessionFill, DeleteFill,
     ArrivalFill, EventFill, NoticeFill, UserCommandFill DEF Next, Step

LEMMA FillInvNoIdle == FillInv => NoIdleSlot
<1> SUFFICES ASSUME FillInv, Idle, removing = <<>>, halted = {},
                    NEW s \in Alive, s \in waiting
             PROVE  \/ CountActiveSessions(dir[s], Anon) >= opt.max[dir[s]]
                    \/ CountActiveSessions(dir[s], user[s]) >= opt.perUser[dir[s]]
                    \/ dir[s] = "up" /\ user[s] # Anon /\ s \in connected \ (saved \cup hashing)
                       /\ files[s] = 0
  BY DEF NoIdleSlot
<1>1. dir[s] \in Directions /\ todo = <<>> /\ app = "running"
  BY FollowTypes DEF FillInv, SessionTypeOK, Idle
<1>2. ~Ahead(dir[s])
  BY <1>1 DEF Ahead, Looping, RefilledFrom
<1>3. Served(dir[s])
  BY <1>1, <1>2 DEF FillInv, Filled
<1> QED
  BY <1>3 DEF Served, Full, Passed, Share, Excepted

\* No slot stays free while somebody queued could have it, once the looper has handled what
\* it posted to itself and unless an upload has been halted: whichever way slots are freed
\* or sessions are queued, counted or held back, DequeueTransferSessions() comes after it
\* and gives the slots away top down, whatever the nested calls of AbortSession() and of
\* RestartSession() do in between.
THEOREM NoIdleSlotHolds == Spec => []NoIdleSlot
<1>1. Spec => []FillInv
  BY InitFill, NextFill, PTL DEF Spec
<1> QED
  BY <1>1, FillInvNoIdle, PTL

\* A slot is never lost (SlotsAreLive), never left to an upload that nobody watches
\* (ActiveUploadIsWatched), and never kept idle while somebody waits for it (NoIdleSlot).
THEOREM SlotsAreSoundHolds == Spec => []SlotsAreSound
<1>1. SlotsAreLive /\ ActiveUploadIsWatched /\ NoIdleSlot => SlotsAreSound
  BY DEF SlotsAreSound
<1> QED
  BY <1>1, SlotsAreLiveHolds, ActiveUploadIsWatchedHolds, NoIdleSlotHolds, PTL
=============================================================================
