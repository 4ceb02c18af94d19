---------------------------- MODULE TransferQueue ----------------------------
(***************************************************************************)
(* BeShare's list of file transfers: which ShareFileTransfer sessions      *)
(* exist, which of them hold an upload or a download slot, and what the    *)
(* window's looper does to them (ShareWindow.cpp, ShareFileTransfer.cpp).  *)
(*                                                                         *)
(* Everything here runs in the window's looper thread, one handler at a    *)
(* time.  A handler that calls into other code (AbortSession calls         *)
(* FileTransferDisconnected calls DequeueTransferSessions calls            *)
(* BeginTransfer ...) leaves the calls still to be made on the stack todo; *)
(* a new handler starts only when the stack is empty.  Posted messages     *)
(* (REMOVE_SESSION) wait in the looper's queue, and the user's commands    *)
(* and the network's events may be handled before them.                    *)
(***************************************************************************)
EXTENDS Integers, Sequences, FiniteSets, SequencesExt

CONSTANTS
  Sessions,   \* the ShareFileTransfer objects that can be created
  Users,      \* remote session IDs
  Anon,       \* the empty remote session ID: the peer has not said who it is
  Commands,   \* which user commands and peer behaviours this instance has
  Limits,     \* the values the "Max Simultaneous ..." menus offer
  MaxFiles,   \* bound on the files of one session
  FirstOpt    \* the settings at startup

ASSUME SessionsAssumption == IsFiniteSet(Sessions)
ASSUME UsersAssumption == Anon \notin Users
ASSUME LimitsAssumption == Limits \subseteq Nat \ {0}
ASSUME MaxFilesAssumption == MaxFiles \in Nat \ {0}

Directions == {"up", "down"}
Settings == [max : [Directions -> Limits], perUser : [Directions -> Limits],
             shortest : {"off", "on"}, autoClear : {"off", "on"}]

ASSUME FirstOptAssumption == FirstOpt \in Settings

VARIABLES
  list,         \* _transferList, top to bottom
  fresh,        \* sessions not yet created
  dir,          \* _uploadSession
  mtt,          \* _mtt: "none", "idle" (thread not started) or "running"
  user,         \* _remoteSessionID
  files,        \* size of _origFileSet: what was asked for and has not arrived
  toSend,       \* GetNumBytesLeftToUpload(), in chunks
  hasHost,      \* sessions with a _remoteHostName
  waiting,      \* _isWaitingOnLocal
  accepting,    \* _isAccepting
  connecting,   \* _isConnecting
  connected,    \* _isConnected
  finished,     \* _isFinished
  errored,      \* _errorOccurred
  halted,       \* not _beginTransferEnabled
  autoRestart,  \* _autoRestart
  ticking,      \* uploads with _lastTransferTime > 0: the reaper watches them
  saved,        \* _saveFileListMessage is set
  hashing,      \* an MD5Looper is working for the session
  draining,     \* an output-drained notification is on its way
  ending,       \* _uploadWaitingForSendToFinish
  removing,     \* posted SHAREWINDOW_COMMAND_REMOVE_SESSION messages
  scanning,     \* ShareNetClient::IsScanningShares()
  opt,          \* the limits and the two queue options
  todo,         \* calls the current handler has still to make
  app           \* "running", or "crashed" after a stale pointer was used

\* What a session's own operations leave alone: the window's state.
windowVars == <<list, fresh, scanning, opt, app>>
\* What a connection keeps from its set-up, and what is on its way for it.
peerVars == <<dir, user, files, hasHost, saved, hashing>>
linkVars == <<accepting, connecting, connected, mtt>>
outcomeVars == <<finished, errored, autoRestart>>
uploadVars == <<toSend, draining, ending>>
sessionVars == <<peerVars, linkVars, outcomeVars, uploadVars, waiting, halted, ticking>>
vars == <<windowVars, sessionVars, removing, todo>>

Alive == Range(list)

IsActive(s) == s \notin waiting /\ s \notin finished
ActiveSessions(d) == {s \in Alive : dir[s] = d /\ IsActive(s)}

\* CountActiveSessions(upload, optForSessionID); Anon stands for a NULL ID.
CountActiveSessions(d, u) ==
  Cardinality({s \in ActiveSessions(d) : u = Anon \/ user[s] = u})

\* What the looper can have left to do: a call, made for each session of a set
\* in list order (the loops of ShareWindow and of the transfer list's menu), or
\* a stage of DequeueTransferSessions().
DequeueCall == [op |-> "dequeue"]
ReorderCall == [op |-> "reorder"]
SlotsCall(d) == [op |-> "slots", d |-> d]
LoopCall(d, pos, left) == [op |-> "loop", d |-> d, pos |-> pos, left |-> left]
Call(op, S) == [op |-> op, s |-> S]
\* A batch of calls, if there is anybody to make them for.
CallAll(op, S) == IF S = {} THEN <<>> ELSE <<Call(op, S)>>

SessionOps == {"error", "stop", "reject", "restart", "halt", "resume", "upload", "delete"}
SessionCalls == [op : SessionOps, s : SUBSET Sessions]
StageCalls == [op : {"dequeue", "reorder"}] \cup [op : {"slots"}, d : Directions]
LoopCalls == [op : {"loop"}, d : Directions, pos : Nat \ {0}, left : Nat \ {0}]
Calls == SessionCalls \cup StageCalls \cup LoopCalls

Idle == todo = <<>> /\ app = "running"
Doing(op) == app = "running" /\ todo # <<>> /\ Head(todo).op = op

\* The call at hand makes further calls, then the stack below it continues.
Then(calls) == todo' = calls \o Tail(todo)
Return == todo' = Tail(todo)

\* A loop that does not advance.
ThenSame(calls, s) == todo' = calls \o todo

\* As Then, when the call at hand has still other sessions to visit after s.
ThenOthers(calls, s) ==
  LET others == Head(todo).s \ {s}
  IN todo' = calls \o CallAll(Head(todo).op, others) \o Tail(todo)

\* s is the top-most, or the bottom-most, session of S in the list.
IsTop(s, S) == \E i \in DOMAIN list :
                 list[i] = s /\ \A j \in DOMAIN list : list[j] \in S => i <= j
IsBottom(s, S) == \E i \in DOMAIN list :
                    list[i] = s /\ \A j \in DOMAIN list : list[j] \in S => j <= i

\* A program that has just started: an empty list.
Init ==
  /\ list = <<>>
  /\ fresh = Sessions
  /\ dir = [s \in Sessions |-> "down"]
  /\ mtt = [s \in Sessions |-> "none"]
  /\ user = [s \in Sessions |-> Anon]
  /\ files = [s \in Sessions |-> 0]
  /\ toSend = [s \in Sessions |-> 0]
  /\ hasHost = {} /\ waiting = {} /\ accepting = {} /\ connecting = {}
  /\ connected = {} /\ finished = {} /\ errored = {} /\ halted = {}
  /\ autoRestart = {} /\ ticking = {} /\ saved = {} /\ hashing = {}
  /\ draining = {} /\ ending = {}
  /\ removing = <<>>
  /\ scanning = "no"
  /\ opt = FirstOpt
  /\ todo = <<>>
  /\ app = "running"

-----------------------------------------------------------------------------
(* ShareFileTransfer's own operations *)

\* UpdateTransferTime(): a queued session has no clock.  Only the uploads' clocks
\* are ever read.
Tick(s) == ticking' = IF s \in waiting' \/ dir[s] = "down"
                      THEN ticking \ {s} ELSE ticking \cup {s}

\* FileTransferDisconnected(): uploads, and completed downloads when the user
\* has asked for it, remove themselves; everything else just frees its slot.
RemovesItself(s, clean) == dir[s] = "up" \/ (opt.autoClear = "on" /\ clean)

\* _mtt not reset to NULL after it has been deleted.
AbortKeepsTransceiver(s, error) ==
  /\ waiting' = waiting \ {s}
  /\ accepting' = accepting \ {s}
  /\ connecting' = connecting \ {s}
  /\ connected' = connected \ {s}
  /\ finished' = finished \cup {s}
  /\ errored' = IF error THEN errored \cup {s} ELSE errored \ {s}
  /\ autoRestart' = autoRestart \ {s}
  /\ draining' = draining \ {s}
  /\ removing' = IF mtt[s] # "none" /\ RemovesItself(s, ~error)
                 THEN Append(removing, s) ELSE removing
  /\ UNCHANGED <<peerVars, mtt, halted, toSend, ending>>

\* AbortSession(error) up to the restart.  The window hears of it only if there
\* was a transceiver thread to end.
AbortSession(s, error) ==
  /\ waiting' = waiting \ {s}
  /\ accepting' = accepting \ {s}
  /\ connecting' = connecting \ {s}
  /\ connected' = connected \ {s}
  /\ finished' = finished \cup {s}
  /\ errored' = IF error THEN errored \cup {s} ELSE errored \ {s}
  /\ autoRestart' = autoRestart \ {s}
  /\ mtt' = [mtt EXCEPT ![s] = "none"]
  /\ draining' = draining \ {s}
  /\ removing' = IF mtt[s] # "none" /\ RemovesItself(s, ~error)
                 THEN Append(removing, s) ELSE removing
  /\ UNCHANGED <<peerVars, halted, toSend, ending>>

\* The calls AbortSession() makes: DequeueTransferSessions() through the window,
\* then the automatic restart, unless the user stopped it or it is done.
AbortCalls(s, error, restart) ==
  (IF mtt[s] # "none" /\ ~RemovesItself(s, ~error) THEN <<DequeueCall>> ELSE <<>>)
    \o (IF restart /\ s \in autoRestart
        THEN <<Call("restart", {s}), DequeueCall>> ELSE <<>>)

\* One chunk more is read than there is.
DoUploadPastEnd(s) ==
  /\ mtt[s] # "none"
  /\ toSend' = [toSend EXCEPT ![s] = @ - 1]
  /\ draining' = draining \cup {s}
  /\ waiting' = waiting \ {s}
  /\ UNCHANGED <<peerVars, linkVars, outcomeVars, ending, halted, removing>>

\* DoUpload() by a session that is no longer queued.  The next chunk is on its way;
\* or the next file would not open and nothing is on its way; or there is none left
\* and the session waits for the last one to be sent; or reading has failed.
DoUpload(s) ==
  \/ /\ mtt[s] # "none"
     /\ \/ /\ toSend[s] > 0
           /\ toSend' = [toSend EXCEPT ![s] = @ - 1]
           /\ draining' \in {draining, draining \cup {s}}
           /\ UNCHANGED ending
        \/ /\ toSend[s] = 0
           /\ draining' = draining \cup {s}
           /\ ending' = ending \cup {s}
           /\ UNCHANGED toSend
     /\ waiting' = waiting \ {s}
     /\ UNCHANGED <<peerVars, linkVars, outcomeVars, halted, removing>>
  \/ AbortSession(s, TRUE)

\* The start of BeginTransfer(): leave the queue.
LeaveQueue(s) ==
  /\ waiting' = waiting \ {s}
  /\ UNCHANGED <<peerVars, accepting, connected, outcomeVars, uploadVars, halted,
                 removing>>

\* BeginTransfer() of a queued session that is allowed to begin.
Begin(s) ==
  \/ /\ dir[s] = "up" /\ s \in connected /\ files[s] > 0
     /\ DoUpload(s)
  \/ /\ \/ dir[s] = "up" /\ s \in connected /\ files[s] = 0
        \/ dir[s] = "down" /\ s \in accepting      \* SendConnectBackRequestMessage()
     /\ LeaveQueue(s)
     /\ UNCHANGED <<mtt, connecting>>
  \/ /\ \/ dir[s] = "up" /\ s \notin connected
        \/ dir[s] = "down" /\ s \notin accepting
     /\ LeaveQueue(s)
     /\ IF mtt[s] = "idle"   \* StartInternalThread() fails on a running thread
        THEN /\ mtt' = [mtt EXCEPT ![s] = "running"]
             /\ connecting' = connecting \cup {s}
        ELSE UNCHANGED <<mtt, connecting>>

\* Without the call of UpdateTransferTime() at the end.
BeginWithoutClock(s) ==
  /\ IF s \in waiting \ halted
     THEN Begin(s)
     ELSE UNCHANGED <<peerVars, linkVars, outcomeVars, uploadVars, waiting, halted,
                      removing>>
  /\ UNCHANGED ticking

BeginTransfer(s) ==
  /\ IF s \in waiting \ halted
     THEN Begin(s)
     ELSE UNCHANGED <<peerVars, linkVars, outcomeVars, uploadVars, waiting, halted,
                      removing>>
  /\ Tick(s)

\* _isFinished not reset.
RestartStaysFinished(s) ==
  /\ waiting' = waiting \cup {s}
  /\ errored' = errored \ {s}
  /\ connecting' = connecting \ {s}
  /\ connected' = connected \ {s}
  /\ autoRestart' = autoRestart \ {s}
  /\ draining' = draining \ {s}
  /\ ticking' = ticking \ {s}
  /\ dir' = [dir EXCEPT ![s] = IF files[s] = 0 THEN "up" ELSE "down"]
  /\ accepting' = IF s \in hasHost THEN accepting \ {s} ELSE accepting \cup {s}
  /\ mtt' = [mtt EXCEPT ![s] = IF s \in hasHost THEN "idle" ELSE "running"]
  /\ UNCHANGED <<user, files, hasHost, saved, hashing, toSend, ending, halted,
                 finished, removing>>

\* RestartSession(): close the connection without telling the window, queue the
\* session again and make a new transceiver, connecting if it has a host name,
\* accepting otherwise.  A session with no file left to ask for is an upload.
RestartSession(s) ==
  /\ finished' = finished \ {s}
  /\ waiting' = waiting \cup {s}
  /\ errored' = errored \ {s}
  /\ connecting' = connecting \ {s}
  /\ connected' = connected \ {s}
  /\ autoRestart' = autoRestart \ {s}
  /\ draining' = draining \ {s}
  /\ ticking' = ticking \ {s}
  /\ dir' = [dir EXCEPT ![s] = IF files[s] = 0 THEN "up" ELSE "down"]
  /\ accepting' = IF s \in hasHost THEN accepting \ {s} ELSE accepting \cup {s}
  /\ mtt' = [mtt EXCEPT ![s] = IF s \in hasHost THEN "idle" ELSE "running"]
  /\ UNCHANGED <<user, files, hasHost, saved, hashing, toSend, ending, halted,
                 removing>>

\* RequeueTransfer(): back to the queue, and tell the peer, which stops the clock.
RequeueTransfer(S) ==
  /\ waiting' = waiting \cup S
  /\ ticking' = ticking \ S

-----------------------------------------------------------------------------
(* DequeueTransferSessions() and the other calls on the stack *)

\* The uploads that the "Shortest Uploads First" option sorts, by what they have
\* left to send; one whose files are not known yet goes last.
Sortable == {s \in Alive : dir[s] = "up" /\ s \notin finished /\ s \notin errored}
Longer(a, b) == toSend[b] > 0 /\ (toSend[a] > toSend[b] \/ toSend[a] = 0)
OutOfOrder == \E i, j \in DOMAIN list :
                i < j /\ {list[i], list[j]} \subseteq Sortable /\ Longer(list[i], list[j])

Uploads == {s \in Alive : dir[s] = "up"}
BothSlots == <<SlotsCall("up"), SlotsCall("down")>>

\* A return after ResumeAllUploads(), which is not to start anybody.
DequeueSortsOnly ==
  /\ Doing("dequeue")
  /\ IF opt.shortest = "on" /\ OutOfOrder
     THEN /\ RequeueTransfer(Uploads \ waiting)
          /\ halted' = halted \cup Uploads
          /\ Then(<<ReorderCall>>)
     ELSE /\ Then(BothSlots)
          /\ UNCHANGED <<waiting, ticking, halted>>
  /\ UNCHANGED <<windowVars, peerVars, linkVars, outcomeVars, uploadVars, removing>>

\* DequeueTransferSessions(): when the sort order has changed, every upload is
\* paused, the list is reordered and every upload is resumed, with two nested
\* DequeueTransferSessions() of its own; then the free slots are filled.
DequeueTransferSessions ==
  /\ Doing("dequeue")
  /\ IF opt.shortest = "on" /\ OutOfOrder
     THEN /\ RequeueTransfer(Uploads \ waiting)
          /\ halted' = halted \cup Uploads
          /\ Then(BothSlots \o <<ReorderCall>> \o BothSlots \o BothSlots)
     ELSE /\ Then(BothSlots)
          /\ UNCHANGED <<waiting, ticking, halted>>
  /\ UNCHANGED <<windowVars, peerVars, linkVars, outcomeVars, uploadVars, removing>>

\* Without the call of ResumeAllUploads().
ReorderWithoutResume ==
  /\ Doing("reorder")
  /\ Return
  /\ UNCHANGED <<windowVars, sessionVars, removing>>

\* The uploads take each other's places in the list, shortest first, equals in
\* their old order; ResumeAllUploads() then re-enables all that are queued.
ReorderUploads ==
  /\ Doing("reorder")
  /\ \E new \in [DOMAIN list -> Alive] :
       /\ \A i \in DOMAIN list : list[i] \notin Sortable => new[i] = list[i]
       /\ \A s \in Alive : \E i \in DOMAIN list : new[i] = s
       /\ \A i, j \in DOMAIN list : \A k, l \in DOMAIN list :
            (/\ {new[i], new[j]} \subseteq Sortable /\ i < j
             /\ new[i] = list[k] /\ new[j] = list[l])
               => ~Longer(new[i], new[j]) /\ (Longer(new[j], new[i]) \/ k < l)
       /\ list' = new
  /\ halted' = halted \ (Uploads \cap waiting)
  /\ Return
  /\ UNCHANGED <<fresh, scanning, opt, app, peerVars, linkVars, outcomeVars,
                 uploadVars, waiting, ticking, removing>>

\* DequeueTransferSessions(upload): the number of free slots is computed once ...
CountSlots ==
  /\ Doing("slots")
  /\ LET d == Head(todo).d
         numToStart == opt.max[d] - CountActiveSessions(d, Anon)
     IN IF numToStart > 0 THEN Then(<<LoopCall(d, 1, numToStart)>>) ELSE Return
  /\ UNCHANGED <<windowVars, sessionVars, removing>>

\* ... and given, top down, to the queued sessions whose user has not his share.
\* A session whose user is not known is held against the whole count.
Startable(s, d) ==
  /\ dir[s] = d
  /\ s \in waiting
  /\ CountActiveSessions(d, user[s]) < opt.perUser[d]

Candidates(call) == {i \in DOMAIN list : i >= call.pos /\ Startable(list[i], call.d)}

\* numToStart not decremented.
StartUncounted ==
  /\ Doing("loop")
  /\ LET call == Head(todo) IN
     \E i \in Candidates(call) :
        /\ \A j \in Candidates(call) : i <= j
        /\ BeginTransfer(list[i])
        /\ Then(<<LoopCall(call.d, i + 1, call.left)>>)
  /\ UNCHANGED windowVars

StartNext ==
  /\ Doing("loop")
  /\ LET call == Head(todo) IN
     \E i \in Candidates(call) :
        /\ \A j \in Candidates(call) : i <= j
        /\ BeginTransfer(list[i])
        /\ IF call.left = 1 THEN Return
           ELSE Then(<<LoopCall(call.d, i + 1, call.left - 1)>>)
  /\ UNCHANGED windowVars

NothingToStart ==
  /\ Doing("loop")
  /\ Candidates(Head(todo)) = {}
  /\ Return
  /\ UNCHANGED <<windowVars, sessionVars, removing>>

\* AbortSession(true) ("error") and AbortSession(true, true) for the sessions of the
\* call: bottom up in the moribund check and in RemoveUser(), top down in
\* TransferCallbackRejected().
AbortNext ==
  /\ Doing("error") \/ Doing("stop") \/ Doing("reject")
  /\ \E s \in Head(todo).s :
     /\ IF Head(todo).op = "reject" THEN IsTop(s, Head(todo).s) ELSE IsBottom(s, Head(todo).s)
     /\ ThenOthers(AbortCalls(s, TRUE, Head(todo).op = "error"), s)
     /\ AbortSession(s, TRUE)
     /\ ticking' = ticking \ {s}
  /\ UNCHANGED windowVars

RestartNext ==
  /\ Doing("restart")
  /\ \E s \in Head(todo).s :
     IsBottom(s, Head(todo).s) /\ RestartSession(s) /\ ThenOthers(<<>>, s)
  /\ UNCHANGED windowVars

\* "Halt Transfer": an upload goes back to the queue and may not begin; a
\* download is aborted.
HaltNext ==
  /\ Doing("halt")
  /\ \E s \in Head(todo).s :
     /\ IsTop(s, Head(todo).s)
     /\ \/ /\ dir[s] = "up"
           /\ RequeueTransfer({s} \ waiting)
           /\ halted' = halted \cup {s}
           /\ ThenOthers(<<>>, s)
           /\ UNCHANGED <<peerVars, linkVars, outcomeVars, uploadVars, removing>>
        \/ /\ dir[s] = "down"
           /\ AbortSession(s, TRUE)
           /\ ticking' = ticking \ {s}
           /\ ThenOthers(AbortCalls(s, TRUE, FALSE), s)
  /\ UNCHANGED windowVars

\* "Restart Transfer": a halted upload may begin again, a queued session begins at
\* once whatever the limits are, and a download that is not queued starts over.
ResumeNext ==
  /\ Doing("resume")
  /\ \E s \in Head(todo).s :
     /\ IsTop(s, Head(todo).s)
     /\ ThenOthers(<<>>, s)
     /\ \/ /\ s \in waiting /\ (dir[s] = "down" \/ s \notin halted)
           /\ BeginTransfer(s)
        \/ /\ dir[s] = "down" /\ s \notin waiting
           /\ RestartSession(s)
        \/ /\ dir[s] = "up" /\ ~(s \in waiting /\ s \notin halted)
           /\ halted' = IF s \in waiting THEN halted \ {s} ELSE halted
           /\ UNCHANGED <<peerVars, linkVars, outcomeVars, uploadVars, waiting,
                          ticking, removing>>
  /\ UNCHANGED windowVars

\* DoUpload() as the last call of a handler.
UploadNext ==
  /\ Doing("upload")
  /\ \E s \in Head(todo).s :
     /\ IsBottom(s, Head(todo).s)
     /\ ThenOthers(<<>>, s)
     /\ IF s \in waiting
        THEN UNCHANGED <<sessionVars, removing>>
        ELSE /\ DoUpload(s)
             /\ IF s \in finished' THEN ticking' = ticking \ {s}
                ELSE ticking' \in {ticking, ticking \cup {s}}
  /\ UNCHANGED windowVars

\* RemoveHandler(), RemoveItem() and delete.  The destructor ends the session's
\* threads; nothing of the object is left.
DeleteNext ==
  /\ Doing("delete")
  /\ \E s \in Head(todo).s :
     /\ IsBottom(s, Head(todo).s)
     /\ \E i \in DOMAIN list : list[i] = s /\ list' = RemoveAt(list, i)
     /\ ThenOthers(<<>>, s)
     /\ dir' = [dir EXCEPT ![s] = "down"]
     /\ mtt' = [mtt EXCEPT ![s] = "none"]
     /\ user' = [user EXCEPT ![s] = Anon]
     /\ files' = [files EXCEPT ![s] = 0]
     /\ toSend' = [toSend EXCEPT ![s] = 0]
     /\ hasHost' = hasHost \ {s} /\ waiting' = waiting \ {s}
     /\ accepting' = accepting \ {s} /\ connecting' = connecting \ {s}
     /\ connected' = connected \ {s} /\ finished' = finished \cup {s}
     /\ errored' = errored \ {s} /\ halted' = halted \ {s}
     /\ autoRestart' = autoRestart \ {s} /\ ticking' = ticking \ {s}
     /\ saved' = saved \ {s} /\ hashing' = hashing \ {s}
     /\ draining' = draining \ {s} /\ ending' = ending \ {s}
  /\ UNCHANGED <<fresh, removing, scanning, opt, app>>

Step == \/ DequeueTransferSessions \/ ReorderUploads \/ CountSlots \/ StartNext
        \/ NothingToStart \/ AbortNext \/ RestartNext \/ HaltNext \/ ResumeNext
        \/ UploadNext \/ DeleteNext

-----------------------------------------------------------------------------
(* Where sessions come from *)

\* new ShareFileTransfer(), added at the bottom of the list.
NewSession(s, d, u, n) ==
  /\ Idle
  /\ s \in fresh
  /\ fresh' = fresh \ {s}
  /\ list' = Append(list, s)
  /\ dir' = [dir EXCEPT ![s] = d]
  /\ user' = [user EXCEPT ![s] = u]
  /\ files' = [files EXCEPT ![s] = n]
  /\ waiting' = waiting \cup {s}
  /\ todo' = <<DequeueCall>>
  /\ UNCHANGED <<connecting, saved, hashing, outcomeVars, uploadVars, halted,
                 removing, scanning, opt, app>>

\* RequestDownloads() of n files of one user who can be connected to.
RequestDownload(s, u, n) ==
  /\ "connect" \in Commands
  /\ NewSession(s, "down", u, n)
  /\ hasHost' = hasHost \cup {s}
  /\ mtt' = [mtt EXCEPT ![s] = "idle"]
  /\ UNCHANGED <<accepting, connected, ticking>>

\* RequestDownloads() from a firewalled user: he will have to call back.
RequestCallback(s, u, n) ==
  /\ "accept" \in Commands
  /\ NewSession(s, "down", u, n)
  /\ accepting' = accepting \cup {s}
  /\ mtt' = [mtt EXCEPT ![s] = "running"]
  /\ UNCHANGED <<hasHost, connected, ticking>>

\* AST_EVENT_NEW_SOCKET_ACCEPTED: somebody wants to download, we do not know who.
\* He is told that he is queued, which stops the clock, if all slots are taken.
SocketAccepted(s) ==
  /\ "socket" \in Commands
  /\ NewSession(s, "up", Anon, 0)
  /\ connected' = connected \cup {s}
  /\ mtt' = [mtt EXCEPT ![s] = "running"]
  /\ ticking' = IF CountActiveSessions("up", Anon) >= opt.max["up"]
                THEN ticking ELSE ticking \cup {s}
  /\ UNCHANGED <<hasHost, accepting>>

\* ConnectBackRequestReceived(): we are to connect to the one who will download.
ConnectBackRequestReceived(s, u) ==
  /\ "connectBack" \in Commands
  /\ NewSession(s, "up", u, 0)
  /\ hasHost' = hasHost \cup {s}
  /\ mtt' = [mtt EXCEPT ![s] = "idle"]
  /\ ticking' = ticking \cup {s}
  /\ UNCHANGED <<accepting, connected>>

-----------------------------------------------------------------------------
(* What the transceiver thread and the MD5 threads report *)

\* MTT_EVENT_SESSION_CONNECTED, and MTT_EVENT_SESSION_ACCEPTED once the peer has
\* been told our port.  A download starts examining the files it has in part.
Connected(s) ==
  /\ Idle
  /\ mtt[s] = "running"
  /\ s \in connecting \/ s \in accepting \ (connected \cup waiting)
  /\ connecting' = connecting \ {s}
  /\ connected' = connected \cup {s}
  /\ hashing' = IF dir[s] = "down" THEN hashing \cup {s} ELSE hashing
  /\ ticking' = IF s \in waiting THEN ticking \ {s} ELSE ticking
  /\ UNCHANGED <<windowVars, dir, user, files, hasHost, saved, accepting, mtt,
                 outcomeVars, uploadVars, waiting, halted, removing, todo>>

\* _isFinished not set.
DisconnectedKeepsSlot(s) ==
  /\ Idle
  /\ mtt[s] = "running"
  /\ s \in connecting \cup connected
  /\ connecting' = connecting \ {s}
  /\ connected' = connected \ {s}
  /\ accepting' = accepting \ {s}
  /\ waiting' = waiting \ {s}
  /\ mtt' = [mtt EXCEPT ![s] = "none"]
  /\ todo' = <<DequeueCall>>
  /\ UNCHANGED <<windowVars, peerVars, uploadVars, outcomeVars, halted, ticking, removing>>

\* MTT_EVENT_SESSION_DISCONNECTED: a download that made progress and is not done
\* starts over; anything else is reported to the window.
Disconnected(s) ==
  LET incomplete == IF dir[s] = "down" THEN files[s] > 0 ELSE toSend[s] > 0
      restart == incomplete /\ s \in autoRestart
      leaves == ~restart /\ RemovesItself(s, ~incomplete)
  IN
  /\ Idle
  /\ mtt[s] = "running"
  /\ s \in connecting \cup connected
  /\ finished' = finished \cup {s}
  /\ connecting' = connecting \ {s}
  /\ connected' = connected \ {s}
  /\ accepting' = accepting \ {s}
  /\ waiting' = waiting \ {s}
  /\ errored' = IF incomplete THEN errored \cup {s} ELSE errored
  /\ autoRestart' = autoRestart \ {s}
  /\ mtt' = [mtt EXCEPT ![s] = "none"]
  /\ draining' = draining \ {s}
  /\ ticking' = ticking \ {s}
  /\ removing' = IF leaves THEN Append(removing, s) ELSE removing
  /\ todo' = CASE restart -> <<Call("restart", {s}), DequeueCall>>
               [] leaves -> <<>>
               [] OTHER -> <<DequeueCall>>
  /\ UNCHANGED <<windowVars, peerVars, toSend, ending, halted>>

\* TRANSFER_COMMAND_PEER_ID, which comes before the list of files.  Nobody looks
\* whether the name lets a session start, or whether its user has too many now.
PeerId(s, u) ==
  /\ Idle
  /\ dir[s] = "up" /\ s \in connected \ (saved \cup hashing) /\ files[s] = 0
  /\ user[s] \in {Anon, u}
  /\ user' = [user EXCEPT ![s] = u]
  /\ UNCHANGED <<windowVars, dir, files, hasHost, saved, hashing, linkVars, outcomeVars,
                 uploadVars, waiting, halted, removing, todo>>
  /\ Tick(s)

\* TRANSFER_COMMAND_FILE_LIST: what the peer wants.  Until the scan of the shared
\* files is over it is kept; otherwise the files are examined.  The peer is told
\* that he is queued meanwhile, which stops the clock.
FileList(s, u) ==
  /\ Idle
  /\ dir[s] = "up" /\ s \in connected \ (saved \cup hashing) /\ files[s] = 0
  /\ user[s] \in {Anon, u}
  /\ user' = [user EXCEPT ![s] = u]
  /\ IF scanning = "yes"
     THEN saved' = saved \cup {s} /\ UNCHANGED hashing
     ELSE hashing' = hashing \cup {s} /\ UNCHANGED saved
  /\ ticking' = ticking \ {s}
  /\ todo' = <<DequeueCall>>
  /\ UNCHANGED <<windowVars, dir, files, hasHost, linkVars, outcomeVars, uploadVars,
                 waiting, halted, removing>>

\* TRANSFER_COMMAND_MD5_RECV_READ_DONE: n files are to be sent.
Md5RecvDone(s, n) ==
  /\ Idle
  /\ dir[s] = "up" /\ s \in hashing
  /\ hashing' = hashing \ {s}
  /\ files' = [files EXCEPT ![s] = n]
  /\ toSend' = [toSend EXCEPT ![s] = n]
  /\ todo' = <<DequeueCall, Call("upload", {s})>>
  /\ UNCHANGED <<windowVars, dir, user, hasHost, saved, linkVars, outcomeVars,
                 draining, ending, waiting, halted, removing>>
  /\ Tick(s)

\* TRANSFER_COMMAND_MD5_SEND_READ_DONE: the request for files goes out.
Md5SendDone(s) ==
  /\ Idle
  /\ dir[s] = "down" /\ s \in hashing
  /\ hashing' = hashing \ {s}
  /\ todo' = <<DequeueCall>>
  /\ UNCHANGED <<windowVars, dir, user, files, hasHost, saved, linkVars, outcomeVars,
                 uploadVars, waiting, halted, ticking, removing>>

\* TRANSFER_COMMAND_FILE_DATA: more of the current file, perhaps the last of it.
FileData(s) ==
  /\ Idle
  /\ dir[s] = "down" /\ s \in connected \ hashing /\ files[s] > 0
  /\ autoRestart' = autoRestart \cup {s}
  /\ files' \in {files, [files EXCEPT ![s] = @ - 1]}
  /\ UNCHANGED <<windowVars, dir, user, hasHost, saved, hashing, linkVars, finished,
                 errored, uploadVars, waiting, halted, ticking, removing, todo>>

\* A message that ends the connection: data that fails its checksum or cannot be
\* written, a file list without a file or for a download.
BadMessage(s) ==
  /\ Idle
  /\ "bad" \in Commands /\ s \in connected
  /\ todo' = <<Call("error", {s})>>
  /\ UNCHANGED <<windowVars, sessionVars, removing>>

\* TRANSFER_COMMAND_REJECTED from the peer: we are banned.
Rejected(s) ==
  /\ Idle
  /\ "reject" \in Commands /\ dir[s] = "down" /\ s \in connected
  /\ todo' = <<Call("stop", {s})>>
  /\ UNCHANGED <<windowVars, sessionVars, removing>>

\* MTT_EVENT_OUTPUT_QUEUES_DRAINED: go on, or be done.
Drained(s) ==
  /\ Idle
  /\ dir[s] = "up" /\ s \in draining
  /\ IF s \in ending
     THEN /\ AbortSession(s, FALSE)
          /\ ticking' = ticking \ {s}
          /\ todo' = AbortCalls(s, FALSE, FALSE)
     ELSE /\ draining' = draining \ {s}
          /\ todo' = <<Call("upload", {s})>>
          /\ UNCHANGED <<peerVars, linkVars, outcomeVars, toSend, ending, waiting,
                         halted, ticking, removing>>
  /\ UNCHANGED windowVars

-----------------------------------------------------------------------------
(* What the server and the window's own timers report *)

\* A handler that only makes calls.
Handler(calls) ==
  /\ Idle
  /\ todo' = calls
  /\ UNCHANGED <<windowVars, sessionVars, removing>>

\* ShareWindow::TransferCallbackRejected(): u told us, through the server, that we
\* are banned.
TransferCallbackRejected(u) ==
  LET refused == {s \in Alive : user[s] = u /\ dir[s] = "down" /\ s \notin connected}
  IN /\ "reject" \in Commands /\ refused # {}
     /\ Handler(<<Call("reject", refused)>>)

\* RemoveUser(): u has left the server and can not call back any more.
RemoveUser(u) ==
  LET lost == {s \in Alive \cap accepting : user[s] = u}
  IN /\ "leave" \in Commands /\ lost # {}
     /\ Handler(<<Call("stop", lost)>>)

\* RestartDownloadsFor(): u is back.
RestartDownloadsFor(u) ==
  LET broken == {s \in Alive \cap errored :
                   user[s] = u /\ dir[s] = "down" /\ s \notin connected \cup connecting}
  IN /\ "return" \in Commands /\ broken # {}
     /\ Handler(<<Call("restart", broken), DequeueCall>>)

\* The moribund check: uploads whose clock has not been touched for five minutes.
CheckForMoribundConnections(expired) ==
  /\ "reaper" \in Commands
  /\ expired # {} /\ expired \subseteq {s \in Alive \cap ticking : dir[s] = "up"}
  /\ Handler(<<Call("error", expired)>>)

\* The scan of the shared files starts, and ends with SharesScanComplete().
ScanStarts ==
  /\ Idle
  /\ "scan" \in Commands /\ scanning = "no"
  /\ scanning' = "yes"
  /\ UNCHANGED <<list, fresh, opt, app, sessionVars, removing, todo>>

\* The list of files forgotten.
ScanForgetsFileList ==
  /\ Idle
  /\ scanning = "yes"
  /\ scanning' = "no"
  /\ saved' = {}
  /\ UNCHANGED <<list, fresh, opt, app, dir, user, files, hasHost, hashing, linkVars,
                 outcomeVars, uploadVars, waiting, halted, ticking, removing, todo>>

SharesScanComplete ==
  /\ Idle
  /\ scanning = "yes"
  /\ scanning' = "no"
  /\ saved' = {}
  /\ hashing' = hashing \cup saved
  /\ ticking' = ticking \ saved
  /\ UNCHANGED <<list, fresh, opt, app, dir, user, files, hasHost, linkVars, outcomeVars,
                 uploadVars, waiting, halted, removing, todo>>

\* SHAREWINDOW_COMMAND_REMOVE_SESSION.  The message names the session by address;
\* when the object is gone, its destructor runs on freed memory: undefined, the
\* program may crash or go on.
RemoveSession ==
  /\ Idle
  /\ removing # <<>>
  /\ removing' = Tail(removing)
  /\ IF Head(removing) \in Alive
     THEN todo' = <<Call("delete", {Head(removing)}), DequeueCall>> /\ UNCHANGED app
     ELSE \/ todo' = <<DequeueCall>> /\ UNCHANGED app
          \/ app' = "crashed" /\ UNCHANGED todo
  /\ UNCHANGED <<list, fresh, scanning, opt, sessionVars>>

-----------------------------------------------------------------------------
(* What the user does *)

\* Without the call of DequeueTransferSessions().
SetLimitOnly(d, n) ==
  /\ Idle
  /\ "limit" \in Commands
  /\ opt' = [opt EXCEPT !.max[d] = n]
  /\ UNCHANGED <<list, fresh, scanning, app, sessionVars, removing, todo>>

SetLimit(d, n) ==
  /\ Idle
  /\ "limit" \in Commands
  /\ opt' = [opt EXCEPT !.max[d] = n]
  /\ todo' = <<DequeueCall>>
  /\ UNCHANGED <<list, fresh, scanning, app, sessionVars, removing>>

SetPerUserLimit(d, n) ==
  /\ Idle
  /\ "perUser" \in Commands
  /\ opt' = [opt EXCEPT !.perUser[d] = n]
  /\ todo' = <<DequeueCall>>
  /\ UNCHANGED <<list, fresh, scanning, app, sessionVars, removing>>

Toggled(mark) == IF mark = "on" THEN "off" ELSE "on"

ToggleShortestUploadsFirst ==
  /\ Idle
  /\ "shortest" \in Commands
  /\ opt' = [opt EXCEPT !.shortest = Toggled(@)]
  /\ todo' = <<DequeueCall>>
  /\ UNCHANGED <<list, fresh, scanning, app, sessionVars, removing>>

ToggleAutoClear ==
  /\ Idle
  /\ "autoClear" \in Commands
  /\ opt' = [opt EXCEPT !.autoClear = Toggled(@)]
  /\ UNCHANGED <<list, fresh, scanning, app, sessionVars, removing, todo>>

PauseAllUploads ==
  /\ Idle
  /\ "pause" \in Commands
  /\ RequeueTransfer(Uploads \ waiting)
  /\ halted' = halted \cup Uploads
  /\ todo' = <<DequeueCall>>
  /\ UNCHANGED <<windowVars, peerVars, linkVars, outcomeVars, uploadVars, removing>>

ResumeAllUploads ==
  /\ "pause" \in Commands
  /\ Handler(CallAll("resume", Uploads \cap waiting) \o <<DequeueCall>>)

\* What the user may select: one transfer, or several.
Selections == {S \in SUBSET Alive : S # {} /\ ("multi" \in Commands \/ Cardinality(S) = 1)}

\* The menu item is enabled by the last download of the selection, whatever comes
\* before it, or by an upload below it.
Enables(S, able) ==
  \E i \in DOMAIN list :
     /\ list[i] \in S \cap able
     /\ \A j \in DOMAIN list : j > i /\ list[j] \in S => dir[list[j]] = "up"

CanHalt == {s \in Alive : IF dir[s] = "up" THEN s \notin waiting
                         ELSE s \in waiting \cup connected \cup connecting \cup accepting}
CanResume == {s \in Alive : IF dir[s] = "up" \/ s \notin finished THEN s \in waiting
                           ELSE files[s] > 0}

HaltSelected(S) ==
  /\ "halt" \in Commands /\ Enables(S, CanHalt)
  /\ Handler(<<Call("halt", S), DequeueCall>>)

ResumeSelected(S) ==
  /\ "resume" \in Commands /\ Enables(S, CanResume)
  /\ Handler(<<Call("resume", S), DequeueCall>>)

CancelSelected(S) ==
  /\ "cancel" \in Commands
  /\ Handler(<<Call("delete", S), DequeueCall>>)

ClearFinished ==
  /\ "clear" \in Commands /\ Alive \cap finished # {}
  /\ Handler(<<Call("delete", Alive \cap finished)>>)

\* The "Move" commands: the transfer at i goes one place up or down, or to the top
\* or the bottom.
MoveSelected(i, j) ==
  /\ Idle
  /\ "move" \in Commands
  /\ j \in {1, i - 1, i + 1, Len(list)}
  /\ list' = [k \in DOMAIN list |-> CASE k = j -> list[i]
                                      [] i <= k /\ k < j -> list[k + 1]
                                      [] j < k /\ k <= i -> list[k - 1]
                                      [] OTHER -> list[k]]
  /\ UNCHANGED <<fresh, scanning, opt, app, sessionVars, removing, todo>>

-----------------------------------------------------------------------------

Arrival == \E s \in Sessions :
  \/ SocketAccepted(s)
  \/ \E u \in Users : ConnectBackRequestReceived(s, u)
  \/ \E u \in Users, n \in 1..MaxFiles : RequestDownload(s, u, n) \/ RequestCallback(s, u, n)

Event == \E s \in Alive :
  \/ Connected(s) \/ Disconnected(s) \/ BadMessage(s) \/ Rejected(s)
  \/ Md5SendDone(s) \/ FileData(s) \/ Drained(s)
  \/ \E u \in Users : PeerId(s, u) \/ FileList(s, u)
  \/ \E n \in 1..MaxFiles : Md5RecvDone(s, n)

Notice ==
  \/ \E u \in Users : TransferCallbackRejected(u) \/ RemoveUser(u) \/ RestartDownloadsFor(u)
  \/ \E expired \in SUBSET Sessions : CheckForMoribundConnections(expired)
  \/ ScanStarts \/ SharesScanComplete \/ RemoveSession

UserCommand ==
  \/ \E d \in Directions, n \in Limits : SetLimit(d, n) \/ SetPerUserLimit(d, n)
  \/ ToggleShortestUploadsFirst \/ ToggleAutoClear \/ PauseAllUploads \/ ResumeAllUploads
  \/ \E S \in Selections : HaltSelected(S) \/ ResumeSelected(S) \/ CancelSelected(S)
  \/ ClearFinished
  \/ \E i, j \in DOMAIN list : i # j /\ MoveSelected(i, j)

Next == Step \/ Arrival \/ Event \/ Notice \/ UserCommand

Spec == Init /\ [][Next]_vars

\* The looper goes on with the handler it is in, and gets to every message in its
\* queue: to those it posted to itself and to the MD5 threads' reports.
Fairness ==
  /\ WF_vars(Step)
  /\ SF_vars(RemoveSession)
  /\ SF_vars(SharesScanComplete)
  /\ \A s \in Sessions : SF_vars(\E n \in 1..MaxFiles : Md5RecvDone(s, n))

FairSpec == Spec /\ Fairness

-----------------------------------------------------------------------------
(* Properties *)

\* The window's own variables.
WindowTypeOK ==
  /\ list \in Seq(Sessions)
  /\ fresh \subseteq Sessions
  /\ scanning \in {"no", "yes"}
  /\ opt \in Settings
  /\ app \in {"running", "crashed"}

\* The members of the ShareFileTransfer objects, and the messages about them.
SessionTypeOK ==
  /\ dir \in [Sessions -> Directions]
  /\ mtt \in [Sessions -> {"none", "idle", "running"}]
  /\ user \in [Sessions -> Users \cup {Anon}]
  /\ files \in [Sessions -> 0..MaxFiles]
  /\ toSend \in [Sessions -> 0..MaxFiles]
  /\ hasHost \subseteq Sessions /\ waiting \subseteq Sessions
  /\ accepting \subseteq Sessions /\ connecting \subseteq Sessions
  /\ connected \subseteq Sessions /\ finished \subseteq Sessions
  /\ errored \subseteq Sessions /\ halted \subseteq Sessions
  /\ autoRestart \subseteq Sessions /\ ticking \subseteq Sessions
  /\ saved \subseteq Sessions /\ hashing \subseteq Sessions
  /\ draining \subseteq Sessions /\ ending \subseteq Sessions
  /\ removing \in Seq(Sessions)

\* Every variable has its type: in particular no session counts below nothing or beyond
\* what it was asked for, and the stack holds calls that the looper knows.
TypeOK == WindowTypeOK /\ SessionTypeOK /\ todo \in Seq(Calls)

\* DequeueTransferSessions() never starts a transfer beyond the "Max Simultaneous"
\* limit, whatever BeginTransfer() does and however often it is called from within
\* other calls: a step that makes a session active leaves at most that many active,
\* unless the user forces it with "Restart Transfer".
StartsWithinLimit ==
  [][\A d \in Directions :
       \/ ActiveSessions(d)' \subseteq ActiveSessions(d)
       \/ Cardinality(ActiveSessions(d)') <= opt.max[d]
       \/ Doing("resume")]_vars

\* A session that holds a slot has a running transceiver thread that is connected
\* or will be, so that something can end it: no slot is lost for ever.  A finished
\* session has none.
SlotsAreLive ==
  \A s \in Alive :
    /\ IsActive(s) => mtt[s] = "running" /\ s \in connecting \cup connected \cup accepting
    /\ s \in finished => mtt[s] = "none" /\ s \notin connecting \cup connected \cup accepting

\* An upload that holds a slot is watched by the moribund check, or is waiting for
\* our own MD5 thread or scan, which will start its clock again.
ActiveUploadIsWatched ==
  Idle => ActiveSessions("up") \subseteq ticking \cup hashing \cup saved

\* No slot stays free while somebody queued could have it, once the looper has
\* handled what it posted to itself: each way a slot is freed leads to
\* DequeueTransferSessions().  Halted uploads, and those who have said who they are
\* but not yet what they want, are not looked at again.
NoIdleSlot ==
  (Idle /\ removing = <<>> /\ halted = {}) =>
    \A s \in Alive \cap waiting :
      LET d == dir[s] IN
      \/ CountActiveSessions(d, Anon) >= opt.max[d]
      \/ CountActiveSessions(d, user[s]) >= opt.perUser[d]
      \/ d = "up" /\ user[s] # Anon /\ s \in connected \ (saved \cup hashing) /\ files[s] = 0

\* A slot is never lost, left unwatched or kept idle while somebody waits for it: the
\* three together, for the runs about the user's commands, downloads and liveness.
SlotsAreSound == SlotsAreLive /\ ActiveUploadIsWatched /\ NoIdleSlot

\* The uploads that the sort pauses are all resumed: unless the user halts one, none
\* is left halted.
NobodyLeftHalted ==
  (Idle /\ {"halt", "pause"} \cap Commands = {}) => halted = {}

\* REMOVE_SESSION is posted once for a session, which is still there when the
\* message is handled.
RemovesLiveSessions ==
  /\ Range(removing) \subseteq Alive
  /\ \A i, j \in DOMAIN removing : removing[i] = removing[j] => i = j

\* No peer goes on for ever with messages that bring its upload no further: once its
\* clock stands, it is found.  (The check looks for clocks older than five minutes, and
\* every message of the peer starts the clock again, whatever it says.)
PeersFallSilent == \A s \in Sessions : SF_vars(CheckForMoribundConnections({s}))

\* Of such peers, no upload stays in the list for ever, even if its peer falls silent
\* before it has said who it is or what it wants: each gets its turn and is sent, fails,
\* or is found by the moribund check, which therefore must watch it while it has a slot.
EveryUploadEnds ==
  PeersFallSilent =>
    \A s \in Sessions : (s \in Alive /\ dir[s] = "up") ~> s \notin Alive

\* The nested calls of a handler come to an end, although DequeueTransferSessions(),
\* AbortSession() and RestartSession() call each other.
HandlersReturn == todo # <<>> ~> todo = <<>>
=============================================================================
