----------------------------- MODULE ScanShares -----------------------------
(***************************************************************************)
(* The scan of the shared files (ShareNetClient.cpp): a background thread  *)
(* walks the shared folders under _dirsLock while the looper starts and    *)
(* aborts scans, connects and disconnects, and keeps uploads waiting whose *)
(* list of files arrived during the scan.  The only things the two share   *)
(* are _scanSharesThreadID, the lock, and the report that the thread posts *)
(* when it ends.                                                           *)
(*                                                                         *)
(* The looper handles one message at a time; the calls a handler has still *)
(* to make are on the stack todo, and it may block in two of them: waiting *)
(* for a thread to exit, and waiting for _dirsLock.  A report does not say *)
(* which thread it is from, and commands that were queued while the looper *)
(* was blocked are handled before it, so that reports are only counted.    *)
(***************************************************************************)
EXTENDS Naturals, Sequences, FiniteSets

CONSTANTS
  Threads,     \* scan threads that can exist at the same time
  NoThread,    \* the thread ID -1
  Uploads,     \* upload sessions that can get a list of files
  MaxEntries,  \* bound on the directory entries a scan visits
  MaxReports   \* bound on the reports in the looper's queue

ASSUME ThreadsAssumption == NoThread \notin Threads
ASSUME BoundsAssumption == MaxEntries \in Nat /\ MaxReports \in Nat \ {0}

VARIABLES
  mtt,      \* the connection to the server: "none", "connecting", "connected"
  sharing,  \* the "File Sharing Enabled" item
  id,       \* _scanSharesThreadID
  scan,     \* what each thread is doing
  code,     \* what each thread is to look for: {} is a scan from nothing
  left,     \* entries each thread has still to visit
  lock,     \* who holds _dirsLock
  reports,  \* NET_CLIENT_SCAN_THREAD_REPORT messages in the looper's queue
  pending,  \* _rescanRequestsPending
  batch,    \* _scanSharesBatchCount
  held,     \* uploads with a _saveFileListMessage
  todo,     \* calls the current handler has still to make
  app       \* "running", or "crashed" after data was pulled from under a thread

windowVars == <<mtt, sharing>>
threadVars == <<scan, code, left, lock>>
queueVars == <<pending, held>>
vars == <<windowVars, id, threadVars, reports, queueVars, batch, todo, app>>

\* A call still to be made, and the calls that have an argument.
Do(op) == [op |-> op]
Wait(t) == [op |-> "wait", t |-> t]
Reupload(c) == [op |-> "reupload", code |-> c]
Spawn(c) == [op |-> "spawn", code |-> c]

Idle == todo = <<>> /\ app = "running"
Doing(op) == todo # <<>> /\ app = "running" /\ Head(todo).op = op
Then(calls) == todo' = calls \o Tail(todo)

IsScanningShares == id # NoThread
Running == {t \in Threads : scan[t] # "none"}

Init ==
  /\ mtt = "none" /\ sharing = "on"
  /\ id = NoThread
  /\ scan = [t \in Threads |-> "none"]
  /\ code = [t \in Threads |-> {}]
  /\ left = [t \in Threads |-> 0]
  /\ lock = NoThread
  /\ reports = 0 /\ pending = {} /\ batch = 0 /\ held = {}
  /\ todo = <<>>
  /\ app = "running"

-----------------------------------------------------------------------------
(* The looper's calls *)

\* AbortScanSharesThread(): tell the thread to stop, and wait until it has.
AbortScanSharesThread ==
  /\ Doing("abort")
  /\ batch' = batch + 1
  /\ id' = NoThread
  /\ Then(IF IsScanningShares THEN <<Wait(id), Do("end")>> ELSE <<Do("end")>>)
  /\ UNCHANGED <<windowVars, threadVars, reports, queueVars, app>>

WaitForThread ==
  /\ Doing("wait")
  /\ scan[Head(todo).t] = "none"
  /\ Then(<<>>)
  /\ UNCHANGED <<windowVars, id, threadVars, reports, queueVars, batch, app>>

\* Complete when an inner batch ends, not when the outermost does.
EndInnerBatch ==
  /\ Doing("end")
  /\ batch' = batch - 1
  /\ held' = IF batch = 2 /\ ~IsScanningShares THEN {} ELSE held
  /\ Then(<<>>)
  /\ UNCHANGED <<windowVars, id, threadVars, reports, pending, app>>

\* EndScanSharesBatch(): SharesScanComplete() lets the uploads go on, once the
\* outermost batch has ended and no scan is left.
EndScanSharesBatch ==
  /\ Doing("end")
  /\ batch' = batch - 1
  /\ held' = IF batch = 1 /\ ~IsScanningShares THEN {} ELSE held
  /\ Then(<<>>)
  /\ UNCHANGED <<windowVars, id, threadVars, reports, pending, app>>

ReuploadFiles ==
  /\ Doing("reupload")
  /\ batch' = batch + 1
  /\ Then(<<Do("abort"), Spawn(Head(todo).code), Do("end")>>)
  /\ UNCHANGED <<windowVars, id, threadVars, reports, queueVars, app>>

\* UnwatchAllDirs() clears tables that a scan works on, without the lock: with a
\* scan running anything may happen.
UnwatchAllDirs ==
  app' \in IF Running = {} THEN {app} ELSE {app, "crashed"}

\* The body of ReuploadFiles(): from nothing, everything is taken back from the
\* server first.  A thread that can not be started leaves a negative ID.
SpawnScan ==
  /\ Doing("spawn")
  /\ Then(<<>>)
  /\ IF mtt = "none"
     THEN UNCHANGED <<app, id, scan, code, left>>
     ELSE /\ IF Head(todo).code = {} THEN UnwatchAllDirs ELSE UNCHANGED app
          /\ \/ \E t \in Threads \ Running, n \in 0..MaxEntries :
                  /\ id' = t
                  /\ scan' = [scan EXCEPT ![t] = "started"]
                  /\ code' = [code EXCEPT ![t] = Head(todo).code]
                  /\ left' = [left EXCEPT ![t] = n]
             \/ id' = NoThread /\ UNCHANGED <<scan, code, left>>
  /\ UNCHANGED <<mtt, sharing, lock, reports, queueVars, batch>>

RemoveFileSharing ==
  /\ Doing("removeSharing")
  /\ Then(<<>>)
  /\ UnwatchAllDirs
  /\ UNCHANGED <<mtt, sharing, id, threadVars, reports, queueVars, batch>>

\* The rest of DisconnectFromServer(): the connection's object is deleted.
CloseConnection ==
  /\ Doing("close")
  /\ Then(<<>>)
  /\ mtt' = "none"
  /\ IF mtt = "none" THEN UNCHANGED app ELSE UnwatchAllDirs
  /\ UNCHANGED <<sharing, id, threadVars, reports, queueVars, batch>>

\* The rest of ConnectToServer().
OpenConnection ==
  /\ Doing("connect")
  /\ Then(<<>>)
  /\ mtt' \in {"connecting", "none"}
  /\ UNCHANGED <<sharing, id, threadVars, reports, queueVars, batch, app>>

\* A file or folder was created, moved or removed: NodeCreated() and NodeRemoved()
\* wait for the lock.
NodeChanged ==
  /\ Doing("node")
  /\ lock = NoThread
  /\ Then(<<>>)
  /\ UNCHANGED <<windowVars, id, threadVars, reports, queueVars, batch, app>>

Step ==
  \/ AbortScanSharesThread \/ WaitForThread \/ EndScanSharesBatch \/ ReuploadFiles
  \/ SpawnScan \/ RemoveFileSharing \/ CloseConnection \/ OpenConnection \/ NodeChanged

-----------------------------------------------------------------------------
(* The looper's messages *)

Handler(calls) ==
  /\ Idle
  /\ todo' = calls
  /\ UNCHANGED <<id, threadVars, batch, app>>

\* NET_CLIENT_SCAN_THREAD_REPORT: whichever thread it is from, the scan is over.
ScanThreadReport ==
  /\ Idle
  /\ reports > 0
  /\ reports' = reports - 1
  /\ batch' = batch + 1
  /\ id' = NoThread
  /\ pending' = {}
  /\ todo' = (IF pending = {} THEN <<>> ELSE <<Reupload(pending)>>) \o <<Do("end")>>
  /\ UNCHANGED <<windowVars, threadVars, held, app>>

\* B_DEVICE_MOUNTED and B_DEVICE_UNMOUNTED: a scan for the difference, now or
\* after the scan that is running.
VolumesChanged(what) ==
  /\ sharing = "on"
  /\ IF IsScanningShares
     THEN Handler(<<>>) /\ pending' = pending \cup {what}
     ELSE Handler(<<Reupload({what})>>) /\ UNCHANGED pending
  /\ UNCHANGED <<windowVars, reports, held>>

\* B_ENTRY_CREATED, B_ENTRY_MOVED and B_ENTRY_REMOVED.
NodeMonitor ==
  /\ sharing = "on"
  /\ Handler(<<Do("node")>>)
  /\ UNCHANGED <<windowVars, reports, queueVars>>

SetFileSharingEnabled(mark) ==
  /\ sharing # mark
  /\ sharing' = mark
  /\ Handler(<<Do("abort"), IF mark = "on" THEN Reupload({}) ELSE Do("removeSharing")>>)
  /\ UNCHANGED <<mtt, reports, queueVars>>

SetFirewalled ==
  /\ mtt = "connected"
  /\ Handler(<<Reupload({})>>)
  /\ UNCHANGED <<windowVars, reports, queueVars>>

ConnectToServer ==
  /\ Handler(<<Do("abort"), Do("close"), Do("connect")>>)
  /\ UNCHANGED <<windowVars, reports, queueVars>>

\* By the user's command, or because the server has gone.
DisconnectFromServer ==
  /\ mtt # "none"
  /\ Handler(<<Do("abort"), Do("close")>>)
  /\ UNCHANGED <<windowVars, reports, queueVars>>

\* MTT_EVENT_SESSION_CONNECTED.
SessionConnected ==
  /\ mtt = "connecting"
  /\ mtt' = "connected"
  /\ Handler(IF sharing = "on" THEN <<Reupload({})>> ELSE <<>>)
  /\ UNCHANGED <<sharing, reports, queueVars>>

\* A list of files arrives for an upload; without a scan it is examined at once.
FileList(u) ==
  /\ IsScanningShares
  /\ Handler(<<>>)
  /\ held' = held \cup {u}
  /\ UNCHANGED <<windowVars, reports, pending>>

Message ==
  \/ ScanThreadReport
  \/ /\ reports < MaxReports
     /\ \/ \E what \in {"removes", "adds"} : VolumesChanged(what)
        \/ NodeMonitor
        \/ \E mark \in {"on", "off"} : SetFileSharingEnabled(mark)
        \/ SetFirewalled \/ ConnectToServer \/ DisconnectFromServer \/ SessionConnected
        \/ \E u \in Uploads : FileList(u)

-----------------------------------------------------------------------------
(* The scan thread: ScanSharesThread() and AddWatchedDirectory() *)

\* With the lock: first what has gone, if that was asked for, ...
LockForRemoves(t) ==
  /\ scan[t] = "started" /\ "removes" \in code[t]
  /\ lock = NoThread
  /\ lock' = t
  /\ scan' = [scan EXCEPT ![t] = "removing"]
  /\ UNCHANGED <<code, left, reports>>

\* ... entry by entry, until the scan is told to stop ...
RemoveGone(t) ==
  /\ scan[t] = "removing"
  /\ IF left[t] > 0 /\ IsScanningShares
     THEN left' = [left EXCEPT ![t] = @ - 1] /\ UNCHANGED <<lock, scan>>
     ELSE /\ lock' = NoThread
          /\ scan' = [scan EXCEPT ![t] = IF "adds" \in code[t] THEN "adding" ELSE "report"]
          /\ left' \in {[left EXCEPT ![t] = n] :
                         n \in IF "adds" \in code[t] THEN 0..MaxEntries ELSE {0}}
  /\ UNCHANGED <<code, reports>>

\* ... then what there is, ...
WantsAdds(t) ==
  \/ scan[t] = "started" /\ "removes" \notin code[t]
  \/ scan[t] = "adding"

LockForAdds(t) ==
  /\ WantsAdds(t)
  /\ lock = NoThread
  /\ lock' = t
  /\ scan' = [scan EXCEPT ![t] = "walking"]
  /\ UNCHANGED <<code, left, reports>>

\* ... unless there is no "shared" folder.
NoSharedFolder(t) ==
  /\ app = "running"
  /\ WantsAdds(t)
  /\ scan' = [scan EXCEPT ![t] = "report"]
  /\ left' = [left EXCEPT ![t] = 0]
  /\ UNCHANGED <<windowVars, id, code, lock, reports, queueVars, batch, todo, app>>

\* The forced abort returns without giving up the lock.
WalkKeepsLock(t) ==
  /\ scan[t] = "walking"
  /\ IF left[t] > 0 /\ id = t
     THEN left' = [left EXCEPT ![t] = @ - 1] /\ UNCHANGED <<lock, scan>>
     ELSE /\ lock' = IF left[t] > 0 THEN lock ELSE NoThread
          /\ scan' = [scan EXCEPT ![t] = "report"]
          /\ left' = [left EXCEPT ![t] = 0]
  /\ UNCHANGED <<code, reports>>

\* AddWatchedDirectory() stops as soon as the ID is no longer its own.
Walk(t) ==
  /\ scan[t] = "walking"
  /\ IF left[t] > 0 /\ id = t
     THEN left' = [left EXCEPT ![t] = @ - 1] /\ UNCHANGED <<lock, scan>>
     ELSE /\ lock' = NoThread
          /\ scan' = [scan EXCEPT ![t] = "report"]
          /\ left' = [left EXCEPT ![t] = 0]
  /\ UNCHANGED <<code, reports>>

\* A thread that was told to stop does not report.
ReportIfWanted(t) ==
  /\ scan[t] = "report"
  /\ reports' = IF id = t THEN reports + 1 ELSE reports
  /\ scan' = [scan EXCEPT ![t] = "none"]
  /\ code' = [code EXCEPT ![t] = {}]
  /\ UNCHANGED <<left, lock>>

PostReport(t) ==
  /\ scan[t] = "report"
  /\ reports' = reports + 1
  /\ scan' = [scan EXCEPT ![t] = "none"]
  /\ code' = [code EXCEPT ![t] = {}]
  /\ UNCHANGED <<left, lock>>

ScanStep(t) ==
  /\ app = "running"
  /\ LockForRemoves(t) \/ RemoveGone(t) \/ LockForAdds(t) \/ Walk(t) \/ PostReport(t)
  /\ UNCHANGED <<windowVars, id, queueVars, batch, todo, app>>

-----------------------------------------------------------------------------

Next == Step \/ Message \/ \E t \in Threads : ScanStep(t) \/ NoSharedFolder(t)

Spec == Init /\ [][Next]_vars

\* The looper goes on with its handler as long as it is not blocked, and the kernel
\* runs every scan thread that is not; the folder may be there or not.
FairSpec == Spec /\ WF_vars(Step) /\ \A t \in Threads : WF_vars(ScanStep(t))

-----------------------------------------------------------------------------
(* Properties *)

\* An upload is kept waiting only while IsScanningShares(): whichever of the nested
\* AbortScanSharesThread(), ReuploadFiles() and report handling clears the thread
\* ID, the outermost EndScanSharesBatch() releases it.
HeldOnlyWhileScanning == (Idle /\ held # {}) => IsScanningShares

\* A volume that is mounted or unmounted during a scan is looked at afterwards, even
\* if that scan is aborted or replaced: a report is still to come.
RescanIsRemembered == (Idle /\ pending # {}) => reports > 0 \/ Running # {}

\* The looper is never stuck in wait_for_thread() or for _dirsLock.
LooperReturns == todo # <<>> ~> (todo = <<>> \/ app = "crashed")
=============================================================================
