-------------------------- MODULE ScanShares_proofs --------------------------
(***************************************************************************)
(* The looper and the scan threads, for any number of threads, uploads,    *)
(* directory entries and queued reports: no rescan is forgotten, no upload *)
(* is kept waiting without a scan, and _dirsLock excludes.                 *)
(***************************************************************************)
EXTENDS ScanShares, FiniteSetTheorems, SequenceTheorems, TLAPS

ScanStates == {"none", "started", "removing", "adding", "walking", "report"}

TypeOK ==
  /\ id \in Threads \cup {NoThread}
  /\ scan \in [Threads -> ScanStates]
  /\ lock \in Threads \cup {NoThread}
  /\ reports \in Nat

-----------------------------------------------------------------------------
(* No rescan is forgotten *)

\* A report is in the looper's queue, or a thread is there that will post one.
ReportToCome == reports > 0 \/ Running # {}

\* What _rescanRequestsPending waits for is promised by the thread ID: it is set
\* only with a thread that runs, and cleared without a report only by an abort,
\* which leaves the thread to post its own.
RescanInv ==
  /\ TypeOK
  /\ IsScanningShares => ReportToCome
  /\ pending # {} => ReportToCome

LEMMA InitRescan == Init => RescanInv
BY DEF Init, RescanInv, TypeOK, ScanStates, IsScanningShares

\* The calls of a handler start a thread at most.
LEMMA StepRescan == RescanInv /\ Step => RescanInv'
<1> SUFFICES ASSUME RescanInv, Step PROVE RescanInv'
  OBVIOUS
<1> USE DEF RescanInv, TypeOK, ReportToCome, Running, IsScanningShares
<1>1. CASE SpawnScan
  <2>1. CASE UNCHANGED <<id, scan>>
    BY <1>1, <2>1 DEF SpawnScan, queueVars
  <2>2. CASE id' = NoThread /\ UNCHANGED scan
    BY <1>1, <2>2 DEF SpawnScan, queueVars
  <2>3. CASE \E t \in Threads \ Running :
                 id' = t /\ scan' = [scan EXCEPT ![t] = "started"]
    <3>1. PICK t \in Threads : id' = t /\ scan' = [scan EXCEPT ![t] = "started"]
      BY <2>3
    <3>2. scan' \in [Threads -> ScanStates] /\ scan'[t] # "none"
      BY <3>1 DEF ScanStates
    <3> QED
      BY <1>1, <3>1, <3>2 DEF SpawnScan, queueVars
  <2> QED
    BY <1>1, <2>1, <2>2, <2>3 DEF SpawnScan
<1>2. CASE AbortScanSharesThread
  BY <1>2 DEF AbortScanSharesThread, threadVars, queueVars
<1>3. CASE WaitForThread \/ ReuploadFiles \/ NodeChanged
  BY <1>3 DEF WaitForThread, ReuploadFiles, NodeChanged, threadVars, queueVars
<1>4. CASE EndScanSharesBatch
  BY <1>4 DEF EndScanSharesBatch, threadVars
<1>5. CASE RemoveFileSharing \/ CloseConnection \/ OpenConnection
  BY <1>5 DEF RemoveFileSharing, CloseConnection, OpenConnection, threadVars, queueVars
<1> QED
  BY <1>1, <1>2, <1>3, <1>4, <1>5 DEF Step

\* A message that asks for a rescan finds the thread ID set; the report that
\* takes a promise away takes the requests with it.
LEMMA MessageRescan == RescanInv /\ Message => RescanInv'
<1> SUFFICES ASSUME RescanInv, Message PROVE RescanInv'
  OBVIOUS
<1> USE DEF RescanInv, TypeOK, ReportToCome, Running, IsScanningShares
<1>1. CASE ScanThreadReport
  BY <1>1 DEF ScanThreadReport, threadVars
<1>2. ASSUME NEW what, VolumesChanged(what) PROVE RescanInv'
  BY <1>2 DEF VolumesChanged, Handler, threadVars
<1>3. CASE NodeMonitor \/ SetFirewalled \/ ConnectToServer \/ DisconnectFromServer
           \/ SessionConnected \/ \E mark \in {"on", "off"} : SetFileSharingEnabled(mark)
  BY <1>3 DEF NodeMonitor, SetFirewalled, ConnectToServer, DisconnectFromServer,
     SessionConnected, SetFileSharingEnabled, Handler, threadVars, queueVars
<1>4. ASSUME NEW u, FileList(u) PROVE RescanInv'
  BY <1>4 DEF FileList, Handler, threadVars
<1> QED
  BY <1>1, <1>2, <1>3, <1>4 DEF Message

\* A thread runs until it posts its report.
LEMMA ThreadRescan ==
  ASSUME RescanInv, NEW t \in Threads, ScanStep(t) \/ NoSharedFolder(t)
  PROVE  RescanInv'
<1> USE DEF RescanInv, TypeOK, ScanStates, ReportToCome, Running, IsScanningShares
<1>1. CASE LockForRemoves(t) \/ LockForAdds(t)
  BY <1>1 DEF LockForRemoves, LockForAdds, ScanStep, NoSharedFolder, queueVars
<1>2. CASE RemoveGone(t)
  <2>1. scan' = scan \/ scan' = [scan EXCEPT ![t] = "adding"]
        \/ scan' = [scan EXCEPT ![t] = "report"]
    BY <1>2 DEF RemoveGone
  <2>2. lock' \in {lock, NoThread} /\ reports' = reports
    BY <1>2 DEF RemoveGone
  <2>3. scan' \in [Threads -> ScanStates] /\ (Running # {} => Running' # {})
    BY <2>1
  <2>4. UNCHANGED <<id, pending>>
    BY <1>2 DEF ScanStep, NoSharedFolder, queueVars
  <2> QED
    BY <2>2, <2>3, <2>4
<1>3. CASE Walk(t)
  <2>1. scan' = scan \/ scan' = [scan EXCEPT ![t] = "report"]
    BY <1>3 DEF Walk
  <2>2. lock' \in {lock, NoThread} /\ reports' = reports
    BY <1>3 DEF Walk
  <2>3. scan' \in [Threads -> ScanStates] /\ (Running # {} => Running' # {})
    BY <2>1
  <2>4. UNCHANGED <<id, pending>>
    BY <1>3 DEF ScanStep, NoSharedFolder, queueVars
  <2> QED
    BY <2>2, <2>3, <2>4
<1>4. CASE PostReport(t)
  BY <1>4 DEF PostReport, ScanStep, NoSharedFolder, queueVars
<1>5. CASE NoSharedFolder(t)
  BY <1>5 DEF NoSharedFolder, queueVars
<1> QED
  BY <1>1, <1>2, <1>3, <1>4, <1>5 DEF ScanStep

LEMMA NextRescan == RescanInv /\ [Next]_vars => RescanInv'
<1>1. RescanInv /\ UNCHANGED vars => RescanInv'
  BY DEF RescanInv, TypeOK, ReportToCome, Running, IsScanningShares, vars, threadVars, queueVars
<1> QED
  BY <1>1, StepRescan, MessageRescan, ThreadRescan DEF Next

\* A volume that was mounted or unmounted during a scan is looked at afterwards:
\* as long as _rescanRequestsPending is not empty a report is in the looper's
\* queue or a thread that will post one is running.
THEOREM RescanIsRememberedHolds == Spec => []RescanIsRemembered
<1>1. RescanInv => RescanIsRemembered
  BY DEF RescanInv, RescanIsRemembered, ReportToCome
<1> QED
  BY InitRescan, NextRescan, <1>1, PTL DEF Spec

-----------------------------------------------------------------------------
(* _dirsLock *)

\* A thread has the lock exactly while it works on the tables.
LockedAtWork ==
  \A t \in Threads : lock = t <=> scan[t] \in {"removing", "walking"}

LEMMA ThreadLocked ==
  ASSUME TypeOK, LockedAtWork, NEW t \in Threads, ScanStep(t) \/ NoSharedFolder(t)
  PROVE  LockedAtWork'
<1> USE ThreadsAssumption DEF TypeOK, ScanStates, LockedAtWork
<1>1. CASE LockForRemoves(t) \/ LockForAdds(t)
  BY <1>1 DEF LockForRemoves, LockForAdds, WantsAdds
<1>2. CASE RemoveGone(t)
  <2>1. CASE UNCHANGED <<lock, scan>>
    BY <2>1
  <2>2. CASE lock' = NoThread /\ scan' = [scan EXCEPT ![t] =
               IF "adds" \in code[t] THEN "adding" ELSE "report"]
    BY <1>2, <2>2 DEF RemoveGone
  <2> QED
    BY <1>2, <2>1, <2>2 DEF RemoveGone
<1>3. CASE Walk(t)
  <2>1. CASE UNCHANGED <<lock, scan>>
    BY <2>1
  <2>2. CASE lock' = NoThread /\ scan' = [scan EXCEPT ![t] = "report"]
    BY <1>3, <2>2 DEF Walk
  <2> QED
    BY <1>3, <2>1, <2>2 DEF Walk
<1>4. CASE PostReport(t)
  BY <1>4 DEF PostReport
<1>5. CASE NoSharedFolder(t)
  BY <1>5 DEF NoSharedFolder, WantsAdds
<1> QED
  BY <1>1, <1>2, <1>3, <1>4, <1>5 DEF ScanStep

LEMMA NextLocked == TypeOK /\ LockedAtWork /\ [Next]_vars => LockedAtWork'
<1> SUFFICES ASSUME TypeOK, LockedAtWork, [Next]_vars PROVE LockedAtWork'
  OBVIOUS
<1>1. CASE UNCHANGED <<lock, scan>>
  BY <1>1 DEF LockedAtWork
<1>2. CASE SpawnScan
  <2>1. CASE \E t \in Threads \ Running : scan' = [scan EXCEPT ![t] = "started"]
    BY <1>2, <2>1 DEF SpawnScan, Running, LockedAtWork, TypeOK
  <2> QED
    BY <1>1, <1>2, <2>1 DEF SpawnScan
<1>3. CASE Step /\ ~SpawnScan
  BY <1>1, <1>3 DEF Step, AbortScanSharesThread, WaitForThread, EndScanSharesBatch,
     ReuploadFiles, RemoveFileSharing, CloseConnection, OpenConnection, NodeChanged,
     threadVars
<1>4. CASE Message
  BY <1>1, <1>4 DEF Message, ScanThreadReport, VolumesChanged, NodeMonitor,
     SetFileSharingEnabled, SetFirewalled, ConnectToServer, DisconnectFromServer,
     SessionConnected, FileList, Handler, threadVars
<1>5. CASE UNCHANGED vars
  BY <1>1, <1>5 DEF vars, threadVars
<1> QED
  BY <1>2, <1>3, <1>4, <1>5, ThreadLocked DEF Next

\* Two scan threads never work on the tables together, and the lock is never left
\* behind: whoever has it is a thread that is still to give it up.  Whether a scan
\* ends, is aborted or has nothing to do, it is without the lock when it reports,
\* and the looper that waits for it in NodeCreated() gets it.
THEOREM DirsLockExcludes == Spec => []LockedAtWork
<1>1. Init => LockedAtWork
  BY ThreadsAssumption DEF Init, LockedAtWork
<1>2. RescanInv => TypeOK
  BY DEF RescanInv
<1> QED
  BY <1>1, <1>2, InitRescan, NextRescan, NextLocked, PTL DEF Spec

-----------------------------------------------------------------------------
(* No upload is kept waiting *)

Codes == SUBSET {"removes", "adds"}
Calls == [op : {"abort", "end", "removeSharing", "close", "connect", "node"}]
         \cup [op : {"wait"}, t : Threads]
         \cup [op : {"reupload", "spawn"}, code : Codes]

\* How many batches the calls on the stack will end.
EndsAt(s) == {i \in 1..Len(s) : s[i].op = "end"}
Ends(s) == Cardinality(EndsAt(s))

\* A scan is started only inside the batch of ReuploadFiles().
SpawnsInBatch(s) ==
  \A i \in 1..Len(s) : s[i].op = "spawn" => i < Len(s) /\ s[i + 1].op = "end"

\* The stack of the looper: _scanSharesBatchCount is the number of batches that
\* are still to be ended, and an upload that waits without a scan is in one.
HeldInv ==
  /\ todo \in Seq(Calls)
  /\ pending \in Codes
  /\ batch = Ends(todo)
  /\ SpawnsInBatch(todo)
  /\ (held # {} /\ ~IsScanningShares) => batch > 0

\* A call that is put on the stack counts if it ends a batch.
LEMMA EndsPush ==
  ASSUME NEW s \in Seq(Calls), NEW a \in Calls
  PROVE  /\ Ends(s) \in Nat
         /\ Ends(<<a>> \o s) = Ends(s) + (IF a.op = "end" THEN 1 ELSE 0)
<1> DEFINE r == <<a>> \o s
           T == {i \in 2..Len(r) : r[i].op = "end"}
           f == [i \in EndsAt(s) |-> i + 1]
<1>1. /\ r \in Seq(Calls) /\ Len(r) = Len(s) + 1 /\ Len(s) \in Nat
      /\ r[1] = a /\ \A i \in 1..Len(s) : r[i + 1] = s[i]
  OBVIOUS
<1>2. IsFiniteSet(EndsAt(s))
  <2>1. EndsAt(s) \subseteq 1..Len(s)
    BY DEF EndsAt
  <2>2. IsFiniteSet(1..Len(s))
    BY <1>1, FS_Interval
  <2> QED
    BY <2>1, <2>2, FS_Subset
<1> HIDE DEF r
<1>3. f \in Bijection(EndsAt(s), T)
  <2>1. \A i \in EndsAt(s) : i \in Int /\ i + 1 \in T
    BY <1>1 DEF EndsAt
  <2>2. \A j \in T : j - 1 \in EndsAt(s) /\ f[j - 1] = j
    BY <1>1 DEF EndsAt
  <2>3. f \in [EndsAt(s) -> T] /\ \A i, j \in EndsAt(s) : f[i] = f[j] => i = j
    BY <2>1
  <2>4. \A j \in T : \E i \in EndsAt(s) : f[i] = j
    BY <2>2
  <2> HIDE DEF f, T
  <2> QED
    BY <2>3, <2>4 DEF Bijection, Injection, Surjection, IsInjective
<1> HIDE DEF T, f
<1>4. IsFiniteSet(T) /\ Cardinality(T) = Ends(s)
  BY <1>2, <1>3, FS_Bijection DEF ExistsBijection, Ends
<1>5. ASSUME a.op = "end" PROVE Ends(r) = Ends(s) + 1
  <2>1. EndsAt(r) = T \cup {1} /\ 1 \notin T
    BY <1>1, <1>5 DEF EndsAt, T
  <2> QED
    BY <1>4, <2>1, FS_AddElement DEF Ends
<1>6. ASSUME a.op # "end" PROVE Ends(r) = Ends(s)
  <2>1. EndsAt(r) = T
    BY <1>1, <1>6 DEF EndsAt, T
  <2> QED
    BY <1>4, <2>1 DEF Ends
<1>7. Ends(s) \in Nat
  BY <1>2, FS_CardinalityType DEF Ends
<1> QED
  BY <1>5, <1>6, <1>7 DEF r

LEMMA EndsPop ==
  ASSUME NEW s \in Seq(Calls), s # <<>>
  PROVE  /\ Head(s) \in Calls /\ Tail(s) \in Seq(Calls)
         /\ Ends(Tail(s)) \in Nat
         /\ Ends(s) = Ends(Tail(s)) + (IF Head(s).op = "end" THEN 1 ELSE 0)
<1>1. Head(s) \in Calls /\ Tail(s) \in Seq(Calls) /\ s = <<Head(s)>> \o Tail(s)
  OBVIOUS
<1> QED
  BY <1>1, EndsPush

\* Each call pushes two or three others at most.
LEMMA EndsPush2 ==
  ASSUME NEW s \in Seq(Calls), NEW a \in Calls, NEW b \in Calls
  PROVE  /\ <<a, b>> \o s \in Seq(Calls)
         /\ Ends(<<a, b>> \o s) = Ends(s) + (IF a.op = "end" THEN 1 ELSE 0)
                                          + (IF b.op = "end" THEN 1 ELSE 0)
<1> DEFINE q == <<b>> \o s
           r == <<a>> \o q
           t == <<a, b>> \o s
<1>1. q \in Seq(Calls) /\ r \in Seq(Calls) /\ Len(r) = Len(s) + 2
  OBVIOUS
<1>2. t \in Seq(Calls) /\ Len(t) = Len(s) + 2
  OBVIOUS
<1>3. \A i \in 1..(Len(s) + 2) : r[i] = t[i]
  OBVIOUS
<1>4. Ends(q) = Ends(s) + (IF b.op = "end" THEN 1 ELSE 0) /\ Ends(s) \in Nat
  BY EndsPush
<1> HIDE DEF q
<1>5. Ends(r) = Ends(q) + (IF a.op = "end" THEN 1 ELSE 0)
  BY <1>1, EndsPush
<1> HIDE DEF r, t
<1>6. r = t
  BY <1>1, <1>2, <1>3, SeqEqual
<1>7. Ends(t) = Ends(s) + (IF a.op = "end" THEN 1 ELSE 0) + (IF b.op = "end" THEN 1 ELSE 0)
  BY <1>4, <1>5, <1>6
<1> QED
  BY <1>2, <1>7 DEF t

LEMMA EndsPush3 ==
  ASSUME NEW s \in Seq(Calls), NEW a \in Calls, NEW b \in Calls, NEW c \in Calls
  PROVE  /\ <<a, b, c>> \o s \in Seq(Calls)
         /\ Ends(<<a, b, c>> \o s) = Ends(s) + (IF a.op = "end" THEN 1 ELSE 0)
                                             + (IF b.op = "end" THEN 1 ELSE 0)
                                             + (IF c.op = "end" THEN 1 ELSE 0)
<1> DEFINE q == <<b, c>> \o s
           r == <<a>> \o q
           t == <<a, b, c>> \o s
<1>1. q \in Seq(Calls) /\ r \in Seq(Calls) /\ Len(r) = Len(s) + 3
  OBVIOUS
<1>2. t \in Seq(Calls) /\ Len(t) = Len(s) + 3
  OBVIOUS
<1>3. \A i \in 1..(Len(s) + 3) : r[i] = t[i]
  OBVIOUS
<1>4. /\ Ends(q) = Ends(s) + (IF b.op = "end" THEN 1 ELSE 0)
                           + (IF c.op = "end" THEN 1 ELSE 0)
      /\ Ends(s) \in Nat
  BY EndsPush, EndsPush2
<1> HIDE DEF q
<1>5. Ends(r) = Ends(q) + (IF a.op = "end" THEN 1 ELSE 0)
  BY <1>1, EndsPush
<1> HIDE DEF r, t
<1>6. r = t
  BY <1>1, <1>2, <1>3, SeqEqual
<1>7. Ends(t) = Ends(s) + (IF a.op = "end" THEN 1 ELSE 0) + (IF b.op = "end" THEN 1 ELSE 0)
                        + (IF c.op = "end" THEN 1 ELSE 0)
  BY <1>4, <1>5, <1>6
<1> QED
  BY <1>2, <1>7 DEF t

LEMMA EndsNone == Ends(<<>>) = 0
BY FS_EmptySet DEF Ends, EndsAt

LEMMA CallsAreCalls ==
  /\ \A op \in {"abort", "end", "removeSharing", "close", "connect", "node"} :
       Do(op) \in Calls /\ Do(op).op = op
  /\ \A t \in Threads : Wait(t) \in Calls /\ Wait(t).op = "wait"
  /\ \A c \in Codes : /\ Reupload(c) \in Calls /\ Reupload(c).op = "reupload"
                      /\ Spawn(c) \in Calls /\ Spawn(c).op = "spawn"
BY DEF Do, Wait, Reupload, Spawn, Calls

\* What is left when the first call is taken off the stack.
LEMMA PopCall ==
  ASSUME HeldInv, todo # <<>>
  PROVE  /\ Head(todo) \in Calls /\ Tail(todo) \in Seq(Calls)
         /\ Ends(Tail(todo)) \in Nat
         /\ batch = Ends(Tail(todo)) + (IF Head(todo).op = "end" THEN 1 ELSE 0)
         /\ SpawnsInBatch(Tail(todo))
         /\ Head(todo).op = "spawn" => Ends(Tail(todo)) > 0
         /\ Head(todo).op \in {"reupload", "spawn"} => Head(todo).code \in Codes
<1>1. /\ Head(todo) \in Calls /\ Tail(todo) \in Seq(Calls)
      /\ Ends(Tail(todo)) \in Nat
      /\ batch = Ends(Tail(todo)) + (IF Head(todo).op = "end" THEN 1 ELSE 0)
  BY EndsPop DEF HeldInv
<1>2. SpawnsInBatch(Tail(todo))
  BY DEF HeldInv, SpawnsInBatch
<1>3. ASSUME Head(todo).op = "spawn" PROVE Ends(Tail(todo)) > 0
  <2>1. Tail(todo) # <<>> /\ Head(Tail(todo)).op = "end"
    <3>1. todo \in Seq(Calls) /\ Len(todo) > 0 /\ Head(todo) = todo[1]
      BY DEF HeldInv
    <3>2. 1 < Len(todo) /\ todo[2].op = "end"
      BY <1>3, <3>1 DEF HeldInv, SpawnsInBatch
    <3>3. PICK rest \in Seq(Calls) : rest = Tail(todo)
      BY <1>1
    <3>4. Len(rest) = Len(todo) - 1 /\ Len(todo) \in Nat
      BY <3>1, <3>3
    <3>5. rest # <<>> /\ Head(rest) = rest[1]
      BY <3>2, <3>4
    <3>6. rest[1] = todo[2]
      BY <3>1, <3>2, <3>3, <3>4
    <3> QED
      BY <3>2, <3>3, <3>5, <3>6
  <2>2. /\ Ends(Tail(Tail(todo))) \in Nat
        /\ Ends(Tail(todo)) = Ends(Tail(Tail(todo))) + 1
    BY <1>1, <2>1, EndsPop
  <2> QED
    BY <2>2
<1>4. Head(todo).op \in {"reupload", "spawn"} => Head(todo).code \in Codes
  BY <1>1 DEF Calls
<1> QED
  BY <1>1, <1>2, <1>3, <1>4

LEMMA StepHeld == TypeOK /\ HeldInv /\ Step => HeldInv'
<1> SUFFICES ASSUME TypeOK, HeldInv, Step PROVE HeldInv'
  OBVIOUS
<1> DEFINE rest == Tail(todo)
<1>1. todo # <<>>
  BY DEF Step, AbortScanSharesThread, WaitForThread, EndScanSharesBatch, ReuploadFiles,
     SpawnScan, RemoveFileSharing, CloseConnection, OpenConnection, NodeChanged, Doing
<1>2. /\ Head(todo) \in Calls /\ rest \in Seq(Calls)
      /\ Ends(rest) \in Nat
      /\ batch = Ends(rest) + (IF Head(todo).op = "end" THEN 1 ELSE 0)
      /\ SpawnsInBatch(rest)
      /\ Head(todo).op = "spawn" => Ends(rest) > 0
      /\ Head(todo).op \in {"reupload", "spawn"} => Head(todo).code \in Codes
  BY <1>1, PopCall
<1> HIDE DEF rest
<1>3. \A s : Then(s) <=> todo' = s \o rest
  BY DEF Then, rest
<1>4. <<>> \o rest = rest
  BY <1>2
<1>5. CASE AbortScanSharesThread
  <2>1. CASE IsScanningShares
    <3>1. id \in Threads /\ todo' = <<Wait(id), Do("end")>> \o rest
      BY <1>3, <1>5, <2>1 DEF AbortScanSharesThread, TypeOK, IsScanningShares
    <3>2. /\ Wait(id) \in Calls /\ Wait(id).op = "wait"
          /\ Do("end") \in Calls /\ Do("end").op = "end"
      BY <3>1, CallsAreCalls
    <3>3. todo' \in Seq(Calls) /\ Ends(todo') = Ends(rest) + 1
      BY <1>2, <3>1, <3>2, EndsPush2
    <3>4. SpawnsInBatch(todo')
      BY <1>2, <3>1, <3>2 DEF SpawnsInBatch
    <3> QED
      BY <1>2, <1>5, <3>3, <3>4 DEF AbortScanSharesThread, HeldInv, Doing, queueVars
  <2>2. CASE ~IsScanningShares
    <3>1. todo' = <<Do("end")>> \o rest
      BY <1>3, <1>5, <2>2 DEF AbortScanSharesThread
    <3>2. Do("end") \in Calls /\ Do("end").op = "end"
      BY CallsAreCalls
    <3>3. todo' \in Seq(Calls) /\ Ends(todo') = Ends(rest) + 1
      BY <1>2, <3>1, <3>2, EndsPush
    <3>4. SpawnsInBatch(todo')
      BY <1>2, <3>1, <3>2 DEF SpawnsInBatch
    <3> QED
      BY <1>2, <1>5, <3>3, <3>4 DEF AbortScanSharesThread, HeldInv, Doing, queueVars
  <2> QED
    BY <2>1, <2>2
<1>6. CASE ReuploadFiles
  <2>1. todo' = <<Do("abort"), Spawn(Head(todo).code), Do("end")>> \o rest
    BY <1>3, <1>6 DEF ReuploadFiles
  <2>2. Head(todo).code \in Codes /\ batch = Ends(rest) /\ batch' = batch + 1
    BY <1>2, <1>6 DEF ReuploadFiles, Doing
  <2>3. /\ Do("abort") \in Calls /\ Do("abort").op = "abort"
        /\ Do("end") \in Calls /\ Do("end").op = "end"
        /\ Spawn(Head(todo).code) \in Calls /\ Spawn(Head(todo).code).op = "spawn"
    BY <2>2, CallsAreCalls
  <2>4. todo' \in Seq(Calls) /\ Ends(todo') = Ends(rest) + 1
    BY <1>2, <2>1, <2>3, EndsPush3
  <2>5. SpawnsInBatch(todo')
    BY <1>2, <2>1, <2>3 DEF SpawnsInBatch
  <2> QED
    BY <1>2, <1>6, <2>2, <2>4, <2>5 DEF ReuploadFiles, HeldInv, queueVars
<1>7. CASE EndScanSharesBatch
  <2>1. todo' = rest /\ batch = Ends(rest) + 1 /\ batch' = batch - 1
    BY <1>2, <1>3, <1>4, <1>7 DEF EndScanSharesBatch, Doing
  <2>2. held' = (IF batch = 1 /\ ~IsScanningShares THEN {} ELSE held)
        /\ UNCHANGED <<id, pending>>
    BY <1>7 DEF EndScanSharesBatch
  <2> QED
    BY <1>2, <2>1, <2>2 DEF HeldInv, IsScanningShares
<1>8. CASE SpawnScan
  <2>1. todo' = rest /\ batch = Ends(rest) /\ Ends(rest) > 0
    BY <1>2, <1>3, <1>4, <1>8 DEF SpawnScan, Doing
  <2>2. UNCHANGED <<pending, held, batch>>
    BY <1>8 DEF SpawnScan, queueVars
  <2> QED
    BY <1>2, <2>1, <2>2 DEF HeldInv
<1>9. CASE WaitForThread \/ RemoveFileSharing \/ CloseConnection \/ OpenConnection
           \/ NodeChanged
  <2>1. todo' = rest /\ batch = Ends(rest)
    BY <1>2, <1>3, <1>4, <1>9 DEF WaitForThread, RemoveFileSharing, CloseConnection,
       OpenConnection, NodeChanged, Doing
  <2>2. UNCHANGED <<id, pending, held, batch>>
    BY <1>9 DEF WaitForThread, RemoveFileSharing, CloseConnection, OpenConnection,
       NodeChanged, queueVars
  <2> QED
    BY <1>2, <2>1, <2>2 DEF HeldInv, IsScanningShares
<1> QED
  BY <1>5, <1>6, <1>7, <1>8, <1>9 DEF Step

\* A handler's first calls: no batch is left over from the handler before.
LEMMA FirstCalls ==
  ASSUME HeldInv, Idle
  PROVE  /\ batch = 0
         /\ held # {} => IsScanningShares
BY EndsNone DEF HeldInv, Idle

\* The calls a handler other than the report's starts with.
PlainCalls == {a \in Calls : a.op \notin {"end", "spawn"}}
Plain(s) == s \in Seq(Calls) /\ \A i \in 1..Len(s) : s[i].op \notin {"end", "spawn"}

LEMMA PlainHandlers ==
  ASSUME NEW a \in PlainCalls, NEW b \in PlainCalls, NEW c \in PlainCalls
  PROVE  Plain(<<>>) /\ Plain(<<a>>) /\ Plain(<<a, b>>) /\ Plain(<<a, b, c>>)
<1>1. Plain(<<>>)
  BY DEF Plain
<1>2. Plain(<<a>>)
  BY DEF Plain, PlainCalls
<1>3. Plain(<<a, b>>)
  BY DEF Plain, PlainCalls
<1>4. Plain(<<a, b, c>>)
  BY DEF Plain, PlainCalls
<1> QED
  BY <1>1, <1>2, <1>3, <1>4

\* They end no batch that they have not begun.
LEMMA HandlerHeld ==
  ASSUME HeldInv, Idle, UNCHANGED <<id, batch>>, Plain(todo'), pending' \in Codes,
         held' = held \/ IsScanningShares
  PROVE  HeldInv'
<1>1. batch' = 0 /\ (held # {} => IsScanningShares)
  BY FirstCalls
<1>2. EndsAt(todo') = {} /\ todo' \in Seq(Calls)
  BY DEF EndsAt, Plain
<1>3. Ends(todo') = 0
  BY <1>2, FS_EmptySet DEF Ends
<1>4. SpawnsInBatch(todo')
  BY DEF SpawnsInBatch, Plain
<1> QED
  BY <1>1, <1>2, <1>3, <1>4 DEF HeldInv, IsScanningShares

\* The report ends a batch of its own, after the rescan that was asked for.
LEMMA ReportHeld == HeldInv /\ ScanThreadReport => HeldInv'
<1> SUFFICES ASSUME HeldInv, ScanThreadReport PROVE HeldInv'
  OBVIOUS
<1>1. pending \in Codes /\ {} \in Codes
  BY DEF HeldInv, Codes
<1>2. Do("end") \in Calls /\ Do("end").op = "end"
  BY CallsAreCalls
<1>3. batch' = 1 /\ pending' = {} /\ id' = NoThread
  BY FirstCalls DEF ScanThreadReport
<1>4. CASE pending = {}
  <2>1. todo' = <<Do("end")>>
    BY <1>4 DEF ScanThreadReport
  <2>2. todo' \in Seq(Calls) /\ EndsAt(todo') = {1} /\ SpawnsInBatch(todo')
    BY <1>2, <2>1 DEF EndsAt, SpawnsInBatch
  <2>3. Ends(todo') = 1
    BY <2>2, FS_Singleton DEF Ends
  <2> QED
    BY <1>1, <1>3, <2>2, <2>3 DEF HeldInv
<1>5. CASE pending # {}
  <2>1. todo' = <<Reupload(pending)>> \o <<Do("end")>>
    BY <1>5 DEF ScanThreadReport
  <2>2. Reupload(pending) \in Calls /\ Reupload(pending).op = "reupload"
    BY <1>1, CallsAreCalls
  <2>3. /\ todo' \in Seq(Calls) /\ Len(todo') = 2
        /\ todo'[1] = Reupload(pending) /\ todo'[2] = Do("end")
    BY <1>2, <2>1, <2>2
  <2>4. EndsAt(todo') = {2} /\ SpawnsInBatch(todo')
    BY <1>2, <2>2, <2>3 DEF EndsAt, SpawnsInBatch
  <2>5. Ends(todo') = 1
    BY <2>4, FS_Singleton DEF Ends
  <2> QED
    BY <1>1, <1>3, <2>3, <2>4, <2>5 DEF HeldInv
<1> QED
  BY <1>4, <1>5

LEMMA MessageHeld == HeldInv /\ Message => HeldInv'
<1> SUFFICES ASSUME HeldInv, Message PROVE HeldInv'
  OBVIOUS
<1>1. pending \in Codes /\ {} \in Codes
  BY DEF HeldInv, Codes
<1>2. ASSUME NEW what \in {"removes", "adds"}, VolumesChanged(what) PROVE HeldInv'
  <2>1. pending \cup {what} \in Codes /\ {what} \in Codes
    BY <1>1 DEF Codes
  <2>2. todo' = <<>> \/ todo' = <<Reupload({what})>>
    BY <1>2 DEF VolumesChanged, Handler
  <2>3. Reupload({what}) \in PlainCalls
    BY <2>1, CallsAreCalls DEF PlainCalls
  <2>4. Plain(todo')
    BY <2>2, <2>3, PlainHandlers
  <2> QED
    BY <1>1, <1>2, <2>1, <2>4, HandlerHeld DEF VolumesChanged, Handler
<1>3. CASE NodeMonitor \/ SetFirewalled \/ ConnectToServer \/ DisconnectFromServer
           \/ SessionConnected \/ \E mark \in {"on", "off"} : SetFileSharingEnabled(mark)
  <2>1. /\ Idle /\ UNCHANGED <<id, batch, pending, held>>
        /\ \/ todo' = <<>> \/ todo' = <<Reupload({})>> \/ todo' = <<Do("node")>>
           \/ todo' = <<Do("abort"), Reupload({})>>
           \/ todo' = <<Do("abort"), Do("removeSharing")>>
           \/ todo' = <<Do("abort"), Do("close"), Do("connect")>>
           \/ todo' = <<Do("abort"), Do("close")>>
    BY <1>3 DEF NodeMonitor, SetFirewalled, ConnectToServer, DisconnectFromServer,
       SessionConnected, SetFileSharingEnabled, Handler, queueVars
  <2>2. \A a \in {Do("node"), Do("abort"), Do("close"), Do("connect"),
                  Do("removeSharing"), Reupload({})} :
          a \in PlainCalls
    BY <1>1, CallsAreCalls DEF PlainCalls
  <2>3. Plain(todo')
    BY <2>1, <2>2, PlainHandlers
  <2> QED
    BY <1>1, <2>1, <2>3, HandlerHeld
<1>4. ASSUME NEW u, FileList(u) PROVE HeldInv'
  <2>1. todo' = <<>> /\ Idle /\ IsScanningShares /\ UNCHANGED <<id, batch, pending>>
    BY <1>4 DEF FileList, Handler
  <2>2. Plain(todo')
    BY <2>1 DEF Plain
  <2> QED
    BY <1>1, <2>1, <2>2, HandlerHeld
<1> QED
  BY <1>2, <1>3, <1>4, ReportHeld DEF Message

LEMMA NextHeld == TypeOK /\ HeldInv /\ [Next]_vars => HeldInv'
<1>1. ASSUME HeldInv, NEW t \in Threads, ScanStep(t) \/ NoSharedFolder(t) PROVE HeldInv'
  BY <1>1 DEF ScanStep, NoSharedFolder, HeldInv, queueVars, IsScanningShares
<1>2. HeldInv /\ UNCHANGED vars => HeldInv'
  BY DEF HeldInv, vars, queueVars, IsScanningShares
<1> QED
  BY <1>1, <1>2, StepHeld, MessageHeld DEF Next

\* An upload whose list of files came during a scan goes on as soon as the looper
\* is back from the handler that ended the scan: through whichever nesting of
\* AbortScanSharesThread(), ReuploadFiles() and the report the thread ID was
\* cleared, the batch count was exact and the outermost end released it.
THEOREM HeldOnlyWhileScanningHolds == Spec => []HeldOnlyWhileScanning
<1>1. Init => HeldInv
  BY EndsNone DEF Init, HeldInv, Codes, SpawnsInBatch
<1>2. HeldInv => HeldOnlyWhileScanning
  BY FirstCalls DEF HeldOnlyWhileScanning
<1>3. RescanInv => TypeOK
  BY DEF RescanInv
<1> QED
  BY <1>1, <1>2, <1>3, InitRescan, NextRescan, NextHeld, PTL DEF Spec
=============================================================================
