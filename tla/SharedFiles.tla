----------------------------- MODULE SharedFiles -----------------------------
(***************************************************************************)
(* What BeShare shares (ShareNetClient.cpp): the files on the disk, the    *)
(* node monitor messages that tell of their changes, the tables            *)
(* _watchedDirs, _nodeToEntry and _nameToEntry, and the nodes of the files *)
(* on the server, which are set and removed partly at once and partly      *)
(* through the low-priority queue.                                         *)
(*                                                                         *)
(* A scan holds _dirsLock for its whole walk while the disk goes on        *)
(* changing; node monitor messages wait for it.  An abort waits for the    *)
(* thread that _scanSharesThreadID names.  The report of an aborted scan   *)
(* takes that name from the scan that runs, which goes on as a stray until *)
(* it looks for its name again: nobody waits for it, and what it has found *)
(* is sent.  How the looper and a stray get into each other's way within   *)
(* one call is ScanShares' subject.  Rescans after a mount, symbolic links *)
(* and attributes are left out.                                            *)
(***************************************************************************)
EXTENDS Naturals, Sequences, FiniteSets

CONSTANTS
  Files,       \* nodes (inodes) of files
  Names,       \* file names
  Dirs,        \* the shared folder and folders that may be in it
  Root,        \* the shared folder itself
  Gone,        \* the place of a file that is not there, or not in a folder of Dirs
  ChunkSize,   \* files in one SETDATA message of a scan, 20 in the code
  MaxChanges,  \* bound on the changes of the disk
  MaxCommands  \* bound on the user's commands and lost connections

ASSUME RootAssumption == Root \in Dirs
ASSUME FilesAssumption == IsFiniteSet(Files)
ASSUME NamesAssumption == Names \cap Dirs = {}
ASSUME GoneAssumption == Gone \notin Dirs \X Names
ASSUME ChunkSizeAssumption == ChunkSize \in Nat \ {0}

VARIABLES
  disk,     \* where each file is, which folders are in the shared folder
  changes,  \* changes of the disk so far
  events,   \* B_NODE_MONITOR messages in the looper's queue: a file was created, moved or
            \* removed, a folder was moved into or out of the shared folder
  tab,      \* the tables of the client
  out,      \* what was sent: the server's nodes, the low-priority queue and its flag
  scan,     \* the scan thread that has a name, the folders of whichever thread holds
            \* _dirsLock, whether that thread had a name when it last looked, and the
            \* number of strays that wait for the lock
  win,      \* the window's side: connection, sharing, reports, file count
  quiet,    \* history: nothing was read while a message about it waited, and no scan
            \* lost its name to another's report
  forced,   \* history: SetFirewalled() has uploaded files while sharing is disabled
  loose     \* history: strays were left when the sharing or the connection was ended

vars == <<disk, changes, events, tab, out, scan, win, quiet, forced, loose>>

Places == Dirs \X Names
Subfolders == Dirs \ {Root}

At(place) == \E f \in Files : disk.at[f] = place
FilesIn(dir) == {f \in Files : disk.at[f] # Gone /\ disk.at[f][1] = dir}
NamesIn(dir) == {disk.at[f][2] : f \in FilesIn(dir)}
SharedNames == UNION {NamesIn(d) : d \in disk.inside}

\* A message about the file waits, or one about the folder or a file put into it.
Waits(evs, f) ==
  \E i \in DOMAIN evs : evs[i].op \in {"created", "moved", "removed"} /\ evs[i].node = f
WaitsInto(evs, d) ==
  \E i \in DOMAIN evs :
    \/ evs[i].op \in {"dirIn", "dirOut"} /\ evs[i].node = d
    \/ evs[i].op \in {"created", "moved"} /\ evs[i].to # Gone /\ evs[i].to[1] = d

-----------------------------------------------------------------------------
(* The server's nodes and the low-priority queue *)

Applied(server, m) == IF m.op = "set" THEN server \cup m.names ELSE server \ m.names

\* SendMessageToSessions(): at once, ...
SendHigh(o, m) == [o EXCEPT !.server = Applied(@, m)]

\* ... or through the queue, of which something is under way until the connection
\* says that its output queues are drained.
SendLow(o, m) ==
  IF o.sending THEN [o EXCEPT !.low = Append(@, m)]
  ELSE [o EXCEPT !.server = Applied(@, m), !.sending = TRUE]

\* Everything that is queued dropped, everything on the server removed.
Removed == [server |-> {}, low |-> <<>>, sending |-> FALSE]

-----------------------------------------------------------------------------
(* The tables *)

\* A name's entry in _nameToEntry is its count and the place of the file it was made
\* with.  twice is history: the names that were counted again since.
EmptyTables ==
  [watched |-> {}, entry |-> [f \in Files |-> Gone], count |-> [n \in Names |-> 0],
   ref |-> [n \in Names |-> Gone], twice |-> {}]

\* The place stays that of the first file.
RefFilename(t, place) ==
  LET name == place[2] IN
  IF t.count[name] > 0 THEN [t EXCEPT !.count[name] = @ + 1, !.twice = @ \cup {name}]
  ELSE [t EXCEPT !.count[name] = 1, !.ref[name] = place, !.twice = @ \ {name}]

\* The name's entry goes at the first removal, whatever its count.
UnrefAlways(t, name) ==
  [t EXCEPT !.count[name] = 0, !.ref[name] = Gone, !.twice = @ \ {name}]

\* The place stays, though the file that has gone may be the one that was there.
UnrefFilename(t, name) ==
  IF t.count[name] > 1 THEN [t EXCEPT !.count[name] = @ - 1]
  ELSE [t EXCEPT !.count[name] = 0, !.ref[name] = Gone, !.twice = @ \ {name}]

\* FindSharedFile(), for the uploads.
FindSharedFile(name) == tab.ref[name]

\* The number of names in _nameToEntry.
NumItems(t) == Cardinality({n \in Names : t.count[n] > 0})

\* RefFilename() and _nodeToEntry.Put() of a file that was found at a place.
AddFile(t, f, place) == [RefFilename(t, place) EXCEPT !.entry[f] = place]

\* NodeRemoved() of a file: s is the pair of tables and output.  Without a connection the
\* name keeps its count.
FileRemoved(s, f) ==
  IF s.tab.entry[f] = Gone THEN s
  ELSE LET name == s.tab.entry[f][2] IN
       [tab |-> [(IF win.mtt = "none" THEN s.tab ELSE UnrefFilename(s.tab, name))
                   EXCEPT !.entry[f] = Gone],
        out |-> SendLow(s.out, [op |-> "remove", names |-> {name}])]

\* NodeCreated() of a file: its folder is watched and there is a file (any file)
\* at the place the message names.
FileCreated(s, f, place) ==
  IF place # Gone /\ place[1] \in s.tab.watched /\ At(place)
  THEN [tab |-> AddFile(s.tab, f, place),
        out |-> SendHigh(s.out, [op |-> "set", names |-> {place[2]}])]
  ELSE s

\* RemoveWatchedDirectory(): what is in the folder now is removed in one batch.
DirRemoved(s, dir) ==
  LET known == {f \in FilesIn(dir) : s.tab.entry[f] # Gone}
      gone(name) == IF win.mtt = "none" THEN 0
                    ELSE Cardinality({f \in known : s.tab.entry[f][2] = name})
      stays == {n \in Names : s.tab.count[n] > gone(n)}
      names == {s.tab.entry[f][2] : f \in known}
  IN [tab |-> [watched |-> s.tab.watched \ {dir},
               entry |-> [f \in Files |-> IF f \in known THEN Gone ELSE s.tab.entry[f]],
               count |-> [n \in Names |-> IF n \in stays THEN s.tab.count[n] - gone(n) ELSE 0],
               ref |-> [n \in Names |-> IF n \in stays THEN s.tab.ref[n] ELSE Gone],
               twice |-> s.tab.twice \cap stays],
      out |-> IF names = {} THEN s.out ELSE SendLow(s.out, [op |-> "remove", names |-> names])]

\* AddWatchedDirectory(), called by the looper, of a folder that is not watched yet.
DirCreated(s, dir) ==
  LET here == FilesIn(dir)
      found(name) == Cardinality({f \in here : disk.at[f][2] = name})
  IN [tab |-> [watched |-> s.tab.watched \cup {dir},
               entry |-> [f \in Files |-> IF f \in here THEN disk.at[f] ELSE s.tab.entry[f]],
               count |-> [n \in Names |-> s.tab.count[n] + found(n)],
               ref |-> [n \in Names |-> IF s.tab.count[n] = 0 /\ found(n) > 0
                                         THEN <<dir, n>> ELSE s.tab.ref[n]],
               twice |-> s.tab.twice
                           \cup {n \in Names : found(n) > 0 /\ s.tab.count[n] > 0}],
      out |-> IF here = {} THEN s.out
              ELSE SendLow(s.out, [op |-> "set", names |-> NamesIn(dir)])]

-----------------------------------------------------------------------------
NoScan == [state |-> "none", frames |-> <<>>, go |-> FALSE, strays |-> 0]

Init ==
  /\ disk = [at |-> [f \in Files |-> Gone], inside |-> Dirs, monitored |-> {}]
  /\ changes = 0
  /\ events = <<>>
  /\ tab = EmptyTables
  /\ out = Removed
  /\ scan = NoScan
  /\ win = [mtt |-> "none", sharing |-> TRUE, reports |-> 0, lastSent |-> Gone,
            runner |-> FALSE, commands |-> 0]
  /\ quiet = TRUE
  /\ forced = FALSE /\ loose = FALSE

\* The disk changes; the client is told if it watches one of the folders.
Changed(at, inside, folders, event) ==
  /\ changes < MaxChanges
  /\ changes' = changes + 1
  /\ disk' = [disk EXCEPT !.at = at, !.inside = inside]
  /\ events' = IF folders \cap disk.monitored = {} THEN events ELSE Append(events, event)
  /\ UNCHANGED <<tab, out, scan, win, quiet, forced, loose>>

\* Made there, or moved there from a folder that BeShare knows nothing of.
CreateFile(f, place, op) ==
  /\ disk.at[f] = Gone /\ ~At(place)
  /\ Changed([disk.at EXCEPT ![f] = place], disk.inside, {place[1]},
             [op |-> op, node |-> f, to |-> place])

RemoveFile(f) ==
  /\ disk.at[f] # Gone
  /\ Changed([disk.at EXCEPT ![f] = Gone], disk.inside, {disk.at[f][1]},
             [op |-> "removed", node |-> f])

\* Renamed, or moved to another folder, perhaps one that BeShare knows nothing of.
MoveFile(f, place) ==
  /\ disk.at[f] # Gone /\ (place = Gone \/ ~At(place))
  /\ Changed([disk.at EXCEPT ![f] = place], disk.inside,
             {disk.at[f][1]} \cup (IF place = Gone THEN {} ELSE {place[1]}),
             [op |-> "moved", node |-> f, to |-> place])

MoveDir(d) ==
  IF d \in disk.inside
  THEN Changed(disk.at, disk.inside \ {d}, {Root}, [op |-> "dirOut", node |-> d])
  ELSE Changed(disk.at, disk.inside \cup {d}, {Root}, [op |-> "dirIn", node |-> d])

DiskChanges ==
  \/ \E f \in Files :
       \/ RemoveFile(f)
       \/ MoveFile(f, Gone)
       \/ \E p \in Places : MoveFile(f, p) \/ \E op \in {"created", "moved"} : CreateFile(f, p, op)
  \/ \E d \in Subfolders : MoveDir(d)

-----------------------------------------------------------------------------
(* The scan threads *)

\* The thread that holds the lock is the one that has the name, or a stray.
LockFree == scan.frames = <<>>
Named == scan.state = "walking"

\* A folder that is filed but not given to watch_node().
EnterUnmonitored(d) ==
  /\ tab' = [tab EXCEPT !.watched = @ \cup {d}]
  /\ quiet' = (quiet /\ ~WaitsInto(events, d))
  /\ UNCHANGED disk

\* AddWatchedDirectory() of a folder: watched first, read afterwards.
EnterDirectory(d) ==
  /\ tab' = [tab EXCEPT !.watched = @ \cup {d}]
  /\ disk' = [disk EXCEPT !.monitored = @ \cup {d}]
  /\ quiet' = (quiet /\ ~WaitsInto(events, d))

Frame(d) == [dir |-> d, left |-> Names \cup (IF d = Root THEN Subfolders ELSE {}), names |-> {}]

\* A thread ends with a report.
Reported == win' = [win EXCEPT !.reports = @ + 1]

\* A stray may have filed the shared folder meanwhile: then there is nothing to do.
StartScan ==
  /\ scan.state = "started" /\ LockFree
  /\ IF Root \in tab.watched
     THEN scan' = [scan EXCEPT !.state = "none"] /\ Reported /\ UNCHANGED <<tab, disk, quiet>>
     ELSE /\ scan' = [scan EXCEPT !.state = "walking", !.frames = <<Frame(Root)>>, !.go = TRUE]
          /\ EnterDirectory(Root)
          /\ UNCHANGED win
  /\ UNCHANGED <<changes, events, out, forced, loose>>

\* A stray that gets the lock files the shared folder, and sees that it has no name.
StrayStarts ==
  /\ scan.strays > 0 /\ LockFree
  /\ scan' = [scan EXCEPT !.strays = @ - 1]
  /\ Reported
  /\ IF Root \in tab.watched THEN UNCHANGED <<tab, disk, quiet>> ELSE EnterDirectory(Root)
  /\ UNCHANGED <<changes, events, out, forced, loose>>

Top == scan.frames[Len(scan.frames)]
WithTop(frame) == [scan EXCEPT !.frames[Len(scan.frames)] = frame]

\* An entry is dealt with; the thread looks for its name before the next one.
Done(sc) == [sc EXCEPT !.go = Named]

\* What is found is sent, if there is a connection.
Queued(names) ==
  IF names = {} \/ win.mtt = "none" THEN out ELSE SendLow(out, [op |-> "set", names |-> names])

\* The next entry of the folder is, or was in between, a file with this name.
ReadFile(name) ==
  /\ ~LockFree /\ name \in Top.left \cap Names
  /\ LET place == <<Top.dir, name>>
         names == Top.names \cup {name}
         full == Cardinality(names) >= ChunkSize
         frame == [Top EXCEPT !.left = @ \ {name}] IN
     IF At(place)
     THEN LET f == CHOOSE f \in Files : disk.at[f] = place IN
          /\ scan.go
          /\ tab' = AddFile(tab, f, place)
          /\ out' = IF full THEN Queued(names) ELSE out
          /\ scan' = Done(WithTop([frame EXCEPT !.names = IF full THEN {} ELSE names]))
          /\ quiet' = (quiet /\ ~Waits(events, f))
     ELSE scan' = WithTop(frame) /\ UNCHANGED <<tab, out, quiet>>
  /\ UNCHANGED <<disk, changes, events, win, forced, loose>>

\* A folder in the shared folder, unless it is watched already.
ReadDirectory(d) ==
  /\ ~LockFree /\ d \in Top.left \cap Subfolders
  /\ d \in disk.inside => scan.go
  /\ LET popped == WithTop([Top EXCEPT !.left = @ \ {d}]) IN
     IF d \in disk.inside \ tab.watched
     THEN scan' = Done([popped EXCEPT !.frames = Append(@, Frame(d))]) /\ EnterDirectory(d)
     ELSE /\ scan' = IF d \in disk.inside THEN Done(popped) ELSE popped
          /\ UNCHANGED <<tab, disk, quiet>>
  /\ UNCHANGED <<changes, events, out, win, forced, loose>>

\* The folder is left for the one around it; after the outermost one the thread reports
\* and ends.
Returned ==
  LET rest == SubSeq(scan.frames, 1, Len(scan.frames) - 1) IN
  IF rest = <<>>
  THEN /\ scan' = [scan EXCEPT !.frames = <<>>, !.go = FALSE,
                               !.state = IF Named THEN "none" ELSE @]
       /\ Reported
  ELSE scan' = Done([scan EXCEPT !.frames = rest]) /\ UNCHANGED win

\* Nothing is left in the folder.  The last files found are sent without another look.
LeaveDirectory ==
  /\ ~LockFree /\ Top.left = {}
  /\ out' = Queued(Top.names)
  /\ Returned
  /\ UNCHANGED <<disk, changes, events, tab, quiet, forced, loose>>

\* The stray sees, at the next entry, that it has no name: it leaves this folder without
\* sending what it found, but the folder around it like any other.
StrayAborts ==
  /\ ~LockFree /\ ~Named
  /\ \/ \E n \in Top.left \cap Names : At(<<Top.dir, n>>)
     \/ Top.left \cap Subfolders \cap disk.inside # {}
  /\ Returned
  /\ UNCHANGED <<disk, changes, events, tab, out, quiet, forced, loose>>

ScanThread ==
  \/ StartScan \/ StrayStarts
  \/ \E n \in Names : ReadFile(n)
  \/ \E d \in Subfolders : ReadDirectory(d)
  \/ LeaveDirectory \/ StrayAborts

-----------------------------------------------------------------------------
(* The looper *)

\* UploadSharedFileCount(), if the lock is free: once the count that was sent is
\* the right one, the runner that repeats the call is deleted.
UploadSharedFileCount(w, t, locked) ==
  LET fileCount == IF w.sharing THEN NumItems(t) ELSE 0 IN
  CASE locked -> w
    [] ~locked /\ fileCount = w.lastSent -> [w EXCEPT !.runner = FALSE]
    [] ~locked /\ fileCount # w.lastSent ->
         [w EXCEPT !.lastSent = IF w.mtt = "none" THEN @ ELSE fileCount]

\* Called with the lock held.
StartFileCountRunner(w, t) ==
  IF w.runner THEN w ELSE [UploadSharedFileCount(w, t, FALSE) EXCEPT !.runner = TRUE]

CheckFileCount ==
  /\ win.runner
  /\ win' = UploadSharedFileCount(win, tab, ~LockFree)
  /\ UNCHANGED <<disk, changes, events, tab, out, scan, quiet, forced, loose>>

\* A moved file is added at its new place and left at the old one.
MovedOnlyAdds(s, e) ==
  CASE e.op \in {"created", "moved"} -> FileCreated(s, e.node, e.to)
    [] e.op = "removed" -> FileRemoved(s, e.node)
    [] e.op \in {"dirIn", "dirOut"} -> s

\* What one B_NODE_MONITOR message does to the tables and the server.
Handled(s, e) ==
  CASE e.op = "created" -> FileCreated(s, e.node, e.to)
    [] e.op = "moved" -> FileCreated(FileRemoved(s, e.node), e.node, e.to)
    [] e.op = "removed" -> FileRemoved(s, e.node)
    [] e.op = "dirOut" -> IF e.node \in s.tab.watched THEN DirRemoved(s, e.node) ELSE s
    [] e.op = "dirIn" ->
         LET t == IF e.node \in s.tab.watched THEN DirRemoved(s, e.node) ELSE s IN
         IF Root \in t.tab.watched /\ e.node \in disk.inside THEN DirCreated(t, e.node) ELSE t

\* A B_NODE_MONITOR message, ignored while sharing is disabled.
NodeMonitor ==
  /\ events # <<>> /\ LockFree
  /\ events' = Tail(events)
  /\ IF win.sharing
     THEN LET s == Handled([tab |-> tab, out |-> out], Head(events)) IN
          /\ tab' = s.tab
          /\ out' = IF win.mtt = "none" THEN out ELSE s.out
          /\ win' = StartFileCountRunner(win, s.tab)
          /\ disk' = [disk EXCEPT !.monitored = @ \cup s.tab.watched]
          /\ quiet' = (quiet /\ \A d \in s.tab.watched \ tab.watched :
                                 ~WaitsInto(events', d) /\ \A f \in FilesIn(d) : ~Waits(events', f))
     ELSE UNCHANGED <<tab, out, win, disk, quiet>>
  /\ UNCHANGED <<changes, scan, forced, loose>>

\* MTT_EVENT_OUTPUT_QUEUES_DRAINED: up to 4k of messages go out, at least one.
Drained ==
  /\ out.sending
  /\ IF out.low = <<>> THEN out' = [out EXCEPT !.sending = FALSE]
     ELSE out' = [out EXCEPT !.server = Applied(@, Head(out.low)), !.low = Tail(@)]
  /\ UNCHANGED <<disk, changes, events, tab, scan, win, quiet, forced, loose>>

Command == win.commands < MaxCommands

\* UnwatchAllDirs(): the watched folders are no longer monitored, the tables empty.
UnwatchAllDirs ==
  /\ tab' = EmptyTables
  /\ disk' = [disk EXCEPT !.monitored = @ \ tab.watched]

\* Everything is removed but what waits in the queue.
RemoveKeepsQueue ==
  /\ UnwatchAllDirs
  /\ out' = IF win.mtt = "none" THEN out ELSE [out EXCEPT !.server = {}]

\* RemoveFileSharing().
RemoveFileSharing ==
  /\ UnwatchAllDirs
  /\ out' = IF win.mtt = "none" THEN out ELSE [out EXCEPT !.server = {}, !.low = <<>>]

\* AbortScanSharesThread(): the thread that has the name ends, and reports like any other.
\* The looper waits for it, and if it waits for the lock, for the stray that holds it.
\* Nobody waits for strays.
AbortWaits == scan.state = "started" /\ ~LockFree
Aborted ==
  IF Named THEN [scan EXCEPT !.state = "none", !.frames = <<>>, !.go = FALSE]
  ELSE [scan EXCEPT !.state = "none"]
AbortedReports == IF scan.state = "none" THEN win.reports ELSE win.reports + 1
StraysStay == scan.strays > 0 \/ Aborted.frames # <<>>

\* ReuploadFiles(0).
ReuploadFiles ==
  /\ ~AbortWaits
  /\ IF win.mtt = "none" THEN scan' = Aborted /\ UNCHANGED <<tab, disk, out>>
     ELSE RemoveFileSharing /\ scan' = [Aborted EXCEPT !.state = "started"]

\* The thread that has the name, if any, is a stray from now on.
NameTaken == [scan EXCEPT !.state = "none", !.strays = IF scan.state = "started" THEN @ + 1 ELSE @]

\* The files that were found are not counted.
ReportWithoutCount ==
  /\ win.reports > 0
  /\ scan' = NameTaken
  /\ win' = [win EXCEPT !.reports = @ - 1]
  /\ quiet' = (quiet /\ scan.state = "none")
  /\ UNCHANGED <<disk, changes, events, tab, out, forced, loose>>

\* The report of a scan.  It does not say of which, and takes the name from the one that
\* runs now.
ScanThreadReport ==
  /\ win.reports > 0
  /\ scan' = NameTaken
  /\ win' = UploadSharedFileCount([win EXCEPT !.reports = @ - 1], tab, ~LockFree)
  /\ quiet' = (quiet /\ scan.state = "none")
  /\ UNCHANGED <<disk, changes, events, tab, out, forced, loose>>

\* DisconnectFromServer(): the server drops the nodes with the session.
Disconnected ==
  /\ ~AbortWaits
  /\ IF win.mtt = "none" THEN UNCHANGED <<tab, disk>> ELSE UnwatchAllDirs
  /\ out' = Removed
  /\ scan' = Aborted
  /\ forced' = FALSE /\ loose' = StraysStay
  /\ UNCHANGED <<changes, events, quiet>>

\* The window's part of it; for ConnectToServer() a new connection follows.
SetConnection(mtt) ==
  /\ Command
  /\ win' = [win EXCEPT !.mtt = mtt, !.commands = @ + 1, !.lastSent = Gone,
                        !.runner = FALSE, !.reports = AbortedReports]

ConnectToServer == SetConnection("connecting") /\ Disconnected

DisconnectFromServer == win.mtt # "none" /\ SetConnection("none") /\ Disconnected

\* MTT_EVENT_SESSION_CONNECTED.
SessionConnected ==
  /\ win.mtt = "connecting"
  /\ IF win.sharing
     THEN ReuploadFiles /\ win' = [win EXCEPT !.mtt = "connected", !.reports = AbortedReports]
     ELSE win' = [win EXCEPT !.mtt = "connected"] /\ UNCHANGED <<tab, disk, out, scan>>
  /\ UNCHANGED <<changes, events, quiet, forced, loose>>

SetFileSharingEnabled ==
  /\ Command
  /\ LET w == [win EXCEPT !.sharing = ~@, !.commands = @ + 1, !.reports = AbortedReports] IN
     IF w.sharing THEN ReuploadFiles /\ win' = w
     ELSE /\ ~AbortWaits /\ RemoveFileSharing /\ scan' = Aborted
          /\ win' = UploadSharedFileCount(w, EmptyTables, Aborted.frames # <<>>)
  /\ forced' = FALSE /\ loose' = StraysStay
  /\ UNCHANGED <<changes, events, quiet>>

\* SetFirewalled() uploads the files under the other name of their folder, and does
\* not ask whether they are shared.
SetFirewalled ==
  /\ Command /\ win.mtt = "connected"
  /\ win' = [win EXCEPT !.commands = @ + 1, !.reports = AbortedReports]
  /\ ReuploadFiles
  /\ forced' = (forced \/ ~win.sharing)
  /\ UNCHANGED <<changes, events, quiet, loose>>

Looper ==
  \/ NodeMonitor \/ Drained \/ CheckFileCount \/ ScanThreadReport
  \/ ConnectToServer \/ SessionConnected \/ DisconnectFromServer \/ SetFileSharingEnabled \/ SetFirewalled

Next == DiskChanges \/ ScanThread \/ Looper

Spec == Init /\ [][Next]_vars

-----------------------------------------------------------------------------
(* Properties *)

\* The files of _nodeToEntry with a name.
Listed(name) == {f \in Files : tab.entry[f] # Gone /\ tab.entry[f][2] = name}

\* A file that the client lists can be found when another user asks for it
\* (FindSharedFile()), whatever the scans and the node monitor messages did: the reference
\* count of a name is never lower than the number of files that have it, so that the
\* name's entry is there, and it leads to the file, unless several files of that name were
\* counted since the entry was made.
ListedIsFindable ==
  \A name \in Names :
    /\ Cardinality(Listed(name)) <= tab.count[name]
    /\ name \notin tab.twice => \A f \in Listed(name) : FindSharedFile(name) = tab.entry[f]

\* If nothing was read while a message about it waited, the counts are exact, so that a
\* name leaves the index, and the number of files shown to the others, with its last file.
CountsExact ==
  quiet => \A name \in Names : Cardinality(Listed(name)) = tab.count[name]

\* Nothing is under way between the disk, the client and the server.
Settled ==
  /\ win.mtt = "connected" /\ events = <<>> /\ win.reports = 0 /\ scan = NoScan
  /\ out.low = <<>>

\* Once everything has been handled, every file in a folder of the shared folder is
\* listed at its place, and the server offers no file that is not there.  The disk may
\* have changed before, during and after the scan, also in the folder that is being read,
\* and between a change and its message.  What is excluded (quiet): a message about a
\* folder, or about a file put into it, that still waited when the folder was entered; one
\* about a file that still waited when the file was read; and the running scan losing its
\* name to an old report.
IndexAgrees ==
  Settled /\ win.sharing /\ quiet =>
    /\ \A f \in Files :
         disk.at[f] # Gone /\ disk.at[f][1] \in disk.inside => tab.entry[f] = disk.at[f]
    /\ out.server \subseteq SharedNames

\* With file sharing disabled no scan runs, nothing of ours is on the server, nor will be by
\* what is still queued: unless SetFirewalled() has uploaded it, or scans were running
\* without a name when the sharing was disabled (or the connection ended), for which
\* AbortScanSharesThread() does not wait.
NothingWhileDisabled ==
  ~win.sharing /\ ~forced /\ ~loose => out.server = {} /\ out.low = <<>> /\ scan = NoScan

\* The number of files that the others see is the number in the index, or a runner
\* will correct it.
CountIsAnnounced == Settled /\ win.sharing => win.runner \/ win.lastSent = NumItems(tab)
=============================================================================
