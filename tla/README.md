# BeShare: a TLA+ model of its transfers, sharing, server and threads

BeShare is a peer-to-peer file-sharing client for BeOS and Haiku. It finds other
users and their files through a MUSCLE server and moves files directly between
the clients. This directory holds TLA+ modules for the parts of it whose
correctness depends on the order of events, TLC configurations that check them
on small instances, and proofs that TLAPS checks for every instance.

Paths below are relative to `src/source/`; `beshare/` is the client and `muscle/`
the MUSCLE library it is built on.

## 1. Inventory

| Part | State it keeps | Operations | Hard behaviour |
|---|---|---|---|
| Transfer list and slots (`beshare/ShareWindow.cpp`, `ShareFileTransfer.cpp`) | `_transferList`; per session: direction, connection flags, `_isWaitingOnLocal`, `_beginTransferEnabled`, clock, files left; the limits | `DequeueTransferSessions`, `BeginTransfer`, `AbortSession`, `RestartSession`, `RequeueTransfer`, halt/resume/cancel/move, moribund check, `REMOVE_SESSION` | handlers that call each other recursively; deletion by posted message; timeouts; users that come and go |
| File transfer protocol (`ShareFileTransfer.cpp`) | offsets, MD5 results, current file, drain notifications, saved file list | one handler per event or message | two notifications under way, threads of an earlier connection, resume |
| Thread mailboxes (`muscle/system/Thread.cpp`, `MessageTransceiverThread.cpp`) | two locked queues, signal sockets, thread running or not | send, signal, start, shutdown, join | signal only on empty to non-empty, outside the lock |
| Scan of the shared files (`ShareNetClient.cpp`) | `_scanSharesThreadID`, batch count, pending rescans, `_dirsLock` | `ReuploadFiles`, `AbortScanSharesThread`, report, node monitor | looper and scan thread; a report that does not name its thread |
| Shared-file index and low-priority queue (`ShareNetClient.cpp`) | `_watchedDirs`, `_nameToEntry` with counts, `_nodeToEntry`, `_lowPriorityMessages`, the announced file count | `AddWatchedDirectory`, `RemoveWatchedDirectory`, `NodeCreated`, `NodeRemoved`, `SendMessageToSessions`, `CheckSendMoreLowPriorityMessages`, `UploadSharedFileCount` | the disk changes while it is read, and messages tell of it later; two priorities |
| Server connection (`ShareNetClient.cpp`, `ShareWindow.cpp`) | `_mtt`, `_isConnected`, reconnect timer and count | connect, disconnect, `BeginAutoReconnect` | timer against user against lost connection |
| Users and queries (`ShareWindow.cpp`, `ShareNetClient.cpp`) | `_users`, results, ping count, query on or off | `PutUser`, `RemoveUser`, `StartQuery`, `StopQuery`, PONG, data items | late answers to an earlier query, users who leave meanwhile |
| MUSCLE server (`muscle/reflector/StorageReflectSession.cpp`, `DataNode.cpp`) | tree of nodes, subscriptions, counts of subscriptions at the nodes, outgoing messages | attach, leave, set, remove, subscribe, unsubscribe, jettison, ping | counts that must agree with overlapping patterns over any order of changes |
| Hashtable (`muscle/util/Hashtable.h`) | one array with buckets, chains and free entries, an order, iterators | put, remove, grow, move, sort, clear, iterate | the table changes under its iterators |
| Bans, settings, chat, user interface, translations | tables and widgets | text parsing, formatting | little |

How they interact: everything in the window runs in one looper thread, one
message at a time. Each transfer and the server connection has a
`MessageTransceiverThread`; the looper and that thread exchange messages through
the mailboxes of `Thread`. MD5 threads and the scan thread report to the looper by
posted messages. The scan thread reads `_scanSharesThreadID` and works on the tables
of `ShareNetClient` under `_dirsLock`. The transfer list asks
`IsScanningShares()` before it examines what a peer wants, and is told
`SharesScanComplete()` when the scan is over. Clients know of each other through the
server: what one sets below its node, the others are sent because they subscribed.

What makes each part correct:

* transfers: a slot is never used twice, never lost, never idle while somebody
  waits; a session is deleted once; each upload ends; nested calls return;
* protocol: what is written is a beginning of the file asked for, what ends without an
  error is whole, and a download ends;
* mailboxes: they are channels; no wake-up is lost, shutdown returns;
* scan: nobody waits for a scan that is not there, no rescan is forgotten, nobody
  waits for ever;
* index: what is listed is found, the index and the server agree with the disk once all is
  handled, nothing is shared when sharing is off;
* server: it tells each client what it has subscribed to, no more and no less;
* connection: a wanted connection is always on its way, nobody is shown who has left, a
  finished query is complete;
* hash table: an ordered map, whose iterators visit what stays once.

The hazards behind these properties are listed with their lines in
`PROJECT.json`, also those no property covers.

## 2. Modules, and what is left of the plan

| Module | Models | Composes, or is used by |
|---|---|---|
| `TransferQueue`, `TransferQueue_proofs`, `TransferSlots_proofs` | transfer list and slots | - |
| `ThreadQueue`, `Channel`, `ThreadQueue_proofs` | mailboxes, and what they promise | `ThreadQueue` implements `Channel`, which is how the other modules treat a connection |
| `ScanShares`, `ScanShares_proofs` | the life of scan threads | takes what a scan does from `SharedFiles` as "visits entries" |
| `SharedFiles`, `SharedFiles_proofs` | index, disk, node monitor, low-priority queue | - |
| `FileTransfer`, `FileTransfer_proofs` | one download, both ends | takes the slot and the reaper of `TransferQueue` as "some time" |
| `DataTree` | the server's database | extended by `TreeClients` (any clients) and `ServerConnection` (BeShare's) |
| `TreeClients`, `TreeClients_proofs` | the server with arbitrary clients | `DataTree` |
| `ServerConnection`, `ServerConnection_proofs` | connection, users, queries, with the server and another user | `DataTree` |
| `Hashtable`, `OrderedMap` | the container and what it promises | `Hashtable` implements `OrderedMap` |

The `MC` modules give the constants their values.

Left of the plan: result pages and the ban table.

## 3. TransferQueue

`list` is `_transferList`. The flags of a `ShareFileTransfer` are sets of sessions
named after the members (`waiting` is `_isWaitingOnLocal`, `finished` is `_isFinished`,
`halted` is the complement of `_beginTransferEnabled`, `ticking` the uploads whose
`_lastTransferTime` is not zero). `mtt[s]` is the transceiver thread: none, not started,
or running. `files[s]` is the size of `_origFileSet`, and `toSend[s]` what
`GetNumBytesLeftToUpload()` returns, counted in chunks.

The handlers of the looper are actions that need `Idle`. The calls a handler makes into
other code (`AbortSession` calls `FileTransferDisconnected` calls
`DequeueTransferSessions` calls `BeginTransfer`) are on the stack `todo` and are taken
one by one by the actions of `Step`; no other handler starts before the stack is
empty. That keeps the order of the code (the number of free slots is counted once and
spent in the loop, the sort pauses and resumes all uploads) and makes the nesting itself
checkable.

Abstractions:

* chunks instead of bytes, at most `MaxFiles` files a session; `Limits` are the values
  of the limit menus; `Commands` switches groups of commands and peer behaviours on;
* a peer sends its identity and its list once a connection, the identity first;
* drain notifications of a session are a set, not a count: `DoUpload` may be
  over-approximated after a file that would not open;
* `RequestDownloads` is one action per owner; install IDs are session IDs in
  `RestartDownloadsFor`;
* a callback is accepted only once the peer has been told our port;
* left out: failures to create a thread or a port, bans, bandwidth limits, what the
  list looks like, sessions restored at start-up, and the index arithmetic of the
  selection after a move;
* a session that is cut off is incomplete if it has files left to fetch, or chunks to send; the
  code compares the counters of the current file and of the set (`ShareFileTransfer.cpp:628`).
  They differ from that for an upload of which a file could not be opened, which the code marks
  as failed at the end; no property depends on that mark of an upload;
* deleting a session through a stale address is undefined: the program crashes or
  goes on.

### Runs

| Run | Instance | What it shows |
|---|---|---|
| `uploads` | 3 sessions, 1 user, up to 2 chunks, shortest-first on or off, one slot | no slot leaked (`SlotsAreLive`), exceeded (`StartsWithinLimit`) or idle (`NoIdleSlot`); each upload with a slot is watched by the reaper or waits for ourselves (`ActiveUploadIsWatched`); each is removed once (`RemovesLiveSessions`); the sort leaves nobody halted (`NobodyLeftHalted`) |
| `upload_commands` | 2 sessions, every command on the list and on selections | `SlotsAreSound` (no slot leaked, unwatched or idle) while limits change and uploads are paused, halted, resumed, moved, cancelled and cleared, and peers send nonsense |
| `downloads` | 2 sessions, 1 user | `SlotsAreSound` for connecting and accepting downloads, automatic restart, halt and restart, rejection, the user leaves and returns |
| `liveness` | 2 sessions, each an upload or a download, shortest-first, one slot each way, fair; accepted sockets, connect-back requests, the share scan, automatic restarts, "Restart Transfer", a returning user, rejections, the reaper | `EveryUploadEnds`; `HandlersReturn`, where the nested calls are deepest; and `SlotsAreSound` with these sources of uploads |

Why the bounds are enough: what can go wrong needs at most one session that holds a
slot, one that waits and one that is in the way (the third in `uploads`, where the
sort needs two to be exchanged while another is active); limits 1 and 2 give
"full", "one free" and "per-user limit reached, slot free"; one file gives
complete and incomplete downloads, two chunks give different lengths and a chunk that
is neither first nor last. Session names are interchangeable, hence symmetry (not used
in `liveness`).

`NoIdleSlot` has two exceptions that the code has: a halted upload uses up a free slot
of the loop (`ShareWindow.cpp:2341`), so lists with a halted one are excluded, and an
upload that has said who it is but not what it wants is not looked at again until its
file list arrives.

Fairness, used only in `liveness`: weak fairness of `Step` (the looper
continues its handler) and strong fairness of the handling of messages that are in the
looper's queue (`REMOVE_SESSION`, the MD5 threads' reports, the end of the scan); strong,
because each may be disabled for a moment while another handler runs. Nothing is assumed of
the user.

Of peers, `EveryUploadEnds` assumes that they fall silent (`PeersFallSilent`, the hypothesis
of the property). The moribund check is a timer that fires every minute
(`ShareWindow.cpp:1589`) and aborts uploads whose clock is older than five
(`ShareWindow.cpp:2743`); every message that comes in starts the clock again
(`ShareFileTransfer.cpp:873`), also one that changes nothing. Time is not modelled: whether
the check may find an upload is a choice, and the hypothesis says that an upload whose clock
runs is found at last. It is false of a peer that repeats its identity for ever: section 9.

### Proofs (`TransferQueue_proofs`, `TransferSlots_proofs`)

* `TypeCorrect`: `Spec => []TypeOK`.
* `QueueStartsWithinLimit`: `Spec => StartsWithinLimit`.
* `SlotsAreLiveHolds`: `Spec => []SlotsAreLive`.
* `ActiveUploadIsWatchedHolds`: `Spec => []ActiveUploadIsWatched`.
* `NobodyLeftHaltedHolds`: `Spec => []NobodyLeftHalted`.
* `RemovesLiveSessionsHolds`: `OnlyUploadsAreRemoved /\ Spec => []RemovesLiveSessions`.
* `NoIdleSlotHolds`: `Spec => []NoIdleSlot`; with the second and third, `SlotsAreSoundHolds`:
  `Spec => []SlotsAreSound`.

All are for any number of sessions and users, any limits and any set of commands, so also for
mixes of commands that no run has together. They assume only that the set of sessions is
finite, that limits and `MaxFiles` are positive and that `Anon` is no user.
`RemovesLiveSessionsHolds` has a hypothesis on the commands, since the code needs it (section 9): the user can neither cancel nor
clear transfers, and finished downloads stay in the list. The instance of the run `uploads` is one
of those it speaks of; restarts, limits, halting and moving are allowed in addition.

None is inductive as it stands.

* That a start stays within the limit depends on the number `left` in the call on top of the
  stack, which was computed some steps earlier; and the type of the stack depends on what is
  below its top. `IInv` adds to the types `StackOK`: a filling loop appears only as the innermost
  call, all calls below it are quiet, and `Fits`, the number of active sessions of its
  direction plus the number it may still start is at most the limit. `InitInv` and `NextInv`
  show it inductive, one step per action. The action property then follows from lemmas that
  each action but `StartNext` and `ResumeNext` leaves no session active that was not active
  before; for `StartNext`, `Fits` gives the bound.
* `SlotInv` (on top of `IInv`) says of each session in the list that it is finished exactly if
  it has no transceiver thread, that it is connecting, connected or accepting exactly if the
  thread runs, and that a thread that is not started belongs to a session that waits; and of
  a session that is not created yet that it is in none of these states (`FreshOK`), without
  which nothing would be known of a new one. `SlotsAreLive` is a consequence.
* `WatchInv` drops the `Idle` of `ActiveUploadIsWatched`: every upload in the list waits, is
  finished, is watched or waits for ourselves, also in the middle of a handler. So the order of the
  statements within a handler leaves no gap either.
* `HaltInv`: if the user cannot halt or pause, sessions are halted only while the sort is at
  work, that is, they are uploads in the queue, the call that resumes them is on the stack, and above
  it are only calls that count and fill slots, which do not return early or halt
  (`ResumeAhead`). The invariant must speak of the whole stack, since the resuming call lies
  several calls deep while slots are filled.

* `RemovalInv`: a session about which a message is posted is an upload in the list without a
  transceiver, so that it can neither end a second time nor be restarted. That it is not restarted
  depends on the stack (`GoodCalls`): the sessions of a restart that lies ahead are downloads, and
  only slots are filled before it, so that none of them can change its direction meanwhile;
  a deletion is always the innermost call, and of a session about which nothing is posted any more.

* `NoIdleSlot` speaks of the moment when the looper is back; the proof has to say for every
  moment before what will still fill the slots. `FollowInv` (on top of `SlotInv`) describes the
  stack without counting slots: each call that queues sessions, frees slots or lets halted
  uploads begin (`Followed`) is followed, further down, by a call that fills the slots of either
  direction; deletions are innermost, and are followed in the same way unless the sessions are
  over; restarts are of downloads. `MarksOK` adds which marks go together: only uploads are
  halted, only downloads restart by themselves, and an upload that is over is about to be
  removed. `Filled` then says, unless a removal is posted or an upload is halted, of each
  direction that it is `Served` (its slots are taken, or everybody in its queue is `Passed` for
  one of the reasons of `NoIdleSlot`) or that its slots will be filled (`Ahead`): by a call on
  the stack, or by the loop at hand, if the slots it has left are exactly the free ones and all
  above its position are passed. A handler that frees no slot keeps `Served` (`Keeps`: nobody
  loses his slot, nobody joins the queue, nobody gets a share or loses the exception); every
  other one fills the slots, or posts a removal, which fills them. This is where it matters that
  `RequestDownloads()`, the menus and `FileTransferDisconnected()` all end with
  `DequeueTransferSessions()`, and that an upload whose start fails is removed.

The invariants were checked with TLC before they were proved, all but `RemovalInv` with all
commands together.

Only model-checked: liveness (fairness is beyond the prover).

## 4. ThreadQueue and Channel

The mailbox of `muscle::Thread`: `SendMessageAux` appends under the lock and signals,
after releasing it, only if the queue was empty; the internal thread wakes up, reads
signal bytes (up to its buffer) and empties the queue message by message;
`StartInternalThread` signals if messages were queued before the thread ran;
`ShutdownInternalThread` sends the quit message and joins. Senders, owner and internal
thread interleave at lock boundaries.

`Channel` is what an owner relies on: messages are delivered once and in order, all that
were sent before the thread was told to quit and none after. The refinement mapping takes
`handled` for what is delivered, and for the limit the number of messages ahead of the
quit message.

`thread_queue` (two senders, four messages, a receive buffer of two): `NoLostWakeup`
(never asleep on a non-empty queue without a signal under way), `IsAChannel` (the
refinement), and under weak fairness of the threads `EveryMessageHandled` and
`ShutdownReturns`: the scheduler runs every thread that is not blocked; nobody is obliged to
send or to shut down. Two senders and four messages are enough for a signal to be
outstanding, one to be merged with it and one to arrive while the queue is being emptied.

`ThreadQueue_proofs` proves `NoLostWakeupHolds` for any set of senders and any number
of messages; the invariant is strengthened with what the sender between append and signal
and the owner between start and first signal owe.

It also proves `MailboxIsAChannel`, the refinement `Spec => IsAChannel`: the initial states map
to initial states, an append and a handled message are the steps of `Channel`, and everything
else (signals, wake-ups, start, join) leaves the channel alone. The invariant `ChannelInv` behind
it says that, until the thread is told to quit, what is queued continues what is handled up to
what was sent, and that from then until it exits a NULL message is in the queue, before which the
same holds; this is what makes the limit of the mapping stay fixed once it is set, and equal to
what has been handled when the thread is gone.

## 5. ScanShares

The scan thread against the looper. `id` is `_scanSharesThreadID`; `scan[t]`, `code[t]` and
`left[t]` are what thread `t` is doing, what it was asked for and what it has to visit;
`lock` is `_dirsLock`; `held` are the uploads with a saved file list. As in
`TransferQueue` the looper's nested calls are on a stack, and it can block in two of them:
in `wait_for_thread()` and for the lock.

Reports are only counted: they do not name their thread, and commands that were queued
while the looper was blocked in an abort are handled before the report of the aborted
thread, so that any order of commands and reports can happen. Thread names are used again
when the thread has ended; the looper never spawns while it remembers an ID, so this
confuses nobody. Left out: what the scan finds, which is `SharedFiles`' subject, and a client
without a listening port (`_localSharePort` 0), which never scans. Clearing the tables, or
deleting the connection, while a scan runs is undefined: the program crashes or goes on.

`scan_shares` (two threads, one directory entry, commands while fewer than two reports are
waiting): `HeldOnlyWhileScanning`, `RescanIsRemembered`, and, under weak fairness of the
looper and of each scan thread, `LooperReturns`. Two threads are what it takes for a scan
to be replaced by another; when none is left, starting one fails, as it may in the code.

`ScanShares_proofs`, for any number of threads, entries, uploads and commands:

* `RescanIsRememberedHolds`. The property is about the idle looper; its invariant `RescanInv`
  drops that and adds that a report is to come whenever a thread ID is remembered.
* `DirsLockExcludes`: a thread has the lock exactly while it is in the two phases that work on the
  tables.
* `HeldOnlyWhileScanningHolds`. `HeldInv` counts: the batch count is the number of calls on the
  stack that end a batch, every call that may start a scan has such a call below it, and
  uploads are held without a scan only while the batch count is positive. The end that brings it to
  zero is the one that releases them. The lemmas on `Ends` say how the count changes
  when calls are pushed and popped.

`LooperReturns` needs fairness and is only model-checked.

## 6. SharedFiles and FileTransfer

### SharedFiles

`disk` has the place (folder and name) of each file, which folders are inside the shared
folder and which of them are watched; a change of a watched folder puts a message into
`events`, which the looper handles later. `tab` are the three tables; the entry of a name in
`_nameToEntry` is its count and the place (`ref`) of the file it was made with, which is what
`FindSharedFile()` returns. A scan enters a folder (it is watched from then on), reads its
entries one at a time in any order, enters subfolders, sends what it has collected in chunks,
and reports; it holds `_dirsLock`, so the looper's handlers of file events wait, while the disk
does not. `out` has the nodes on the server, the low-priority queue and the flag
`_sendingLowPriorityMessages`; high-priority messages reach the server at once, low-priority
ones when the connection says it is drained.

A report does not say which scan it is of. That of an aborted scan clears
`_scanSharesThreadID`, which names the one that runs by now (`NameTaken`). The thread that has
lost its name is a stray: it goes on until it looks at the ID again (`StrayAborts`), which it
does before it deals with an entry (`go` says what it saw), but not before it sends the last
files of a folder; it may also be waiting for the lock still (`strays`), and then enters the
shared folder before it looks. An abort waits for the named thread only, and for a stray if the
named thread waits for its lock.

`shared_files`: two files, two names, a shared folder and one that may be moved into and out
of it, three changes of the disk and two commands (connect, disconnect, sharing, firewall).
Two files with one name (in two folders) are what a reference count is for; three changes let
a file be made, moved and removed around one scan; two commands let a scan be replaced and
lose its name, or sharing be disabled during a scan. The third command that is needed for
both is checked with two changes (`MaxChanges = 2`, `MaxCommands = 3`), and for any number
by the proofs.

Three history variables state what the properties exclude.
* `quiet` is false once something was read while a message about it waited: a file about which a
  message waited was read, or a folder entered into which a waiting message puts a file or moves
  the folder itself (the file may then be counted twice, section 9); or once a running scan
  lost its name. Changes at other times keep it: in a folder that is being read, files may go,
  those that the scan has read may change, and files may come where it has read already, their
  messages all still waiting; a folder not yet entered may change at will. What is excluded is
  what the scan finds and a message tells of too.
* `forced`: `SetFirewalled()` has uploaded files although sharing is disabled.
* `loose`: a stray was left when the sharing was switched or the connection ended.

`ListedIsFindable` needs none of them. It has a condition of its own: the entry of a name leads
to the place of the first file that had it, so it says nothing of where a name leads once
several files of it were counted.

`SharedFiles_proofs`, for any files, names and folders and any number of changes and commands:

* `ListedIsFindableHolds`, with `FindInv`: the types of disk, events and tables, and the claim
  itself, which turns out inductive once the tables are typed. The lemmas are about
  the operators that build new tables: adding a file to a list raises the number of its holders
  by one at most, and the count by one; a removal lowers the count only if it takes the file
  out of the list.
* `NothingWhileDisabledHolds` and `CountIsAnnouncedHolds`, with `WindowInv`: without a network
  thread nothing is offered or queued and no scan has the name; with sharing disabled, unless
  `forced` or `loose`, nothing is offered or queued and no scan thread is left at all; and
  while connected, with sharing on and no scan or report under way, the number sent is right
  or the runner is there, even while messages of the node monitor wait. It needs the shape of the
  scan (`ScanTypeOK`): what a stray may do depends on the frames that are left to it.
* `CountsExactHolds` and `IndexAgreesHolds`, with `AgreeInv`. Both speak of the disk, the tables
  and the server, which agree only when nothing is under way; the invariant says what is under
  way at any moment. While `quiet` holds, its parts are:
  * `WatchInv`: which folders are watched and monitored; without a connection, and until
    the walk starts, the tables are empty.
  * `WalkInv`: the thread that has the name has the lock, and there are no strays; the frames of
    the walk are different watched folders, and what they have left to read is not
    watched (`Walks`). Messages may wait during a walk.
  * `FilesFollow` (as long as messages are heeded: sharing is on, or a walk runs): the tables
    follow the disk but for the messages that wait. For each file: what is listed wrongly, or in a
    folder that is no longer watched, a waiting message takes away (`Overtaken`, `InWatched`); a
    file in a watched folder is listed at its place, or a waiting message puts it there, or the walk
    has still to read it (`Found`), and the last message about it is the one that does; and no
    message adds it a second time before another took it away (`Separate`), which is what keeps
    the counts exact. `Listing` names where each waiting message will put the file.
  * `DirsFollow`: the same of folders that are moved in and out.
  * `UnreadUnlisted`, `BatchBacked`: what the walk has still to read is not listed, unless a message
    about it waits, and what it has collected but not sent is.
  * `Counted`, the claim of `CountsExact`; and `Backed`: whatever will be on the server once the queue
    is empty (`InTheEnd`: there now or set by a queued message, and removed by no later one) is
    the name of a listed file. `IndexAgrees` is this and `FilesFollow` when nothing waits.

  Each of these is needed for another to be kept: without `Separate` a message could raise a count
  twice, without `Backed`'s look at the whole queue a removal sent earlier could be undone by
  a chunk sent later. `quiet` enters where the disk is read: `FolderEntered` and `NotWaiting`
  say that entering a folder, or reading a file, of which no message waits leaves `FilesFollow`
  as it was. `DiskAgrees`, `ScanAgrees` and `LooperAgrees` show a step of each kind to keep
  `AgreeInv`, with lemmas on what a message appended to (`OtherAppended`, `OwnAppended`) or taken
  from (`OtherHandled`, `OwnHandled`) the queue does to it. TLC had found `AgreeInv` to hold on the
  instance of `shared_files`. The assumption `NamesAssumption`, that names are not folders, only
  keeps apart the two kinds of entries of a folder; no code depends on it.

### FileTransfer

One download, with both programs. `d` is the downloading session, with the files it wants
(`want`, and `orig` for restarts), the current file and the counters by which it decides
whether it is complete; `hashers` its MD5 threads, which go on when the session is restarted;
`u`, `exams` the uploading session and its MD5 threads; `pipe`, `posted` and `net` are the
stages through which data and drain notifications pass. Contents are sequences of buffers.

`file_transfer`: a file of two buffers, then an empty file whose name is taken and which the
uploader may fail to open; one lost connection or failed write, one halt, one restart by the
user, one write to the same file by another download. Two buffers give a resume that is
neither at the start nor at the end; two files an order; one of each fault is what it takes
to have an old thread, an old list or a stale offset meet a new connection. Properties:
`IntactUnlessSpoiled`, `FinishedIsComplete`, `NotFetchedAgainIfNamed`, `DownloadEnds`.
Fairness: the loopers and threads of both programs continue while they have something to do;
a waiting upload gets its slot (`EveryUploadEnds` of `TransferQueue`); the reaper finds an
upload that stands still. The users are obliged to nothing.

`resume_tail` is the run of the same instance with `Intact`, which does not hold: section 9.

`FileTransfer_proofs` proves `IntactUnlessSpoiled`, `FinishedIsComplete` and
`NotFetchedAgainIfNamed` for every request, every size and every bound on faults. Assumed of
the constants is that the request is a finite sequence, that sizes are natural numbers and
that `None` is no file. None of the three is inductive: what is written next depends on what
is on its way. The invariant `IInv` therefore describes the wire. A *point* is a file and how
much of it has been written; `Leads(m, p, q)` says that message `m` takes the downloader from
point `p` to `q`: a buffer from just before it to just behind it, a header from a complete
file to the offset in the next one. `Flow` composes this over a sequence of messages, and
three lemmas (empty, append, tail) are all the proof ever uses of it. `WireInv`: `net` leads
from where the downloader is to a point from which `pipe` leads to where the uploader stands
(`Stands`), who is within a file he has opened, or has finished one. The rest of `IInv`:
offsets are within the files and 0 for a taken name, because the MD5 comparison of foreign
contents fails (`OffsetInv`); copies are beginnings (`CopiesInv`) and the current one is as
long as the session's counter says (`CurrentInv`); the files begun and the files wanted add up
to the request (`CountInv`); and what is off the lists is there (`GotInv`), which is
`FinishedIsComplete` once both counters are exhausted. `KeptInv` adds, for
`NotFetchedAgainIfNamed`, that a whole file is on neither list and that a copy begun in the
middle lacks its first buffer, so that it is never taken for whole. Both invariants were
checked with TLC on the instance of `file_transfer` (with `Flow` evaluated message by message)
before they were proved. `DownloadEnds` is liveness and stays with TLC.

## 7. DataTree, TreeClients and ServerConnection

`DataTree` has the tree (`nodes`, a function from paths to data), the subscriptions of each
session, the counts of subscriptions at each node (`marks`), the number of nodes a session
has made, and the outgoing queue of each session. One action is one message of a client,
with all the notifications it causes. What a pattern matches is a parameter.

`data_tree` lets two sessions of one host attach, leave, set and remove nodes with a limit of
two nodes, subscribe with two patterns that overlap, and give subscriptions up; a client
keeps what it is told in `view`. Two sessions are the one that changes and the one that is
told; two patterns the overlap; a limit of two is reached by one request of two paths, so
that paths are made in part. `MarksExact`, `CountExact`, and what the client is promised:
`NothingMissed` and `NothingStale`, stated of what it will know when all messages on their
way have arrived.

`TreeClients_proofs` proves `MarksAreExact`: `Spec => []MarksExact` for any sessions, hosts,
limits and patterns (finitely many). `IInv` adds that every node has counts, one for each
session, and that subscriptions are patterns. The lemmas `HitsAdd` and `HitsRemove` say what a
subscription that comes or goes does to the number of those that match; then there is one
lemma for each way in which nodes or subscriptions change. `CountExact` is only
model-checked: the nodes of a SETDATA message are made in a fold over its fields, and
reasoning about a fold is induction over data, which the prover cannot do.

`ServerConnection` composes the same server with BeShare's client and another user. `link` is
the network thread, `client.cmds` and `wire` the two streams; `client` has what the window
knows: status, timer, users, results, and the state of the query (`inProgress`, number of the
ping). At login the client subscribes to sessions first and then to users' nodes; each query
subscribes to files and sends a ping whose answer ends it. `server_connection` bounds the
commands of the user, the failures and the changes of the other user together by four: enough
for a query to be restarted while the other leaves, or for a connection to be lost, made again
by the timer and interfered with by the user. Fairness: the looper and the server handle what
has arrived, an attempt to connect succeeds or fails, the server notices a lost connection.
The timer is not needed for the property under fairness, `QueryEnds`.

`ReconnectIsPending` says that a connection that was begun for the user, and whose end he has
not asked for (`wish`), exists, is being made, or has a timer or an `AUTO_RECONNECT` message on
its way (`TryPending`). Its exception is the history variable `unmade`: the last attempt of the
automatic reconnect could not make its network thread, after which the code tries nothing more
(section 9). `UsersAreThere`, `QueryIsComplete` and
`ResultsAreThere` are about what will be shown once what is under way has arrived; two of them
have exceptions, explained in section 9.

`ServerConnection_proofs` proves `ReconnectIsPendingHolds` for any server, users, queries and
numbers of failures, with the exception it states. `ConnInv` adds that a network thread is behind every status but "off" and
behind every event that still has to be handled, so that an event of the thread can never set a
status, or clear a timer, that belongs to no connection. The other three invariants are about folds over what is under way
(`Shown`): induction over data, and only model-checked.

## 8. Hashtable and OrderedMap

One record has the array of entries with the links of chains and of the free list, the two
maps between bucket numbers and entries, the order of iteration and the sort mode. The actions
are the operations of the class: put (replace, insert with or without a swap of entries,
growth), remove, move, sort (the merge sort of `SortByAux`), change of the sort mode, clear,
and the iterators' operations in both directions. `owed` and `given` of an iterator are
history: the keys it has still to visit and has visited, less those that were moved.

`OrderedMap` is the abstract specification: a sequence of items and cursors that stand on
keys. The refinement mapping reads the order through the array and the cookies as keys.

`hashtable`: all three sort modes, three keys that share buckets before and after the table has grown, one of them
with the reserved hash code, one of them put with a value below or above the equal values of the
other two, one iterator, a table that starts with one entry. Three keys are needed for a chain
of two beside an entry that a third has taken; growth from 1 to 3 happens under an iterator. `NoEntryIsLost`, `EachIsVisitedOnce`, `IsAnOrderedMap`. The sort is
checked against "sorted, stable and the same items". Deadlock checking is on: a table can
always be cleared.

## 9. Where the code and its documentation disagree

Checked as a run:

* `resume_tail`: the uploader continues a file at the offset the downloader asked for, and the
  downloader compares its file with that offset only when the header arrives
  (`ShareFileTransfer.cpp:976`). If another download has written to the file in between, it
  falls back to a new name, into which the rest is written without its beginning; the file is
  reported complete. BeShareDocs.txt:1235 and the comment at 976 promise appending to the
  file or starting anew.

Seen in the models, where a property has an exception because of it:

* BeShareDocs.txt:543 says the reaper does not kill sessions that are "Examining files...".
  `BeginTransfer()` ends with `UpdateTransferTime()`, so an upload that gets its slot during
  the examination is watched, and killed after five minutes. A queued connect-back upload is
  watched from its construction (`ShareFileTransfer.cpp:246`), against the comment at 488.
* A peer that repeats `PEER_ID`, or any other message, keeps its upload, and the slot, for
  ever: each message starts the reaper's clock again, although BeShareDocs.txt:1081 speaks of
  connections that "haven't transferred any data for more than five minutes". Hence the
  hypothesis of `EveryUploadEnds`.
* BeShareDocs.txt:877 says completed downloads can no longer be restarted as uploads.
  `RestartDownloadsFor()` does not ask whether a file is left, and the menu item looks at one
  session of a selection and acts on all.
* `RemoveUser()` aborts downloads that are connected, where its comment
  (`ShareWindow.cpp:3893`) speaks of those awaiting callbacks: `_isAccepting` stays set.
  `RestartDownloadsFor()` runs before the window has learned all of a user's fields.
* `REMOVE_SESSION` names the session by address (`ShareWindow.cpp:4030`); "Clear Finished" or
  "Cancel" may delete it first. `RemovesLiveSessions` is checked, and proved, without these
  commands.
* The sort re-enables uploads the user had halted (`ShareWindow.cpp:2279`), and a halted upload
  uses up a free slot of the loop (`ShareWindow.cpp:2340`); `NoIdleSlot` excludes lists with one.
  An upload that identifies itself late can exceed its user's limit
  (`ShareFileTransfer.cpp:895`).
* The report of an aborted scan is taken for the end of the scan that replaced it
  (`ShareNetClient.cpp:325`). The next abort then does not wait, and `UnwatchAllDirs()`, which
  "Should only be called when the share scan thread is known not to be running" (line 151),
  runs beside it: `app` may become "crashed" in `ScanShares`. A scan that loses its name leaves the
  tables half filled, which `quiet` excludes from `CountsExact` and `IndexAgrees`.
* Disabling the sharing does not wait for a scan whose name such a report has cleared
  (`ShareNetClient.cpp:1402`), and what that scan has found is sent afterwards (980), against
  BeShareDocs.txt:716-718, "so you can disable your file sharing without having to move files
  around". It is the exception `loose` of `NothingWhileDisabled`: without it TLC finds, in three
  commands (connect, switch the firewall setting, disable sharing) and one file, a file that is
  offered while sharing is off.
* `RefFilename()` keeps the `entry_ref` of the first file of a name (`ShareNetClient.cpp:1428`);
  when that file goes and another of the name stays, `FindSharedFile()` returns a path that is
  not there. `ShareNetClient.h:95` says: "If no such file exists, the returned entry_ref will not
  be valid." `ListedIsFindable` says when a name does lead to its file: unless it is in `twice`.
* When the network thread of an automatic reconnect cannot be made, `ConnectToServer()` logs a
  line and returns (`ShareNetClient.cpp:109`); no event comes of a thread that is not there,
  and no timer is set. BeShareDocs.txt:523-525 says: "If the auto-reconnect fails, it will try
  again after increasing time intervals." It is the exception `unmade` of `ReconnectIsPending`.
* A removal is sent with low priority and a creation with high priority
  (`ShareNetClient.cpp:510`): a file that is removed and made again can be missing on the
  server though it is in the shared folder (BeShareDocs.txt:55, "Any files in or under the
  shared directory will be available"). `IndexAgrees` therefore asks of the server only that
  it offers nothing that is not there.
* `SetFirewalled()` uploads the files also while sharing is disabled
  (`ShareNetClient.cpp:1311`): the exception `forced` of `NothingWhileDisabled`.
* A file made while its folder is entered is counted by the scan and by its message, and its
  name outlives it in the index (`ShareNetClient.cpp:951`): the condition `quiet`.
* A file that was stored under a generated name is fetched again by a restart, against "so we
  won't try to get it again on restart" (`ShareFileTransfer.cpp:944`); hence "IfNamed" in
  `NotFetchedAgainIfNamed`. So is an empty file, of which no data comes, when the connection
  is lost before the next header: the property is about files with contents.
* A query made while the connection is being established puts users into the list before the
  client is told who leaves (`ShareWindow.cpp:3164`): `UsersAreThere` excludes it.
* Stopping a query jettisons results that are under way, removals among them; the same query
  made again shows files that are gone, against BeShareDocs.txt:1207. `ResultsAreThere` is
  about the first query of a connection.
* An `AUTO_RECONNECT` message that is already in the queue when the user disconnects connects
  again (`ShareWindow.cpp:3136`): `ReconnectIsPending` asks for a connection that is wanted,
  not for the absence of one that is not.
* `SwapContents()` promises that iterators follow the contents (`Hashtable.h:463`), but gives
  the iterators of each list the other table as owner (`Hashtable.h:1124`). It is not
  modelled.

## 10. Mutants

For every property of every passing run `PROJECT.json` names a variant of one definition (a
missing call, a missing reset, an off-by-one) under which TLC finds the property violated.
The variants stand before the definitions they belong to, each with a comment saying what is
wrong with it; nothing else uses them.

## 11. Not modelled

* Partial hashing, the MD5 digest and its cache, munging of data, attributes (they save work
  or transform data without changing the order of events).
* Of the server: query filters, ordered indices, whole data trees, privileges, bans and the
  socket loop; of queries: the pages of results and the narrower pattern of a client behind a
  firewall; the length of the reconnect back-off.
* The ban, watch and ignore tables, settings and archived downloads, chat and its commands,
  private windows, columns, MIME information, text views, translations: formatting, parsing
  and display.
* The byte format of MUSCLE messages and gateways; zlib, regex, the santa widgets and the
  bindings for other languages (vendored); atrusbot (a separate program). These are most of
  the lines of the repository, and hardly any of its control.
* The unlocked flag `_sendingLowPriorityMessages` between two instructions of two threads: in
  `SharedFiles` each of their calls is one step.

Beyond the prover and therefore only model-checked: everything under fairness, and what
folds and recursive functions compute (`SetData`, `Reports`, `Shown`, the sort, the growth of the
table): `CountExact`, `NothingMissed`, `NothingStale`, `UsersAreThere`, `QueryIsComplete`,
`ResultsAreThere`, and `Hashtable` with its refinement of `OrderedMap`, whose moves, chains and
sort are such functions.

## 12. Running

    tlc -workers 2 -config MCUploads.cfg MCTransferQueue
    tlc -workers 2 -config MCThreadQueue.cfg MCThreadQueue
    tlc -workers 2 -config MCScanShares.cfg MCScanShares
    tlc -workers 2 -config MCSharedFiles.cfg MCSharedFiles
    tlc -workers 2 -config MCFileTransfer.cfg MCFileTransfer
    tlc -workers 2 -config MCTreeClients.cfg MCTreeClients
    tlc -workers 2 -config MCServerConnection.cfg MCServerConnection
    tlc -workers 2 -config MCHashtable.cfg MCHashtable
    tlapm TransferQueue_proofs.tla
    tlapm TransferSlots_proofs.tla
    tlapm ThreadQueue_proofs.tla
    tlapm ScanShares_proofs.tla
    tlapm SharedFiles_proofs.tla
    tlapm FileTransfer_proofs.tla
    tlapm TreeClients_proofs.tla
    tlapm ServerConnection_proofs.tla

The module and the configuration of each run are in `PROJECT.json`. Deadlock checking is
off but for the hash table: a client with nothing to do, or all of whose sessions, steps or
faults have been used up, may stop.
