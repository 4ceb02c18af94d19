---------------------------- MODULE FileTransfer ----------------------------
(***************************************************************************)
(* One download from end to end (ShareFileTransfer.cpp): the downloader    *)
(* hashes what it has of the files it wants, sends the list, and writes    *)
(* the data it gets; the uploader checks the hashes and sends the rest of  *)
(* each file, a buffer whenever its connection says that the output queues *)
(* are drained; the connection may be lost, and is then made again.        *)
(*                                                                         *)
(* Hashing is done by threads of their own.  A thread of an earlier        *)
(* connection goes on when the session is restarted, and what it finds is  *)
(* sent on the new connection.  A file's contents is a sequence of         *)
(* buffers; MD5 digests are equal iff the contents are, and the files of   *)
(* the uploader do not change.  The waiting for a slot and the clock of    *)
(* idle sessions are TransferQueue's.                                      *)
(***************************************************************************)
EXTENDS Integers, Sequences, FiniteSets, SequencesExt

CONSTANTS
  Request,     \* the files that are wanted, in the order of the request
  Size,        \* buffers in each file, 0 for an empty one
  Taken,       \* files whose name something else has in the download folder
  Unshared,    \* files that the uploader may fail to open
  None,        \* no file, as the current file name ""
  MaxNames,    \* names that are tried for a file, 15 in the code
  MaxLosses,   \* bound on the connections that are lost and the writes that fail
  MaxHalts,    \* bound on the uploads that are halted by the uploading user
  MaxRestarts, \* bound on the restarts by the downloading user
  MaxForeign   \* bound on the writes to the same file by another download

Files == ToSet(Request)

ASSUME RequestAssumption == Request \in Seq(Files)
ASSUME FilesAssumption == None \notin Files /\ Taken \subseteq Files /\ Unshared \subseteq Files
ASSUME SizeAssumption == Size \in [Files -> Nat]

VARIABLES
  d,        \* the downloading session
  copies,   \* the files in the download folder: under its own name, then "name 2", ...
  hashers,  \* MD5SendLoopers of the downloading session
  lists,    \* TRANSFER_COMMAND_FILE_LIST messages on their way to the uploader
  u,        \* the uploading session
  exams,    \* MD5ReceiveLoopers of the uploading session
  pipe,     \* messages and drain requests given to the uploader's internal thread
  posted,   \* drained notifications in the uploader's queue
  net,      \* messages on their way to the downloader
  used,     \* how much of the bounds has been used
  spoiled   \* the copies that were begun in the middle

vars == <<d, copies, hashers, lists, u, exams, pipe, posted, net, used, spoiled>>

Content(f) == [k \in 1..Size[f] |-> <<f, k>>]
Foreign == <<<<None, 0>>>>

Header(f, start) == [what |-> "header", f |-> f, start |-> start]
Data(f, k) == [what |-> "data", f |-> f, k |-> k]
Drain == [what |-> "drain"]
Eof == [what |-> "eof"]

\* What is under the file's own name.
Own(f) == IF copies[f] = <<>> THEN <<>> ELSE copies[f][1]

-----------------------------------------------------------------------------
(* The downloading session *)

\* A restarted download restarts itself again though it has got nothing.
RestartedForEver(s) ==
  [state |-> IF s.orig = {} THEN "upload" ELSE "waiting", want |-> s.orig, orig |-> s.orig,
   cur |-> None, copy |-> 0, done |-> -1, size |-> -1, index |-> 0,
   total |-> Cardinality(s.orig), auto |-> TRUE, error |-> FALSE]

\* RestartSession(): everything of _origFileSet again.  With nothing left of it the
\* session takes itself for an upload.
Restarted(s) ==
  [state |-> IF s.orig = {} THEN "upload" ELSE "waiting", want |-> s.orig, orig |-> s.orig,
   cur |-> None, copy |-> 0, done |-> -1, size |-> -1, index |-> 0,
   total |-> Cardinality(s.orig), auto |-> FALSE, error |-> FALSE]

\* AbortSession(true).
Aborted(s) ==
  IF s.auto THEN Restarted(s)
  ELSE [s EXCEPT !.state = "stopped", !.done = -1, !.size = -1, !.error = TRUE]

NoUpload ==
  [state |-> "none", set |-> <<>>, offset |-> [f \in Files |-> 0], iter |-> 1, cur |-> None,
   pos |-> -1, opened |-> FALSE, waiting |-> FALSE, local |-> TRUE, calls |-> 0]

Init ==
  /\ d = Restarted([orig |-> Files, index |-> 0])
  /\ copies = [f \in Files |-> IF f \in Taken THEN <<Foreign>> ELSE <<>>]
  /\ hashers = <<>> /\ lists = <<>>
  /\ u = NoUpload
  /\ exams = <<>> /\ pipe = <<>> /\ posted = 0 /\ net = <<>>
  /\ used = [losses |-> 0, halts |-> 0, restarts |-> 0, foreign |-> 0]
  /\ spoiled = {}

Use(what, bound) == used[what] < bound /\ used' = [used EXCEPT ![what] = @ + 1]

\* The uploading session and everything between the two sessions is gone.
Hangup ==
  /\ u' = [u EXCEPT !.state = "closed", !.calls = 0]
  /\ lists' = <<>> /\ exams' = <<>> /\ pipe' = <<>> /\ posted' = 0

\* BeginTransfer(), and then the connection: a session for the other end, and a thread
\* that hashes what is there of the files.
Connect ==
  /\ d.state = "waiting"
  /\ d' = [d EXCEPT !.state = "connected"]
  /\ hashers' = Append(hashers, [want |-> d.want, cut |-> FALSE, read |-> FALSE, have |-> <<>>])
  /\ u' = [NoUpload EXCEPT !.state = "open"]
  /\ lists' = <<>> /\ exams' = <<>> /\ pipe' = <<>> /\ posted' = 0 /\ net' = <<>>
  /\ UNCHANGED <<copies, used, spoiled>>

\* The thread lists and then hashes the files; one that may have seen _shutdownFlag
\* does so with only some of them.
Hash(i) ==
  /\ ~hashers[i].read
  /\ \E listed \in SUBSET hashers[i].want : \E hashed \in SUBSET listed :
       /\ hashers[i].cut \/ hashed = hashers[i].want
       /\ hashers' = [hashers EXCEPT ![i] =
            [want |-> listed, cut |-> FALSE, read |-> TRUE,
             have |-> [f \in listed |-> IF f \in hashed THEN Own(f) ELSE <<>>]]]
  /\ UNCHANGED <<d, copies, lists, u, exams, pipe, posted, net, used, spoiled>>

\* MD5_SEND_READ_DONE: the list is sent on the connection of the day, if there is one.
Md5SendDone(i) ==
  /\ hashers[i].read
  /\ hashers' = RemoveAt(hashers, i)
  /\ lists' = IF d.state = "connected" /\ u.state = "open" THEN Append(lists, hashers[i]) ELSE lists
  /\ UNCHANGED <<d, copies, u, exams, pipe, posted, net, used, spoiled>>

\* The file is written under its own name whatever is there.
AlwaysAppend(f, start) == copies[f] # <<>> /\ start = 0

\* Writing goes to the file of the name in the header, unless that exists and is not
\* what the uploader continues.
Fallback(f, start) == copies[f] # <<>> /\ ~(start > 0 /\ Len(Own(f)) = start)

\* A file is begun: it is not wanted any more, and the previous one need not be fetched
\* again on a restart (if its name is still the one that was asked for).
Begun(s, f) == [s EXCEPT !.want = @ \ {f}, !.orig = IF s.copy = 1 THEN @ \ {s.cur} ELSE @]

\* FILE_HEADER: one that was not asked for, or for which no name is free, ends the
\* session.
FileHeader ==
  /\ d.state = "connected" /\ net # <<>> /\ Head(net).what = "header"
  /\ LET f == Head(net).f
         start == Head(net).start
         new == Fallback(f, start) \/ copies[f] = <<>>
         named == new => Len(copies[f]) < MaxNames
         copy == IF new THEN Len(copies[f]) + 1 ELSE 1 IN
     IF f \in d.want /\ named
     THEN /\ net' = Tail(net)
          /\ copies' = IF new THEN [copies EXCEPT ![f] = Append(@, <<>>)] ELSE copies
          /\ d' = [Begun(d, f) EXCEPT !.cur = f, !.copy = copy, !.done = start,
                                      !.size = Size[f], !.index = @ + 1]
          /\ spoiled' = IF new /\ start > 0 THEN spoiled \cup {<<f, copy>>} ELSE spoiled
          /\ UNCHANGED <<lists, u, exams, pipe, posted>>
     ELSE /\ d' = Aborted(IF f \in d.want THEN Begun(d, f) ELSE d)
          /\ Hangup /\ net' = <<>>
          /\ UNCHANGED <<copies, spoiled>>
  /\ UNCHANGED <<hashers, used>>

\* The last buffer of a file leaves it in _origFileSet.
DataKeepsFile(s) == [s EXCEPT !.auto = TRUE, !.done = @ + 1]

\* FILE_DATA: a complete file need not be fetched again.
DataWritten(s) ==
  [s EXCEPT !.auto = TRUE, !.done = @ + 1,
            !.orig = IF s.done + 1 >= s.size /\ s.copy = 1 THEN @ \ {s.cur} ELSE @]

FileData ==
  /\ d.state = "connected" /\ net # <<>> /\ Head(net).what = "data"
  /\ copies' = [copies EXCEPT ![d.cur][d.copy] = Append(@, <<Head(net).f, Head(net).k>>)]
  /\ d' = DataWritten(d)
  /\ net' = Tail(net)
  /\ UNCHANGED <<hashers, lists, u, exams, pipe, posted, used, spoiled>>

\* FILE_DATA with a wrong checksum, or when writing fails.
FileDataFails ==
  /\ d.state = "connected" /\ net # <<>> /\ Head(net).what = "data" /\ Use("losses", MaxLosses)
  /\ d' = Aborted(d)
  /\ Hangup /\ net' = <<>>
  /\ UNCHANGED <<copies, hashers, spoiled>>

\* Only the files are counted.
MissingFiles(s) == s.index < s.total

Incomplete(s) == s.done < s.size \/ s.index < s.total

\* MTT_EVENT_SESSION_DISCONNECTED: a thread that hashes is told to stop, but a restart
\* takes that back at once.
Disconnected ==
  /\ d.state = "connected" /\ net # <<>> /\ Head(net).what = "eof"
  /\ d' = IF Incomplete(d) /\ d.auto THEN Restarted(d)
          ELSE [d EXCEPT !.state = "stopped", !.auto = FALSE, !.error = Incomplete(d)]
  /\ hashers' = [i \in DOMAIN hashers |-> [hashers[i] EXCEPT !.cut = ~hashers[i].read]]
  /\ net' = <<>>
  /\ Hangup
  /\ UNCHANGED <<copies, used, spoiled>>

\* The user's "Restart Transfer", of a download with an error.
RestartSession ==
  /\ d.state = "stopped" /\ d.error /\ Use("restarts", MaxRestarts)
  /\ d' = Restarted(d)
  /\ UNCHANGED <<copies, hashers, lists, u, exams, pipe, posted, net, spoiled>>

Downloader ==
  \/ Connect \/ FileHeader \/ FileData \/ FileDataFails \/ Disconnected
  \/ \E i \in DOMAIN hashers : Hash(i) \/ Md5SendDone(i)

-----------------------------------------------------------------------------
(* The uploading session *)

Running == u.state = "open" /\ u.calls = 0

\* AbortSession() of the uploading session: what the internal thread has not sent is lost.
Close ==
  /\ Hangup
  /\ net' = Append(net, Eof)

\* FILE_LIST: somebody who asks for nothing is sent away; a thread checks the hashes.
FileList ==
  /\ Running /\ lists # <<>>
  /\ IF Head(lists).want = {} THEN Close
     ELSE /\ exams' = Append(exams, Head(lists))
          /\ lists' = Tail(lists)
          /\ UNCHANGED <<u, pipe, posted, net>>
  /\ UNCHANGED <<d, copies, hashers, used, spoiled>>

\* MD5ReceiveLooper: continue where he is if what he has is the beginning of our file.
CheckedOffset(f, have) == IF IsPrefix(have, Content(f)) THEN Len(have) ELSE 0

\* MD5_RECV_READ_DONE: the files are added to those asked for before, and the walk
\* through them begins anew.  The call of DequeueTransferSessions() may begin the
\* transfer, with a call of DoUpload(), and then DoUpload() is called.
Md5RecvDone(i, begin) ==
  /\ Running
  /\ LET l == exams[i] IN
     u' = [u EXCEPT !.set = @ \o SelectSeq(Request, LAMBDA f : f \in l.want \ ToSet(u.set)),
                    !.offset = [f \in Files |-> IF f \in l.want THEN CheckedOffset(f, l.have[f])
                                                ELSE u.offset[f]],
                    !.iter = 1,
                    !.local = @ /\ ~begin,
                    !.calls = IF u.local /\ begin THEN 2 ELSE 1]
  /\ exams' = RemoveAt(exams, i)
  /\ UNCHANGED <<d, copies, hashers, lists, pipe, posted, net, used, spoiled>>

\* BeginTransfer(), when a slot is free.
BeginTransfer ==
  /\ Running /\ u.local
  /\ u' = [u EXCEPT !.local = FALSE, !.calls = IF u.set = <<>> THEN 0 ELSE 1]
  /\ UNCHANGED <<d, copies, hashers, lists, exams, pipe, posted, net, used, spoiled>>

\* RequeueTransfer().
RequeueTransfer ==
  /\ Running /\ ~u.local /\ Use("halts", MaxHalts)
  /\ u' = [u EXCEPT !.local = TRUE]
  /\ UNCHANGED <<d, copies, hashers, lists, exams, pipe, posted, net, spoiled>>

Send(messages) == pipe' = pipe \o messages
Returns == u.calls - 1

\* DoUploadAux(), once for each turn of DoUpload()'s loop: not while waiting for a slot;
NotYet ==
  /\ u.local
  /\ u' = [u EXCEPT !.calls = Returns]
  /\ UNCHANGED <<lists, exams, pipe, posted, net>>

\* the next buffer of the file, and a notification when it has been sent;
SendBuffer ==
  /\ ~u.local /\ u.pos >= 0 /\ u.opened /\ u.pos < Size[u.cur]
  /\ Send(<<Data(u.cur, u.pos + 1), Drain>>)
  /\ u' = [u EXCEPT !.pos = @ + 1, !.calls = Returns]
  /\ UNCHANGED <<lists, exams, posted, net>>

EndOfFile ==
  /\ ~u.local /\ u.pos >= 0 /\ u.opened /\ u.pos >= Size[u.cur]
  /\ u' = [u EXCEPT !.pos = -1]
  /\ UNCHANGED <<lists, exams, pipe, posted, net>>

\* a file that could not be opened can not be read either;
ReadError == ~u.local /\ u.pos >= 0 /\ ~u.opened /\ Close

NextFile(f) == ~u.local /\ u.pos < 0 /\ u.iter <= Len(u.set) /\ f = u.set[u.iter]

\* the header of the next file, at the offset where it is to be continued;
OpenFile ==
  \E f \in Files :
    /\ NextFile(f)
    /\ Send(<<Header(f, u.offset[f])>>)
    /\ u' = [u EXCEPT !.cur = f, !.pos = u.offset[f], !.opened = TRUE, !.iter = @ + 1]
    /\ UNCHANGED <<lists, exams, posted, net>>

\* a file that can not be opened: nothing is sent and nothing will be notified;
OpenFails ==
  \E f \in Unshared :
    /\ NextFile(f)
    /\ u' = [u EXCEPT !.cur = f, !.pos = u.offset[f], !.opened = FALSE, !.iter = @ + 1,
                      !.calls = Returns]
    /\ UNCHANGED <<lists, exams, pipe, posted, net>>

\* after the last file, the end of the session when everything has been sent.
NoMoreFiles ==
  /\ ~u.local /\ u.pos < 0 /\ u.iter > Len(u.set)
  /\ Send(<<Drain>>)
  /\ u' = [u EXCEPT !.waiting = TRUE, !.calls = Returns]
  /\ UNCHANGED <<lists, exams, posted, net>>

DoUploadAux ==
  /\ u.state = "open" /\ u.calls > 0
  /\ \/ NotYet \/ SendBuffer \/ EndOfFile \/ ReadError
     \/ OpenFile \/ OpenFails \/ NoMoreFiles
  /\ UNCHANGED <<d, copies, hashers, used, spoiled>>

\* The internal thread sends the next message, or notifies that all before has gone.
Transmit ==
  /\ u.state = "open" /\ pipe # <<>>
  /\ pipe' = Tail(pipe)
  /\ IF Head(pipe).what = "drain" THEN posted' = posted + 1 /\ UNCHANGED net
     ELSE net' = Append(net, Head(pipe)) /\ UNCHANGED posted
  /\ UNCHANGED <<d, copies, hashers, lists, u, exams, used, spoiled>>

\* MTT_EVENT_OUTPUT_QUEUES_DRAINED: the end of the upload, or more of it.
QueuesDrained ==
  /\ Running /\ posted > 0
  /\ IF u.waiting THEN Close
     ELSE /\ posted' = posted - 1
          /\ u' = [u EXCEPT !.calls = 1]
          /\ UNCHANGED <<lists, exams, pipe, net>>
  /\ UNCHANGED <<d, copies, hashers, used, spoiled>>

\* An upload that stands still is aborted by the reaper of idle sessions.
Reap ==
  /\ Running /\ ~u.local /\ u.set # <<>>
  /\ lists = <<>> /\ exams = <<>> /\ pipe = <<>> /\ posted = 0
  /\ Close
  /\ UNCHANGED <<d, copies, hashers, used, spoiled>>

Uploader ==
  \/ FileList \/ BeginTransfer \/ DoUploadAux \/ Transmit \/ QueuesDrained \/ Reap
  \/ \E i \in DOMAIN exams, begin \in BOOLEAN : Md5RecvDone(i, begin)

-----------------------------------------------------------------------------
(* Faults, and other downloads *)

\* The connection is lost, with what was on its way.
ConnectionLost ==
  /\ d.state = "connected" /\ u.state = "open" /\ Use("losses", MaxLosses)
  /\ Hangup
  /\ net' = <<Eof>>
  /\ UNCHANGED <<d, copies, hashers, spoiled>>

\* Another session downloads a file of the same name and contents.
OtherDownload(f) ==
  /\ f \notin Taken /\ Len(Own(f)) < Size[f] /\ Own(f) = SubSeq(Content(f), 1, Len(Own(f)))
  /\ ~(d.state = "connected" /\ d.cur = f /\ d.copy = 1)
  /\ Use("foreign", MaxForeign)
  /\ copies' = [copies EXCEPT ![f] =
       <<SubSeq(Content(f), 1, Len(Own(f)) + 1)>> \o (IF @ = <<>> THEN <<>> ELSE Tail(@))]
  /\ UNCHANGED <<d, hashers, lists, u, exams, pipe, posted, net, spoiled>>

Next ==
  \/ Downloader \/ Uploader
  \/ RequeueTransfer \/ RestartSession \/ ConnectionLost
  \/ \E f \in Files : OtherDownload(f)

\* The loopers and threads of the two programs go on while they have something to do;
\* a slot becomes free some time.  Nobody is obliged to halt or to restart a transfer.
Fairness ==
  /\ WF_vars(Connect) /\ WF_vars(FileHeader \/ FileData \/ Disconnected)
  /\ WF_vars(\E i \in DOMAIN hashers : Hash(i) \/ Md5SendDone(i))
  /\ WF_vars(FileList \/ DoUploadAux \/ QueuesDrained
             \/ \E i \in DOMAIN exams, begin \in BOOLEAN : Md5RecvDone(i, begin))
  /\ WF_vars(Transmit) /\ WF_vars(Reap) /\ WF_vars(BeginTransfer)

Spec == Init /\ [][Next]_vars /\ Fairness

-----------------------------------------------------------------------------
(* Properties *)

\* The copies that this download has written.
Written(f) == {k \in DOMAIN copies[f] : k > 1 \/ f \notin Taken}

\* Every file that is written is a beginning of the file that was asked for.
Intact == \A f \in Files : \A k \in Written(f) : IsPrefix(copies[f][k], Content(f))

\* ... but for those that were begun in the middle: whatever lists, of whatever
\* connection, the uploader worked on, and however often it was called, no buffer is
\* missing, doubled, out of order or in another file.
IntactUnlessSpoiled ==
  \A f \in Files : \A k \in Written(f) :
    <<f, k>> \in spoiled \/ IsPrefix(copies[f][k], Content(f))

Whole(f) == \E k \in Written(f) : copies[f][k] = Content(f)

\* A download that ends without an error has got every file whole, though an upload
\* that is aborted leaves its last messages unsent.
FinishedIsComplete ==
  d.state = "stopped" /\ ~d.error =>
    \A f \in Files : Whole(f) \/ \E k \in Written(f) : <<f, k>> \in spoiled

\* A file that is there whole, under its own name and with no other download at work on
\* it, is not fetched again by a restarted download: lists that an earlier connection's
\* threads are late to send do not bring it again.  (An empty file, of which no data
\* comes, is off the list only when the next file is begun.)
NotFetchedAgainIfNamed ==
  [][\A f \in Files \ Taken :
       Size[f] > 0 /\ Whole(f) /\ Own(f) = Content(f) /\ used.foreign = 0 =>
         Len(copies'[f]) = Len(copies[f])]_vars

\* The download comes to an end: it does not restart itself for ever, and it is not
\* left waiting for an upload that stands still.
DownloadEnds == <>[](d.state \in {"stopped", "upload"})
=============================================================================
