------------------------ MODULE FileTransfer_proofs ------------------------
(***************************************************************************)
(* A download never writes a buffer that is missing, doubled, out of order *)
(* or another file's, and one that ends without an error has got every     *)
(* file whole, for any files and sizes, any number of losses, halts and    *)
(* restarts, and whatever lists of earlier connections arrive late.        *)
(*                                                                         *)
(* The argument is about the wire: every message on its way takes the      *)
(* downloader from where the messages before it have left him to the next  *)
(* buffer or, when a file is complete, to the next file, and the last one  *)
(* leaves him where the uploader stands.                                   *)
(***************************************************************************)
EXTENDS FileTransfer, FiniteSetTheorems, FunctionTheorems, TLAPS

Blocks == (Files \cup {None}) \X Nat

-----------------------------------------------------------------------------
(* The wire *)

\* A file and how much of it has been written.
Points == (Files \cup {None}) \X Int

Finished(p) == p[1] = None \/ p[2] >= Size[p[1]]

IsHeader(m) ==
  /\ m.what = "header" /\ m.f \in Files /\ m.start \in 0..Size[m.f]
  /\ m.f \in Taken => m.start = 0

IsData(m) == m.what = "data" /\ m.f \in Files /\ m.k \in 1..Size[m.f]

\* The message takes the downloader from one point to another.
Leads(m, p, q) ==
  \/ IsHeader(m) /\ Finished(p) /\ q = <<m.f, m.start>>
  \/ IsData(m) /\ p = <<m.f, m.k - 1>> /\ q = <<m.f, m.k>>
  \/ m.what \in {"drain", "eof"} /\ q = p

\* The messages do, one after the other.
Way(ms, ps) ==
  /\ \E S : ms \in Seq(S)
  /\ ps \in Seq(Points) /\ Len(ps) = Len(ms) + 1
  /\ \A i \in 1..Len(ms) : Leads(ms[i], ps[i], ps[i + 1])

Flow(ms, p, q) == \E ps : Way(ms, ps) /\ p = ps[1] /\ q = ps[Len(ps)]

LEMMA LeadsPoints ==
  ASSUME NEW m, NEW p \in Points, NEW q, Leads(m, p, q)
  PROVE  q \in Points
BY SizeAssumption DEF Leads, IsHeader, IsData, Points

LEMMA FlowEmpty ==
  ASSUME NEW p \in Points
  PROVE  Flow(<<>>, p, p)
<1>1. Way(<<>>, <<p>>)
  <2>1. <<>> \in Seq({}) /\ <<p>> \in Seq(Points) /\ Len(<<p>>) = 1
    OBVIOUS
  <2> QED
    BY <2>1 DEF Way
<1> QED
  BY <1>1 DEF Flow

LEMMA FlowPoints ==
  ASSUME NEW ms, NEW p, NEW q, Flow(ms, p, q)
  PROVE  p \in Points /\ q \in Points /\ \E S : ms \in Seq(S)
BY DEF Flow, Way

LEMMA FlowAppend ==
  ASSUME NEW ms, NEW p, NEW q, NEW r, NEW m, Flow(ms, p, q), Leads(m, q, r)
  PROVE  Flow(Append(ms, m), p, r)
<1>1. PICK ps : Way(ms, ps) /\ p = ps[1] /\ q = ps[Len(ps)]
  BY DEF Flow
<1>2. PICK S : ms \in Seq(S)
  BY <1>1 DEF Way
<1>3. ms \in Seq(S \cup {m}) /\ Append(ms, m) \in Seq(S \cup {m})
  BY <1>2
<1>4. r \in Points
  BY <1>1, LeadsPoints DEF Way
<1> DEFINE rs == Append(ps, r)
<1>5. rs \in Seq(Points) /\ Len(rs) = Len(ps) + 1 /\ rs[Len(rs)] = r
      /\ \A i \in 1..Len(ps) : rs[i] = ps[i]
  BY <1>1, <1>4 DEF Way
<1>6. Len(Append(ms, m)) = Len(ms) + 1
  BY <1>2
<1>7. ASSUME NEW i \in 1..Len(Append(ms, m))
      PROVE  Leads(Append(ms, m)[i], rs[i], rs[i + 1])
  <2>0. Len(ms) \in Nat /\ Len(ps) = Len(ms) + 1
    BY <1>1, <1>2 DEF Way
  <2>1. CASE i <= Len(ms)
    <3>1. Append(ms, m)[i] = ms[i] /\ rs[i] = ps[i] /\ rs[i + 1] = ps[i + 1]
      BY <1>2, <1>5, <2>0, <2>1
    <3> QED
      BY <1>1, <2>0, <2>1, <3>1 DEF Way
  <2>2. CASE i = Len(ms) + 1
    <3>1. Append(ms, m)[i] = m /\ rs[i] = q /\ rs[i + 1] = r
      BY <1>1, <1>2, <1>5, <2>0, <2>2
    <3> QED
      BY <3>1
  <2> QED
    BY <1>6, <2>0, <2>1, <2>2
<1>8. Way(Append(ms, m), rs)
  <2>1. Len(rs) = Len(Append(ms, m)) + 1
    BY <1>1, <1>5, <1>6 DEF Way
  <2> QED
    BY <1>3, <1>5, <1>7, <2>1 DEF Way
<1>9. rs[1] = p
  BY <1>1, <1>2, <1>5 DEF Way
<1> QED
  BY <1>5, <1>8, <1>9 DEF Flow

LEMMA FlowTail ==
  ASSUME NEW ms, NEW p, NEW q, Flow(ms, p, q), ms # <<>>
  PROVE  \E r \in Points : Leads(Head(ms), p, r) /\ Flow(Tail(ms), r, q)
<1>1. PICK ps : Way(ms, ps) /\ p = ps[1] /\ q = ps[Len(ps)]
  BY DEF Flow
<1>2. PICK S : ms \in Seq(S)
  BY <1>1 DEF Way
<1>3. Len(ms) \in Nat /\ Len(ms) > 0 /\ Len(ps) = Len(ms) + 1 /\ ps \in Seq(Points)
  BY <1>1, <1>2 DEF Way
<1>4. Leads(Head(ms), p, ps[2]) /\ ps[2] \in Points
  BY <1>1, <1>2, <1>3 DEF Way
<1> DEFINE rs == Tail(ps)
<1>5. rs \in Seq(Points) /\ Len(rs) = Len(ps) - 1 /\ \A i \in 1..Len(rs) : rs[i] = ps[i + 1]
  BY <1>3
<1>6. Tail(ms) \in Seq(S) /\ Len(Tail(ms)) = Len(ms) - 1
      /\ \A i \in 1..Len(Tail(ms)) : Tail(ms)[i] = ms[i + 1]
  BY <1>2, <1>3
<1>7. ASSUME NEW i \in 1..Len(Tail(ms)) PROVE Leads(Tail(ms)[i], rs[i], rs[i + 1])
  <2>1. i + 1 \in 1..Len(ms) /\ rs[i] = ps[i + 1] /\ rs[i + 1] = ps[(i + 1) + 1]
    BY <1>3, <1>5, <1>6
  <2> QED
    BY <1>1, <1>6, <2>1 DEF Way
<1>8. Way(Tail(ms), rs)
  BY <1>3, <1>5, <1>6, <1>7 DEF Way
<1>9. rs[1] = ps[2] /\ rs[Len(rs)] = q
  BY <1>1, <1>3, <1>5
<1> QED
  BY <1>4, <1>8, <1>9 DEF Flow

-----------------------------------------------------------------------------
(* The inductive invariant *)

\* What a hashing thread has found; it knows nothing of a file before it has read.
Found == {<<>>} \cup UNION {[w -> Seq(Blocks)] : w \in SUBSET Files}

Hashers ==
  {l \in [want : SUBSET Files, cut : BOOLEAN, read : BOOLEAN, have : Found] :
     l.read => \A f \in l.want : /\ l.have[f] \in Seq(Blocks)
                                 /\ f \in Taken => l.have[f] \in {<<>>, Foreign}}

Sent == {l \in Hashers : l.read}

Downloads ==
  [state : {"waiting", "connected", "stopped", "upload"}, want : SUBSET Files,
   orig : SUBSET Files, cur : Files \cup {None}, copy : Nat, done : Int, size : Int,
   index : Nat, total : Nat, auto : BOOLEAN, error : BOOLEAN]

IsUpload(x) ==
  /\ x = [state |-> x.state, set |-> x.set, offset |-> x.offset, iter |-> x.iter,
          cur |-> x.cur, pos |-> x.pos, opened |-> x.opened, waiting |-> x.waiting,
          local |-> x.local, calls |-> x.calls]
  /\ x.pos \in Int /\ x.opened \in BOOLEAN
  /\ x.offset \in [Files -> Nat]

TypeInv ==
  /\ d \in Downloads
  /\ copies \in [Files -> Seq(Seq(Blocks))]
  /\ hashers \in Seq(Hashers) /\ lists \in Seq(Sent) /\ exams \in Seq(Sent)
  /\ IsUpload(u)
  /\ u.state = "open" => d.state = "connected"

\* An upload never goes on at an offset beyond the file, nor at one in a file that
\* is something else in the download folder.
OffsetInv == \A f \in Files : u.offset[f] <= Size[f] /\ (f \in Taken => u.offset[f] = 0)

\* Where the uploader stands.
Stands(q) ==
  /\ u.pos >= 0 /\ u.opened => u.cur \in Files /\ u.pos <= Size[u.cur] /\ q = <<u.cur, u.pos>>
  /\ u.pos < 0 => Finished(q)

WireInv ==
  d.state = "connected" =>
    \E p \in Points : /\ Flow(net, <<d.cur, d.done>>, p)
                      /\ u.state = "open" => \E q \in Points : Flow(pipe, p, q) /\ Stands(q)

\* The beginning of the file's contents.
Begins(s, f) == Len(s) <= Size[f] /\ \A j \in 1..Len(s) : s[j] = <<f, j>>

CopiesInv ==
  /\ \A f \in Taken : copies[f] # <<>> /\ copies[f][1] = Foreign
  /\ \A f \in Files : \A k \in Written(f) : <<f, k>> \in spoiled \/ Begins(copies[f][k], f)

\* The file that is being written.
CurrentInv ==
  /\ d.state \in {"waiting", "connected"} /\ d.cur = None =>
       d.copy = 0 /\ d.done = -1 /\ d.size = -1
  /\ d.state = "connected" /\ d.cur # None =>
       /\ d.size = Size[d.cur] /\ d.done \in 0..Size[d.cur] /\ d.copy \in Written(d.cur)
       /\ <<d.cur, d.copy>> \in spoiled \/ Len(copies[d.cur][d.copy]) = d.done
  /\ d.state = "waiting" => d.cur = None /\ d.want = d.orig

CountInv ==
  d.state \in {"waiting", "connected"} => d.index + Cardinality(d.want) = d.total

Got(f) == Whole(f) \/ \E k \in Written(f) : <<f, k>> \in spoiled

\* What need not be fetched again is there.
GotInv ==
  /\ \A f \in Files \ d.orig : Got(f)
  /\ d.state = "connected" => \A f \in Files \ d.want : f = d.cur \/ Got(f)
  /\ d.state = "stopped" /\ ~d.error => \A f \in Files : Got(f)

IInv ==
  TypeInv /\ OffsetInv /\ WireInv /\ CopiesInv /\ CurrentInv /\ CountInv /\ GotInv

-----------------------------------------------------------------------------
(* Facts about files, copies and the downloading session *)

LEMMA FilesFinite == IsFiniteSet(Files)
<1>1. Request \in Seq(Files) /\ Len(Request) \in Nat /\ DOMAIN Request = 1..Len(Request)
  BY RequestAssumption
<1>2. Request \in [1..Len(Request) -> Files]
  BY <1>1
<1>3. \A f \in Files : \E i \in 1..Len(Request) : Request[i] = f
  BY <1>1 DEF Files, ToSet
<1>4. Request \in Surjection(1..Len(Request), Files)
  BY <1>2, <1>3 DEF Surjection
<1>5. IsFiniteSet(1..Len(Request))
  BY <1>1, FS_Interval
<1> QED
  BY <1>4, <1>5, FS_Surjection

LEMMA WantFinite ==
  ASSUME NEW S \in SUBSET Files
  PROVE  IsFiniteSet(S) /\ Cardinality(S) \in Nat
BY FilesFinite, FS_Subset, FS_CardinalityType

LEMMA ContentType ==
  ASSUME NEW f \in Files
  PROVE  /\ Content(f) \in Seq(Blocks) /\ Len(Content(f)) = Size[f] /\ Size[f] \in Nat
         /\ \A j \in 1..Size[f] : Content(f)[j] = <<f, j>>
<1>1. Size[f] \in Nat
  BY SizeAssumption
<1>2. Content(f) \in [1..Size[f] -> Blocks]
  BY <1>1 DEF Content, Blocks
<1> QED
  BY <1>1, <1>2 DEF Content

LEMMA BeginsIsPrefix ==
  ASSUME NEW f \in Files, NEW s \in Seq(Blocks)
  PROVE  Begins(s, f) <=> IsPrefix(s, Content(f))
<1>1. Content(f) \in Seq(Blocks) /\ Len(Content(f)) = Size[f] /\ Size[f] \in Nat
      /\ \A j \in 1..Size[f] : Content(f)[j] = <<f, j>>
  BY ContentType
<1>2. SubSeq(s, 1, Len(s)) = s
  OBVIOUS
<1>3. ASSUME Begins(s, f) PROVE IsPrefix(s, Content(f))
  <2> DEFINE t == SubSeq(Content(f), 1, Len(s))
  <2>1. t \in Seq(Blocks) /\ Len(t) = Len(s) /\ \A j \in 1..Len(s) : t[j] = Content(f)[j]
    BY <1>1, <1>3 DEF Begins
  <2>2. \A j \in 1..Len(s) : t[j] = s[j]
    BY <1>1, <1>3, <2>1 DEF Begins
  <2> HIDE DEF t
  <2>3. t = s
    BY <2>1, <2>2
  <2> QED
    BY <1>1, <1>2, <1>3, <2>3 DEF Begins, IsPrefix, t
<1>4. ASSUME IsPrefix(s, Content(f)) PROVE Begins(s, f)
  <2>1. Len(s) <= Size[f] /\ s = SubSeq(Content(f), 1, Len(s))
    BY <1>1, <1>2, <1>4 DEF IsPrefix
  <2>2. \A j \in 1..Len(s) : SubSeq(Content(f), 1, Len(s))[j] = Content(f)[j]
    BY <1>1, <2>1
  <2>3. \A j \in 1..Len(s) : s[j] = <<f, j>>
    BY <1>1, <2>1, <2>2
  <2> QED
    BY <2>1, <2>3 DEF Begins
<1> QED
  BY <1>3, <1>4

LEMMA BeginsWhole ==
  ASSUME NEW f \in Files, NEW s \in Seq(Blocks), Begins(s, f), Len(s) >= Size[f]
  PROVE  s = Content(f)
<1>1. Content(f) \in Seq(Blocks) /\ Len(Content(f)) = Size[f] /\ Size[f] \in Nat
      /\ \A j \in 1..Size[f] : Content(f)[j] = <<f, j>>
  BY ContentType
<1> HIDE DEF Content
<1>2. Len(s) = Size[f]
  BY <1>1 DEF Begins
<1>3. \A j \in 1..Len(s) : s[j] = Content(f)[j]
  BY <1>1, <1>2 DEF Begins
<1> QED
  BY <1>1, <1>2, <1>3

\* What the uploader takes for his own file is no longer than it, and not the foreign
\* contents that a taken name has.
LEMMA CheckedOffsetOK ==
  ASSUME NEW l \in Sent, NEW f \in l.want
  PROVE  /\ CheckedOffset(f, l.have[f]) \in 0..Size[f]
         /\ f \in Taken => CheckedOffset(f, l.have[f]) = 0
<1>1. f \in Files /\ l.have[f] \in Seq(Blocks)
      /\ (f \in Taken => l.have[f] \in {<<>>, Foreign})
  BY DEF Sent, Hashers
<1>2. Size[f] \in Nat
  BY <1>1, SizeAssumption
<1>3. IsPrefix(l.have[f], Content(f)) => Begins(l.have[f], f)
  BY <1>1, BeginsIsPrefix
<1>4. Len(l.have[f]) \in Nat
  BY <1>1
<1>5. CheckedOffset(f, l.have[f]) \in 0..Size[f]
  BY <1>2, <1>3, <1>4 DEF CheckedOffset, Begins
<1>6. ~Begins(Foreign, f)
  BY <1>1, FilesAssumption DEF Begins, Foreign
<1> QED
  BY <1>1, <1>3, <1>5, <1>6 DEF CheckedOffset

\* A complete current file is there.
LEMMA CurrentGot ==
  ASSUME IInv, d.state = "connected", d.cur # None, d.done >= Size[d.cur]
  PROVE  Got(d.cur)
<1>1. d.cur \in Files /\ d.copy \in Written(d.cur)
      /\ (<<d.cur, d.copy>> \in spoiled \/ Len(copies[d.cur][d.copy]) = d.done)
  BY DEF IInv, TypeInv, Downloads, CurrentInv
<1>2. CASE <<d.cur, d.copy>> \in spoiled
  BY <1>1, <1>2 DEF Got
<1>3. CASE <<d.cur, d.copy>> \notin spoiled
  <2>1. Begins(copies[d.cur][d.copy], d.cur) /\ Len(copies[d.cur][d.copy]) = d.done
    BY <1>1, <1>3 DEF IInv, CopiesInv
  <2>2. copies[d.cur][d.copy] \in Seq(Blocks)
    BY <1>1 DEF IInv, TypeInv, Written
  <2>3. copies[d.cur][d.copy] = Content(d.cur)
    BY <1>1, <2>1, <2>2, BeginsWhole
  <2> QED
    BY <1>1, <2>3 DEF Got, Whole
<1> QED
  BY <1>2, <1>3

\* A session that has no connection: it waits for the next one, with everything that
\* is left to be fetched, or has ended.
Rests(x) ==
  /\ x \in Downloads /\ x.state # "connected"
  /\ x.state = "waiting" => /\ x.cur = None /\ x.copy = 0 /\ x.done = -1 /\ x.size = -1
                            /\ x.want = x.orig /\ x.index + Cardinality(x.want) = x.total

LEMMA RestartedRests ==
  ASSUME NEW x, x.orig \in SUBSET Files
  PROVE  Rests(Restarted(x)) /\ Restarted(x).orig = x.orig /\ Restarted(x).state # "stopped"
<1>1. Cardinality(x.orig) \in Nat
  BY WantFinite
<1>2. Restarted(x) \in Downloads
  BY <1>1 DEF Restarted, Downloads
<1> QED
  BY <1>1, <1>2 DEF Restarted, Rests

LEMMA AbortedRests ==
  ASSUME NEW x \in Downloads
  PROVE  /\ Rests(Aborted(x)) /\ Aborted(x).orig = x.orig
         /\ Aborted(x).state = "stopped" => Aborted(x).error
<1>1. CASE x.auto
  BY <1>1, RestartedRests DEF Aborted, Downloads
<1>2. CASE ~x.auto
  <2>1. Aborted(x) = [x EXCEPT !.state = "stopped", !.done = -1, !.size = -1, !.error = TRUE]
    BY <1>2 DEF Aborted
  <2>2. Aborted(x) \in Downloads
    <3>1. Aborted(x) = [state |-> "stopped", want |-> x.want, orig |-> x.orig,
                        cur |-> x.cur, copy |-> x.copy, done |-> -1, size |-> -1,
                        index |-> x.index, total |-> x.total, auto |-> x.auto,
                        error |-> TRUE]
      BY <2>1 DEF Downloads
    <3> QED
      BY <3>1 DEF Downloads
  <2>3. Aborted(x).state = "stopped" /\ Aborted(x).error = TRUE /\ Aborted(x).orig = x.orig
    BY <2>1 DEF Downloads
  <2> QED
    BY <2>2, <2>3 DEF Rests
<1> QED
  BY <1>1, <1>2

\* Nothing that was got is lost while the copies stay as they are.
LEMMA GotStays ==
  ASSUME UNCHANGED <<copies, spoiled>>
  PROVE  \A f \in Files : Got(f)' <=> Got(f)
BY DEF Got, Whole, Written

LEMMA CopiesStay ==
  ASSUME CopiesInv, UNCHANGED <<copies, spoiled>>
  PROVE  CopiesInv'
BY DEF CopiesInv, Written, Begins

\* The connection is gone and the session rests.
LEMMA Resting ==
  ASSUME IInv, UNCHANGED <<copies, spoiled>>, Rests(d'),
         hashers' \in Seq(Hashers), lists' \in Seq(Sent), exams' \in Seq(Sent),
         IsUpload(u'), u'.offset = u.offset, u'.state # "open",
         \A f \in Files \ d'.orig : Got(f),
         d'.state = "stopped" /\ ~d'.error => \A f \in Files : Got(f)
  PROVE  IInv'
<1>1. TypeInv'
  BY DEF IInv, TypeInv, Rests
<1>2. OffsetInv' /\ CopiesInv'
  BY CopiesStay DEF IInv, OffsetInv
<1>3. WireInv' /\ CurrentInv' /\ CountInv'
  BY DEF Rests, WireInv, CurrentInv, CountInv
<1>4. GotInv'
  BY GotStays DEF Rests, GotInv
<1> QED
  BY <1>1, <1>2, <1>3, <1>4 DEF IInv

LEMMA HangupType ==
  ASSUME IsUpload(u), Hangup
  PROVE  /\ IsUpload(u') /\ u'.offset = u.offset /\ u'.state # "open"
         /\ lists' \in Seq(Sent) /\ exams' \in Seq(Sent)
<1>1. u' = [state |-> "closed", set |-> u.set, offset |-> u.offset, iter |-> u.iter,
            cur |-> u.cur, pos |-> u.pos, opened |-> u.opened, waiting |-> u.waiting,
            local |-> u.local, calls |-> 0]
  BY DEF Hangup, IsUpload
<1>2. lists' \in Seq(Sent) /\ exams' \in Seq(Sent)
  BY DEF Hangup
<1> QED
  BY <1>1, <1>2 DEF IsUpload

-----------------------------------------------------------------------------
(* The steps of the downloader *)

LEMMA InitInv == Init => IInv
<1> SUFFICES ASSUME Init PROVE IInv
  OBVIOUS
<1>1. d = Restarted([orig |-> Files, index |-> 0])
  BY DEF Init
<1>2. Rests(d) /\ d.orig = Files /\ d.state # "stopped"
  BY <1>1, RestartedRests
<1>3. Foreign \in Seq(Blocks)
  BY DEF Foreign, Blocks
<1>4. copies \in [Files -> Seq(Seq(Blocks))]
      /\ \A f \in Files : copies[f] = IF f \in Taken THEN <<Foreign>> ELSE <<>>
  BY <1>3 DEF Init
<1>5. IsUpload(u) /\ OffsetInv /\ u.state = "none"
  BY SizeAssumption DEF Init, NoUpload, IsUpload, OffsetInv
<1>6. TypeInv
  BY <1>2, <1>4, <1>5 DEF Init, TypeInv, Rests
<1>7. CopiesInv
  BY <1>4, FilesAssumption DEF CopiesInv, Written
<1>8. WireInv /\ CurrentInv /\ CountInv /\ GotInv
  BY <1>2 DEF Rests, WireInv, CurrentInv, CountInv, GotInv
<1> QED
  BY <1>5, <1>6, <1>7, <1>8 DEF IInv

LEMMA ConnectInv == IInv /\ Connect => IInv'
<1> SUFFICES ASSUME IInv, Connect PROVE IInv'
  OBVIOUS
<1>1. /\ d.state = "waiting" /\ d' = [d EXCEPT !.state = "connected"]
      /\ net' = <<>> /\ pipe' = <<>> /\ UNCHANGED <<copies, spoiled>>
      /\ lists' = <<>> /\ exams' = <<>>
  BY DEF Connect
<1>2. d \in Downloads /\ d'\in Downloads
  BY <1>1 DEF IInv, TypeInv, Downloads
<1>3. /\ d'.state = "connected" /\ d'.want = d.want /\ d'.orig = d.orig /\ d'.cur = d.cur
      /\ d'.copy = d.copy /\ d'.done = d.done /\ d'.size = d.size /\ d'.index = d.index
      /\ d'.total = d.total
  BY <1>1, <1>2 DEF Downloads
<1>4. /\ d.cur = None /\ d.copy = 0 /\ d.done = -1 /\ d.size = -1 /\ d.want = d.orig
      /\ d.index + Cardinality(d.want) = d.total
  BY <1>1 DEF IInv, CurrentInv, CountInv
<1>5. IsUpload(u') /\ OffsetInv' /\ u'.pos = -1
  <2>1. u' = [state |-> "open", set |-> <<>>, offset |-> [f \in Files |-> 0], iter |-> 1,
              cur |-> None, pos |-> -1, opened |-> FALSE, waiting |-> FALSE, local |-> TRUE,
              calls |-> 0]
    BY DEF Connect, NoUpload
  <2>2. IsUpload(u') /\ u'.pos = -1
    BY <2>1 DEF IsUpload
  <2>3. \A f \in Files : u'.offset[f] = 0 /\ Size[f] \in Nat
    BY <2>1, SizeAssumption
  <2> QED
    BY <2>2, <2>3 DEF OffsetInv
<1>6. hashers' \in Seq(Hashers)
  <2>1. [want |-> d.want, cut |-> FALSE, read |-> FALSE, have |-> <<>>] \in Hashers
    BY <1>2 DEF Hashers, Found, Downloads
  <2> QED
    BY <2>1 DEF Connect, IInv, TypeInv
<1>7. TypeInv'
  BY <1>1, <1>2, <1>3, <1>5, <1>6 DEF IInv, TypeInv
<1>8. WireInv'
  <2>1. <<None, -1>> \in Points /\ Finished(<<None, -1>>)
    BY DEF Points, Finished
  <2>2. Flow(<<>>, <<None, -1>>, <<None, -1>>)
    BY <2>1, FlowEmpty
  <2>3. Stands(<<None, -1>>)'
    BY <1>5, <2>1 DEF Stands
  <2> QED
    BY <1>1, <1>3, <1>4, <2>1, <2>2, <2>3 DEF WireInv
<1>9. CopiesInv' /\ CurrentInv' /\ CountInv'
  BY <1>1, <1>3, <1>4, CopiesStay DEF IInv, CurrentInv, CountInv
<1>10. GotInv'
  BY <1>1, <1>3, <1>4, GotStays DEF IInv, GotInv
<1> QED
  BY <1>5, <1>7, <1>8, <1>9, <1>10 DEF IInv

\* What a thread reads is what is there, and its list is sent or dropped.
LEMMA HashersInv ==
  ASSUME IInv, NEW i \in DOMAIN hashers, Hash(i) \/ Md5SendDone(i)
  PROVE  IInv'
<1>1. hashers \in Seq(Hashers) /\ hashers[i] \in Hashers /\ i \in 1..Len(hashers)
  BY DEF IInv, TypeInv
<1>2. /\ UNCHANGED <<d, copies, u, pipe, net, spoiled, exams>>
  BY DEF Hash, Md5SendDone
<1>3. hashers' \in Seq(Hashers) /\ lists' \in Seq(Sent)
  <2>1. CASE Hash(i)
    <3>1. PICK listed \in SUBSET hashers[i].want : \E hashed \in SUBSET listed :
            hashers' = [hashers EXCEPT ![i] =
              [want |-> listed, cut |-> FALSE, read |-> TRUE,
               have |-> [f \in listed |-> IF f \in hashed THEN Own(f) ELSE <<>>]]]
      BY <2>1 DEF Hash
    <3>2. PICK hashed \in SUBSET listed :
            hashers' = [hashers EXCEPT ![i] =
              [want |-> listed, cut |-> FALSE, read |-> TRUE,
               have |-> [f \in listed |-> IF f \in hashed THEN Own(f) ELSE <<>>]]]
      BY <3>1
    <3> DEFINE have == [f \in listed |-> IF f \in hashed THEN Own(f) ELSE <<>>]
    <3>3. listed \in SUBSET Files
      BY <1>1 DEF Hashers
    <3>4. \A f \in Files : /\ Own(f) \in Seq(Blocks)
                           /\ f \in Taken => Own(f) = Foreign
      BY DEF Own, IInv, TypeInv, CopiesInv
    <3>5. have \in [listed -> Seq(Blocks)]
          /\ \A f \in listed : f \in Taken => have[f] \in {<<>>, Foreign}
      BY <3>3, <3>4
    <3> HIDE DEF have
    <3>6. [want |-> listed, cut |-> FALSE, read |-> TRUE, have |-> have] \in Hashers
      BY <3>3, <3>5 DEF Hashers, Found
    <3>7. hashers' = [hashers EXCEPT ![i] =
                        [want |-> listed, cut |-> FALSE, read |-> TRUE, have |-> have]]
      BY <3>2 DEF have
    <3>8. hashers' \in Seq(Hashers)
      BY <1>1, <3>6, <3>7
    <3> QED
      BY <2>1, <3>8 DEF Hash, IInv, TypeInv
  <2>2. CASE Md5SendDone(i)
    <3>1. hashers[i] \in Sent
      BY <1>1, <2>2 DEF Md5SendDone, Sent
    <3>2. RemoveAt(hashers, i) \in Seq(Hashers)
      BY <1>1 DEF RemoveAt
    <3> QED
      BY <2>2, <3>1, <3>2 DEF Md5SendDone, IInv, TypeInv
  <2> QED
    BY <2>1, <2>2
<1>4. TypeInv'
  BY <1>2, <1>3 DEF IInv, TypeInv
<1>5. OffsetInv' /\ WireInv' /\ CurrentInv' /\ CountInv'
  BY <1>2 DEF IInv, OffsetInv, WireInv, Stands, CurrentInv, CountInv, Written
<1>6. CopiesInv' /\ GotInv'
  BY <1>2, CopiesStay, GotStays DEF IInv, GotInv
<1> QED
  BY <1>4, <1>5, <1>6 DEF IInv

\* A file that was got stays so when no whole copy of it changes.
LEMMA GotKept ==
  ASSUME NEW f \in Files, Got(f), spoiled \subseteq spoiled',
         DOMAIN copies[f] \subseteq DOMAIN copies'[f],
         \A k \in Written(f) : copies'[f][k] = copies[f][k] \/ copies[f][k] # Content(f)
  PROVE  Got(f)'
<1>1. Written(f) \subseteq Written(f)'
  BY DEF Written
<1>2. CASE Whole(f)
  BY <1>1, <1>2 DEF Got, Whole, Content
<1>3. CASE \E k \in Written(f) : <<f, k>> \in spoiled
  BY <1>1, <1>3 DEF Got
<1> QED
  BY <1>2, <1>3 DEF Got

\* A header comes when the file before it is complete.
LEMMA HeaderComes ==
  ASSUME IInv, d.state = "connected", net # <<>>, Head(net).what = "header"
  PROVE  /\ IsHeader(Head(net)) /\ Finished(<<d.cur, d.done>>)
         /\ \E p \in Points :
              /\ Flow(Tail(net), <<Head(net).f, Head(net).start>>, p)
              /\ u.state = "open" => \E q \in Points : Flow(pipe, p, q) /\ Stands(q)
<1>1. PICK p \in Points :
        /\ Flow(net, <<d.cur, d.done>>, p)
        /\ u.state = "open" => \E q \in Points : Flow(pipe, p, q) /\ Stands(q)
  BY DEF IInv, WireInv
<1>2. PICK r \in Points : Leads(Head(net), <<d.cur, d.done>>, r) /\ Flow(Tail(net), r, p)
  BY <1>1, FlowTail
<1>3. IsHeader(Head(net)) /\ Finished(<<d.cur, d.done>>)
      /\ r = <<Head(net).f, Head(net).start>>
  BY <1>2 DEF Leads, IsData
<1> QED
  BY <1>1, <1>2, <1>3

\* What a new header strikes off the session's list is there.
LEMMA BegunGot ==
  ASSUME IInv, d.state = "connected", Finished(<<d.cur, d.done>>), NEW f \in d.want
  PROVE  /\ d.cur \in Files => Got(d.cur)
         /\ \A g \in Files \ Begun(d, f).orig : Got(g)
         /\ Begun(d, f) \in Downloads
<1>1. d \in Downloads /\ (d.cur = None => d.copy = 0)
  BY DEF IInv, TypeInv, CurrentInv
<1>2. d.cur \in Files => Got(d.cur)
  BY CurrentGot, FilesAssumption DEF Finished
<1>3. Begun(d, f).orig = IF d.copy = 1 THEN d.orig \ {d.cur} ELSE d.orig
  BY <1>1 DEF Begun, Downloads
<1>4. Begun(d, f) \in Downloads
  BY <1>1 DEF Begun, Downloads
<1> QED
  BY <1>1, <1>2, <1>3, <1>4 DEF Downloads, IInv, GotInv

LEMMA BegunRecord ==
  ASSUME NEW x \in Downloads, NEW f
  PROVE  Begun(x, f) =
           [state |-> x.state, want |-> x.want \ {f},
            orig |-> IF x.copy = 1 THEN x.orig \ {x.cur} ELSE x.orig, cur |-> x.cur,
            copy |-> x.copy, done |-> x.done, size |-> x.size, index |-> x.index,
            total |-> x.total, auto |-> x.auto, error |-> x.error]
<1> DEFINE orig == IF x.copy = 1 THEN x.orig \ {x.cur} ELSE x.orig
<1>1. Begun(x, f) = [x EXCEPT !.want = x.want \ {f}, !.orig = orig]
  BY DEF Begun, Downloads
<1> HIDE DEF orig
<1>2. Begun(x, f) =
        [state |-> x.state, want |-> x.want \ {f}, orig |-> orig, cur |-> x.cur,
         copy |-> x.copy, done |-> x.done, size |-> x.size, index |-> x.index,
         total |-> x.total, auto |-> x.auto, error |-> x.error]
  BY <1>1 DEF Downloads
<1> QED
  BY <1>2 DEF orig

LEMMA FileHeaderInv == IInv /\ FileHeader => IInv'
<1> SUFFICES ASSUME IInv, FileHeader PROVE IInv'
  OBVIOUS
<1>h. PICK h : h = Head(net)
  OBVIOUS
<1> DEFINE f == h.f
           start == h.start
           new == Fallback(f, start) \/ copies[f] = <<>>
           named == new => Len(copies[f]) < MaxNames
           copy == IF new THEN Len(copies[f]) + 1 ELSE 1
<1>0. d.state = "connected" /\ net # <<>> /\ h.what = "header" /\ d \in Downloads
  BY <1>h DEF FileHeader, IInv, TypeInv
<1>1. PICK p \in Points :
        /\ IsHeader(h) /\ Finished(<<d.cur, d.done>>)
        /\ Flow(Tail(net), <<f, start>>, p)
        /\ u.state = "open" => \E q \in Points : Flow(pipe, p, q) /\ Stands(q)
  BY <1>0, <1>h, HeaderComes
<1>2. /\ f \in Files /\ start \in Nat /\ start <= Size[f] /\ (f \in Taken => start = 0)
      /\ Size[f] \in Nat
  BY <1>1, SizeAssumption DEF IsHeader
<1>3. CASE f \in d.want /\ named
  <2>1. /\ net' = Tail(net)
        /\ copies' = IF new THEN [copies EXCEPT ![f] = Append(@, <<>>)] ELSE copies
        /\ d' = [Begun(d, f) EXCEPT !.cur = f, !.copy = copy, !.done = start,
                                    !.size = Size[f], !.index = @ + 1]
        /\ spoiled' = IF new /\ start > 0 THEN spoiled \cup {<<f, copy>>} ELSE spoiled
        /\ UNCHANGED <<lists, u, exams, pipe, hashers>>
    BY <1>3, <1>h DEF FileHeader
  <2>2. /\ \A g \in Files : copies[g] \in Seq(Seq(Blocks)) /\ Len(copies[g]) \in Nat
        /\ <<>> \in Seq(Blocks)
    BY DEF IInv, TypeInv
  <2>3. /\ copy \in Nat
        /\ new => Append(copies[f], <<>>) \in Seq(Seq(Blocks)) /\ Len(copies'[f]) = copy
                  /\ copies'[f][copy] = <<>>
        /\ \A k \in 1..Len(copies[f]) : copies'[f][k] = copies[f][k]
        /\ \A g \in Files : g # f => copies'[g] = copies[g]
        /\ copies' \in [Files -> Seq(Seq(Blocks))]
        /\ Len(copies[f]) <= Len(copies'[f])
        /\ ~new => Len(copies'[f]) = Len(copies[f])
    BY <1>2, <2>1, <2>2 DEF IInv, TypeInv
  <2>4. ~new => /\ start > 0 /\ f \notin Taken /\ copies[f] # <<>>
                /\ Len(copies[f][1]) = start
    BY <1>2 DEF Fallback, Own
  <2>5. f \in Taken => new /\ Len(copies[f]) > 0
    BY <2>2, <2>4 DEF IInv, CopiesInv
  <2> DEFINE orig == IF d.copy = 1 THEN d.orig \ {d.cur} ELSE d.orig
  <2>6. d' = [state |-> "connected", want |-> d.want \ {f}, orig |-> orig, cur |-> f,
              copy |-> copy, done |-> start, size |-> Size[f], index |-> d.index + 1,
              total |-> d.total, auto |-> d.auto, error |-> d.error]
    <3> HIDE DEF f, start, copy
    <3>1. Begun(d, f) =
            [state |-> d.state, want |-> d.want \ {f}, orig |-> orig, cur |-> d.cur,
             copy |-> d.copy, done |-> d.done, size |-> d.size, index |-> d.index,
             total |-> d.total, auto |-> d.auto, error |-> d.error]
      BY <1>0, BegunRecord
    <3>2. PICK b : b = Begun(d, f)
      OBVIOUS
    <3>3. d' = [b EXCEPT !.cur = f, !.copy = copy, !.done = start, !.size = Size[f],
                         !.index = @ + 1]
      BY <2>1, <3>2
    <3> HIDE DEF orig
    <3>4. d.index \in Nat
      BY <1>0 DEF Downloads
    <3>5. b = [state |-> d.state, want |-> d.want \ {f}, orig |-> orig, cur |-> d.cur,
               copy |-> d.copy, done |-> d.done, size |-> d.size, index |-> d.index,
               total |-> d.total, auto |-> d.auto, error |-> d.error]
      BY <3>1, <3>2
    <3>6. d' = [state |-> d.state, want |-> d.want \ {f}, orig |-> orig, cur |-> f,
                copy |-> copy, done |-> start, size |-> Size[f], index |-> d.index + 1,
                total |-> d.total, auto |-> d.auto, error |-> d.error]
      BY <3>3, <3>4, <3>5
    <3> QED
      BY <1>0, <3>6
  <2>7. orig \in SUBSET Files /\ Begun(d, f).orig = orig
    BY <1>0 DEF Begun, Downloads
  <2> HIDE DEF orig, copy, start, new, f
  <2>8. d' \in Downloads
    <3>1. d.want \ {f} \in SUBSET Files /\ d.index + 1 \in Nat /\ d.total \in Nat
          /\ start \in Int /\ Size[f] \in Int /\ d.auto \in BOOLEAN /\ d.error \in BOOLEAN
      BY <1>0, <1>2 DEF Downloads
    <3> QED
      BY <1>2, <2>3, <2>6, <2>7, <3>1 DEF Downloads
  <2>9. TypeInv'
    <3>1. d'.state = "connected"
      BY <2>6
    <3> QED
      BY <2>1, <2>3, <2>8, <3>1 DEF IInv, TypeInv
  <2>0. /\ \A g \in Files : DOMAIN copies[g] = 1..Len(copies[g])
        /\ \A g \in Files : DOMAIN copies'[g] = 1..Len(copies'[g])
        /\ new => Len(copies'[f]) = Len(copies[f]) + 1
    BY <2>2, <2>3 DEF copy
  <2>10. WireInv'
    BY <1>1, <2>1, <2>6 DEF WireInv, Stands
  <2>11. copy \in Written(f)'
    BY <1>2, <2>0, <2>2, <2>3, <2>4, <2>5 DEF Written, copy
  <2>12. Written(f)' \subseteq Written(f) \cup (IF new THEN {copy} ELSE {})
    BY <1>2, <2>0, <2>2, <2>3 DEF Written, copy
  <2>13. CopiesInv'
    <3>1. \A g \in Taken : copies'[g] # <<>> /\ copies'[g][1] = Foreign
      <4> SUFFICES ASSUME NEW g \in Taken PROVE copies'[g] # <<>> /\ copies'[g][1] = Foreign
        OBVIOUS
      <4>1. copies[g] # <<>> /\ copies[g][1] = Foreign /\ g \in Files
        BY FilesAssumption DEF IInv, CopiesInv
      <4>2. CASE g = f
        <5>1. 1 \in 1..Len(copies[f])
          BY <2>2, <4>1, <4>2
        <5>2. copies'[f][1] = Foreign /\ Len(copies'[f]) > 0
          BY <2>2, <2>3, <4>1, <4>2, <5>1
        <5> QED
          BY <4>2, <5>2
      <4> QED
        BY <2>3, <4>1, <4>2
    <3>2. \A g \in Files : \A k \in Written(g)' : <<g, k>> \in spoiled' \/ Begins(copies'[g][k], g)
      <4> SUFFICES ASSUME NEW g \in Files, NEW k \in Written(g)'
                   PROVE  <<g, k>> \in spoiled' \/ Begins(copies'[g][k], g)
        OBVIOUS
      <4>1. CASE k \in Written(g)
        <5>1. copies'[g][k] = copies[g][k]
          BY <2>0, <2>3, <4>1 DEF Written
        <5> QED
          BY <2>1, <4>1, <5>1 DEF IInv, CopiesInv
      <4>2. CASE k \notin Written(g)
        <5>1. g = f /\ new /\ k = copy
          BY <2>0, <2>3, <2>12, <4>2 DEF Written
        <5>2. copies'[g][k] = <<>>
          BY <2>3, <5>1
        <5> QED
          BY <1>2, <5>1, <5>2 DEF Begins
      <4> QED
        BY <4>1, <4>2
    <3> QED
      BY <3>1, <3>2 DEF CopiesInv, Begins
  <2>14. CurrentInv'
    <3>1. <<f, copy>> \in spoiled' \/ Len(copies'[f][copy]) = start
      <4>1. CASE new /\ start > 0
        BY <2>1, <4>1
      <4>2. CASE new /\ ~(start > 0)
        BY <1>2, <2>3, <4>2
      <4>3. CASE ~new
        <5>1. copy = 1 /\ 1 \in 1..Len(copies[f])
          BY <2>2, <2>4, <4>3 DEF copy
        <5> QED
          BY <2>3, <2>4, <4>3, <5>1
      <4> QED
        BY <4>1, <4>2, <4>3
    <3>2. f # None
      BY <1>2, FilesAssumption
    <3> QED
      <4>1. /\ d'.state = "connected" /\ d'.cur = f /\ d'.size = Size[f]
            /\ d'.done = start /\ d'.copy = copy
        BY <2>6
      <4>2. start \in 0..Size[f]
        BY <1>2
      <4> QED
        BY <2>11, <3>1, <3>2, <4>1, <4>2 DEF CurrentInv
  <2>15. CountInv'
    <3>1. IsFiniteSet(d.want) /\ Cardinality(d.want) \in Nat
      BY <1>0, WantFinite DEF Downloads
    <3>2. Cardinality(d.want \ {f}) = Cardinality(d.want) - 1
      BY <1>3, <3>1, FS_RemoveElement DEF f
    <3>3. d.index + Cardinality(d.want) = d.total /\ d.index \in Nat /\ d.total \in Nat
      BY <1>0 DEF IInv, CountInv, Downloads
    <3> QED
      BY <2>6, <3>1, <3>2, <3>3 DEF CountInv
  <2>16. ASSUME NEW g \in Files, Got(g) PROVE Got(g)'
    <3>1. spoiled \subseteq spoiled'
      BY <2>1
    <3>2. DOMAIN copies[g] \subseteq DOMAIN copies'[g]
      <4>1. CASE g = f
        <5>1. Len(copies[f]) \in Nat /\ Len(copies'[f]) \in Nat
          BY <1>2, <2>2, <2>3
        <5> QED
          BY <1>2, <2>0, <2>3, <4>1, <5>1
      <4> QED
        BY <2>3, <4>1
    <3>3. \A k \in Written(g) : copies'[g][k] = copies[g][k]
      BY <1>2, <2>0, <2>3 DEF Written
    <3> QED
      BY <2>16, <3>1, <3>2, <3>3, GotKept
  <2>17. GotInv'
    <3>1. (d.cur \in Files => Got(d.cur)) /\ \A g \in Files \ orig : Got(g)
      BY <1>0, <1>1, <1>3, <2>7, BegunGot DEF f
    <3>2. \A g \in Files \ d.want : g = d.cur \/ Got(g)
      BY <1>0 DEF IInv, GotInv
    <3> QED
      BY <2>6, <2>16, <3>1, <3>2 DEF GotInv
  <2>18. OffsetInv'
    BY <2>1 DEF IInv, OffsetInv
  <2> QED
    BY <2>9, <2>10, <2>13, <2>14, <2>15, <2>17, <2>18 DEF IInv
<1>4. CASE ~(f \in d.want /\ named)
  <2> DEFINE x == IF f \in d.want THEN Begun(d, f) ELSE d
  <2>1. d' = Aborted(x) /\ Hangup /\ UNCHANGED <<copies, spoiled, hashers>>
    BY <1>4, <1>h DEF FileHeader
  <2>2. x \in Downloads /\ \A g \in Files \ x.orig : Got(g)
    BY <1>0, <1>1, BegunGot DEF IInv, GotInv
  <2> HIDE DEF x
  <2>3. Rests(d') /\ d'.orig = x.orig /\ (d'.state = "stopped" => d'.error)
    BY <2>1, <2>2, AbortedRests
  <2>4. hashers' \in Seq(Hashers) /\ IsUpload(u)
    BY <2>1 DEF IInv, TypeInv
  <2> QED
    BY <2>1, <2>2, <2>3, <2>4, HangupType, Resting
<1> QED
  BY <1>3, <1>4

\* A buffer is the next one of the file that is being written.
LEMMA FileDataInv == IInv /\ FileData => IInv'
<1> SUFFICES ASSUME IInv, FileData PROVE IInv'
  OBVIOUS
<1>1. PICK f, n, h, done : f = d.cur /\ n = d.copy /\ h = Head(net) /\ done = d.done
  OBVIOUS
<1>2. /\ d.state = "connected" /\ net # <<>> /\ h.what = "data" /\ d \in Downloads
      /\ copies' = [copies EXCEPT ![f][n] = Append(@, <<h.f, h.k>>)]
      /\ d' = DataWritten(d) /\ net' = Tail(net)
      /\ UNCHANGED <<hashers, lists, u, exams, pipe, spoiled>>
  BY <1>1 DEF FileData, IInv, TypeInv
<1>3. PICK p \in Points :
        /\ Flow(net, <<f, done>>, p)
        /\ u.state = "open" => \E q \in Points : Flow(pipe, p, q) /\ Stands(q)
  BY <1>1, <1>2 DEF IInv, WireInv
<1>4. PICK r \in Points : Leads(h, <<f, done>>, r) /\ Flow(Tail(net), r, p)
  BY <1>1, <1>2, <1>3, FlowTail
<1>5. h.f \in Files /\ h.k \in 1..Size[h.f] /\ <<f, done>> = <<h.f, h.k - 1>> /\ r = <<h.f, h.k>>
  BY <1>2, <1>4 DEF Leads, IsData, IsHeader
<1>6. /\ f \in Files /\ f # None /\ Size[f] \in Nat /\ done \in Nat /\ done + 1 <= Size[f]
      /\ h.f = f /\ h.k = done + 1 /\ r = <<f, done + 1>>
  <2>1. f \in Files /\ Size[f] \in Nat /\ h.f = f /\ done = h.k - 1
    BY <1>5, SizeAssumption
  <2> QED
    BY <1>5, <2>1, FilesAssumption
<1>7. /\ d.size = Size[f] /\ n \in Written(f)
      /\ <<f, n>> \in spoiled \/ Len(copies[f][n]) = done
  BY <1>1, <1>2, <1>6 DEF IInv, CurrentInv
<1> DEFINE s == Append(copies[f][n], <<f, done + 1>>)
<1>8. /\ copies[f] \in Seq(Seq(Blocks)) /\ n \in DOMAIN copies[f] /\ n \in Nat
      /\ copies[f][n] \in Seq(Blocks) /\ (f \in Taken => n > 1)
  BY <1>6, <1>7 DEF IInv, TypeInv, Written
<1>9. <<f, done + 1>> \in Blocks
  BY <1>6 DEF Blocks
<1>10. s \in Seq(Blocks) /\ Len(s) = Len(copies[f][n]) + 1 /\ s[Len(s)] = <<f, done + 1>>
       /\ \A j \in 1..Len(copies[f][n]) : s[j] = copies[f][n][j]
  BY <1>8, <1>9
<1>11. copies' = [copies EXCEPT ![f] = [copies[f] EXCEPT ![n] = s]]
  BY <1>2, <1>6
<1> HIDE DEF s
<1>12. [copies[f] EXCEPT ![n] = s] \in Seq(Seq(Blocks))
  BY <1>8, <1>10
<1>13. /\ copies' \in [Files -> Seq(Seq(Blocks))]
       /\ \A g \in Files : DOMAIN copies'[g] = DOMAIN copies[g]
       /\ copies'[f][n] = s
       /\ \A g \in Files : \A k \in DOMAIN copies[g] :
            <<g, k>> # <<f, n>> => copies'[g][k] = copies[g][k]
  BY <1>6, <1>8, <1>11, <1>12 DEF IInv, TypeInv
<1>14. \A g \in Files : Written(g)' = Written(g)
  BY <1>13 DEF Written
<1> DEFINE orig == IF done + 1 >= Size[f] /\ n = 1 THEN d.orig \ {f} ELSE d.orig
<1>15. orig \in SUBSET Files
  BY <1>2 DEF Downloads
<1>16. d' = [state |-> "connected", want |-> d.want, orig |-> orig, cur |-> f, copy |-> n,
             done |-> done + 1, size |-> Size[f], index |-> d.index, total |-> d.total,
             auto |-> TRUE, error |-> d.error]
  <2>1. d' = [d EXCEPT !.auto = TRUE, !.done = d.done + 1, !.orig = orig]
    BY <1>1, <1>2, <1>7 DEF DataWritten, Downloads
  <2> HIDE DEF orig
  <2> QED
    BY <1>1, <1>2, <1>7, <2>1 DEF Downloads
<1>17. d' \in Downloads
  <2> HIDE DEF orig
  <2>1. /\ d.want \in SUBSET Files /\ n \in Nat /\ done + 1 \in Int /\ Size[f] \in Int
        /\ d.index \in Nat /\ d.total \in Nat /\ d.error \in BOOLEAN
    BY <1>1, <1>2, <1>6 DEF Downloads
  <2> QED
    BY <1>6, <1>15, <1>16, <2>1 DEF Downloads
<1> HIDE DEF orig
<1>18. /\ d'.state = "connected" /\ d'.want = d.want /\ d'.orig = orig /\ d'.cur = f
       /\ d'.copy = n /\ d'.done = done + 1 /\ d'.size = Size[f] /\ d'.index = d.index
       /\ d'.total = d.total
  BY <1>16
<1>19. TypeInv' /\ OffsetInv'
  BY <1>2, <1>13, <1>17, <1>18 DEF IInv, TypeInv, OffsetInv
<1>20. WireInv'
  BY <1>2, <1>3, <1>4, <1>6, <1>18 DEF WireInv, Stands
<1>21. <<f, n>> \in spoiled \/ (Begins(s, f) /\ Len(s) = done + 1)
  <2>1. CASE <<f, n>> \notin spoiled
    <3>1. Begins(copies[f][n], f) /\ Len(copies[f][n]) = done
      BY <1>6, <1>7, <2>1 DEF IInv, CopiesInv
    <3>2. Len(s) = done + 1 /\ s[done + 1] = <<f, done + 1>>
          /\ \A j \in 1..done : s[j] = <<f, j>>
      BY <1>10, <3>1 DEF Begins
    <3> QED
      BY <1>6, <3>2 DEF Begins
  <2> QED
    BY <2>1
<1>22. CopiesInv'
  <2>1. \A g \in Taken : copies'[g] # <<>> /\ copies'[g][1] = Foreign
    <3> SUFFICES ASSUME NEW g \in Taken PROVE copies'[g] # <<>> /\ copies'[g][1] = Foreign
      OBVIOUS
    <3>1. g \in Files /\ copies[g] # <<>> /\ copies[g][1] = Foreign /\ copies[g] \in Seq(Seq(Blocks))
      BY FilesAssumption DEF IInv, CopiesInv, TypeInv
    <3>2. 1 \in DOMAIN copies[g]
      BY <3>1
    <3>3. <<g, 1>> # <<f, n>>
      BY <1>8
    <3>4. copies'[g][1] = Foreign /\ DOMAIN copies'[g] # {}
      BY <1>13, <3>1, <3>2, <3>3
    <3> QED
      BY <3>4
  <2>2. \A g \in Files : \A k \in Written(g)' : <<g, k>> \in spoiled' \/ Begins(copies'[g][k], g)
    <3> SUFFICES ASSUME NEW g \in Files, NEW k \in Written(g)
                 PROVE  <<g, k>> \in spoiled \/ Begins(copies'[g][k], g)
      BY <1>2, <1>14
    <3>1. CASE <<g, k>> = <<f, n>>
      BY <1>13, <1>21, <3>1
    <3>2. CASE <<g, k>> # <<f, n>>
      BY <1>13, <3>2 DEF Written, IInv, CopiesInv
    <3> QED
      BY <3>1, <3>2
  <2> QED
    BY <2>1, <2>2 DEF CopiesInv, Begins
<1>23. CurrentInv'
  <2>1. done + 1 \in 0..Size[f] /\ n \in Written(f)'
    BY <1>6, <1>7, <1>14
  <2>2. <<f, n>> \in spoiled' \/ Len(copies'[f][n]) = done + 1
    BY <1>2, <1>13, <1>21
  <2> QED
    BY <1>6, <1>18, <2>1, <2>2 DEF CurrentInv
<1>24. CountInv'
  BY <1>2, <1>18 DEF IInv, CountInv
<1>25. ASSUME NEW g \in Files, Got(g) PROVE Got(g)'
  <2>1. CASE g = f /\ <<f, n>> \in spoiled
    BY <1>2, <1>7, <1>14, <2>1 DEF Got
  <2>2. CASE ~(g = f /\ <<f, n>> \in spoiled)
    <3>1. \A k \in Written(g) : copies'[g][k] = copies[g][k] \/ copies[g][k] # Content(g)
      <4> SUFFICES ASSUME NEW k \in Written(g), <<g, k>> = <<f, n>>
                   PROVE  copies[g][k] # Content(g)
        BY <1>13 DEF Written
      <4>1. Len(copies[g][k]) = done /\ g = f
        BY <1>7, <2>2
      <4>2. Len(Content(g)) = Size[f]
        BY <4>1, ContentType
      <4> QED
        BY <1>6, <4>1, <4>2
    <3> QED
      BY <1>2, <1>13, <1>25, <3>1, GotKept
  <2> QED
    BY <2>1, <2>2
<1>26. done + 1 >= Size[f] => Got(f)'
  <2>1. CASE <<f, n>> \in spoiled
    BY <1>2, <1>6, <1>7, <1>14, <2>1 DEF Got
  <2>2. CASE <<f, n>> \notin spoiled
    <3>1. done + 1 >= Size[f] => copies'[f][n] = Content(f)
      BY <1>6, <1>10, <1>13, <1>21, <2>2, BeginsWhole
    <3> QED
      BY <1>6, <1>7, <1>14, <3>1 DEF Got, Whole, Content
  <2> QED
    BY <2>1, <2>2
<1>27. GotInv'
  <2>1. \A g \in Files \ orig : Got(g)'
    BY <1>25, <1>26 DEF orig, IInv, GotInv
  <2>2. \A g \in Files \ d.want : g = f \/ Got(g)'
    BY <1>1, <1>2, <1>25 DEF IInv, GotInv
  <2> QED
    BY <1>18, <2>1, <2>2 DEF GotInv
<1> QED
  BY <1>19, <1>20, <1>22, <1>23, <1>24, <1>27 DEF IInv

LEMMA FileDataFailsInv == IInv /\ FileDataFails => IInv'
<1> SUFFICES ASSUME IInv, FileDataFails PROVE IInv'
  OBVIOUS
<1>1. d' = Aborted(d) /\ Hangup /\ UNCHANGED <<copies, hashers, spoiled>>
  BY DEF FileDataFails
<1>2. d \in Downloads /\ IsUpload(u) /\ hashers' \in Seq(Hashers)
  BY <1>1 DEF IInv, TypeInv
<1>3. Rests(d') /\ d'.orig = d.orig /\ (d'.state = "stopped" => d'.error)
  BY <1>1, <1>2, AbortedRests
<1>4. \A f \in Files \ d'.orig : Got(f)
  BY <1>3 DEF IInv, GotInv
<1> QED
  BY <1>1, <1>2, <1>3, <1>4, HangupType, Resting

\* Every file was begun, and the last one is complete.
LEMMA CompleteGot ==
  ASSUME IInv, d.state = "connected", ~Incomplete(d)
  PROVE  \A f \in Files : Got(f)
<1>1. d \in Downloads /\ IsFiniteSet(d.want) /\ Cardinality(d.want) \in Nat
  BY WantFinite DEF IInv, TypeInv, Downloads
<1>2. d.index + Cardinality(d.want) = d.total /\ d.index >= d.total
  BY <1>1 DEF IInv, CountInv, Incomplete, Downloads
<1>3. d.want = {}
  <2>1. Cardinality(d.want) = 0
    BY <1>1, <1>2 DEF Downloads
  <2> QED
    BY <1>1, <2>1, FS_EmptySet
<1>4. d.cur # None => d.done >= Size[d.cur]
  BY <1>1 DEF IInv, CurrentInv, Incomplete, Downloads
<1>5. d.cur # None => Got(d.cur)
  BY <1>4, CurrentGot
<1> QED
  BY <1>3, <1>5, FilesAssumption DEF IInv, GotInv

LEMMA DisconnectedInv == IInv /\ Disconnected => IInv'
<1> SUFFICES ASSUME IInv, Disconnected PROVE IInv'
  OBVIOUS
<1>1. /\ d.state = "connected" /\ Hangup /\ UNCHANGED <<copies, spoiled>>
      /\ d' = IF Incomplete(d) /\ d.auto THEN Restarted(d)
              ELSE [d EXCEPT !.state = "stopped", !.auto = FALSE, !.error = Incomplete(d)]
      /\ hashers' = [i \in DOMAIN hashers |-> [hashers[i] EXCEPT !.cut = ~hashers[i].read]]
  BY DEF Disconnected
<1>2. d \in Downloads /\ IsUpload(u) /\ hashers \in Seq(Hashers)
  BY DEF IInv, TypeInv
<1>3. hashers' \in Seq(Hashers)
  <2>1. ASSUME NEW l \in Hashers PROVE [l EXCEPT !.cut = ~l.read] \in Hashers
    BY DEF Hashers
  <2>2. DOMAIN hashers = 1..Len(hashers) /\ Len(hashers) \in Nat
        /\ \A i \in 1..Len(hashers) : hashers[i] \in Hashers
    BY <1>2
  <2>3. hashers' \in [1..Len(hashers) -> Hashers]
    BY <1>1, <2>1, <2>2
  <2> QED
    BY <2>2, <2>3
<1>4. \A f \in Files \ d.orig : Got(f)
  BY DEF IInv, GotInv
<1>5. CASE Incomplete(d) /\ d.auto
  <2>1. Rests(d') /\ d'.orig = d.orig /\ d'.state # "stopped"
    BY <1>1, <1>2, <1>5, RestartedRests DEF Downloads
  <2> QED
    BY <1>1, <1>2, <1>3, <1>4, <2>1, HangupType, Resting
<1>6. CASE ~(Incomplete(d) /\ d.auto)
  <2>1. Incomplete(d) \in BOOLEAN
    BY DEF Incomplete
  <2>2. PICK e \in BOOLEAN : e = Incomplete(d)
    BY <2>1
  <2>3. d' = [d EXCEPT !.state = "stopped", !.auto = FALSE, !.error = e]
    BY <1>1, <1>6, <2>2
  <2>4. d' = [state |-> "stopped", want |-> d.want, orig |-> d.orig, cur |-> d.cur,
              copy |-> d.copy, done |-> d.done, size |-> d.size, index |-> d.index,
              total |-> d.total, auto |-> FALSE, error |-> e]
    BY <1>2, <2>3 DEF Downloads
  <2>5. d' \in Downloads /\ d'.state = "stopped" /\ d'.orig = d.orig /\ d'.error = e
    BY <1>2, <2>4 DEF Downloads
  <2>6. Rests(d')
    BY <2>5 DEF Rests
  <2>7. ~d'.error => \A f \in Files : Got(f)
    BY <1>1, <2>2, <2>5, CompleteGot
  <2> QED
    BY <1>1, <1>2, <1>3, <1>4, <2>5, <2>6, <2>7, HangupType, Resting
<1> QED
  BY <1>5, <1>6

LEMMA RestartInv == IInv /\ RestartSession => IInv'
<1> SUFFICES ASSUME IInv, RestartSession PROVE IInv'
  OBVIOUS
<1>1. d.state = "stopped" /\ d' = Restarted(d)
      /\ UNCHANGED <<copies, hashers, lists, u, exams, spoiled>>
  BY DEF RestartSession
<1>2. Rests(d') /\ d'.orig = d.orig /\ d'.state # "stopped"
  BY <1>1, RestartedRests DEF IInv, TypeInv, Downloads
<1>3. /\ hashers' \in Seq(Hashers) /\ lists' \in Seq(Sent) /\ exams' \in Seq(Sent)
      /\ IsUpload(u') /\ u'.offset = u.offset /\ u'.state # "open"
  BY <1>1 DEF IInv, TypeInv, IsUpload
<1>4. \A f \in Files \ d'.orig : Got(f)
  BY <1>2 DEF IInv, GotInv
<1> QED
  BY <1>1, <1>2, <1>3, <1>4, Resting

-----------------------------------------------------------------------------
(* The steps of the uploader, and the others *)

\* A step that leaves the downloader alone.
LEMMA UploadSide ==
  ASSUME IInv, UNCHANGED <<d, copies, hashers, spoiled>>, TypeInv', OffsetInv', WireInv'
  PROVE  IInv'
<1>1. CurrentInv' /\ CountInv'
  BY DEF IInv, CurrentInv, CountInv, Written
<1>2. CopiesInv' /\ GotInv'
  BY CopiesStay, GotStays DEF IInv, GotInv
<1> QED
  BY <1>1, <1>2 DEF IInv

\* The connection ends with Eof, or with nothing but that.
LEMMA CloseInv ==
  ASSUME IInv, UNCHANGED <<d, copies, hashers, spoiled>>, Hangup,
         net' = Append(net, Eof) \/ net' = <<Eof>>
  PROVE  IInv'
<1>1. /\ IsUpload(u') /\ u'.offset = u.offset /\ u'.state # "open"
      /\ lists' \in Seq(Sent) /\ exams' \in Seq(Sent)
  BY HangupType DEF IInv, TypeInv
<1>2. TypeInv' /\ OffsetInv'
  BY <1>1 DEF IInv, TypeInv, OffsetInv
<1>3. \A p : Leads(Eof, p, p)
  BY DEF Leads, Eof
<1>4. ASSUME d.state = "connected" PROVE \E p \in Points : Flow(net', <<d.cur, d.done>>, p)
  <2>1. PICK p \in Points : Flow(net, <<d.cur, d.done>>, p)
    BY <1>4 DEF IInv, WireInv
  <2>2. CASE net' = Append(net, Eof)
    BY <1>3, <2>1, <2>2, FlowAppend
  <2>3. CASE net' = <<Eof>>
    <3>1. <<d.cur, d.done>> \in Points
      BY <2>1, FlowPoints
    <3>2. Flow(<<>>, <<d.cur, d.done>>, <<d.cur, d.done>>)
      BY <3>1, FlowEmpty
    <3>3. Flow(Append(<<>>, Eof), <<d.cur, d.done>>, <<d.cur, d.done>>)
      BY <1>3, <3>2, FlowAppend
    <3>4. Append(<<>>, Eof) = <<Eof>>
      OBVIOUS
    <3> QED
      BY <2>3, <3>1, <3>3, <3>4
  <2> QED
    BY <2>2, <2>3
<1>5. WireInv'
  BY <1>1, <1>4 DEF WireInv
<1> QED
  BY <1>2, <1>5, UploadSide

\* A step of the uploader that stays where it is: nothing is sent.
LEMMA StandsStill ==
  ASSUME IInv, UNCHANGED <<d, copies, hashers, spoiled, pipe, net>>,
         IsUpload(u'), u'.state = u.state, OffsetInv',
         lists' \in Seq(Sent), exams' \in Seq(Sent),
         \A q \in Points : Stands(q) => Stands(q)'
  PROVE  IInv'
<1>1. TypeInv'
  BY DEF IInv, TypeInv
<1>2. WireInv'
  BY DEF IInv, WireInv
<1> QED
  BY <1>1, <1>2, UploadSide

\* A step that sends a message and stands behind it.
LEMMA StandsBehind ==
  ASSUME IInv, UNCHANGED <<d, copies, hashers, spoiled, net, lists, exams>>,
         IsUpload(u'), u'.state = u.state, u'.offset = u.offset,
         u.state = "open",
         \A q \in Points : \A p : Stands(q) /\ Flow(pipe, p, q) =>
           \E r \in Points : Flow(pipe', p, r) /\ Stands(r)'
  PROVE  IInv'
<1>1. TypeInv' /\ OffsetInv'
  BY DEF IInv, TypeInv, OffsetInv
<1>2. WireInv'
  <2> SUFFICES ASSUME d.state = "connected"
               PROVE  \E p \in Points : /\ Flow(net, <<d.cur, d.done>>, p)
                                        /\ \E q \in Points : Flow(pipe', p, q) /\ Stands(q)'
    BY DEF WireInv
  <2>1. PICK p \in Points : /\ Flow(net, <<d.cur, d.done>>, p)
                            /\ \E q \in Points : Flow(pipe, p, q) /\ Stands(q)
    BY DEF IInv, WireInv
  <2> QED
    BY <2>1
<1> QED
  BY <1>1, <1>2, UploadSide

LEMMA FileListInv == IInv /\ FileList => IInv'
<1> SUFFICES ASSUME IInv, FileList PROVE IInv'
  OBVIOUS
<1>0. UNCHANGED <<d, copies, hashers, spoiled>> /\ lists # <<>>
  BY DEF FileList
<1>1. CASE Head(lists).want = {}
  BY <1>0, <1>1, CloseInv DEF FileList, Close
<1>2. CASE Head(lists).want # {}
  <2>1. exams' = Append(exams, Head(lists)) /\ lists' = Tail(lists) /\ UNCHANGED <<u, pipe, net>>
    BY <1>2 DEF FileList
  <2>2. exams' \in Seq(Sent) /\ lists' \in Seq(Sent)
    BY <1>0, <2>1 DEF IInv, TypeInv
  <2>3. IsUpload(u') /\ OffsetInv' /\ \A q \in Points : Stands(q) => Stands(q)'
    BY <2>1 DEF IInv, TypeInv, IsUpload, OffsetInv, Stands
  <2> QED
    BY <1>0, <2>1, <2>2, <2>3, StandsStill
<1> QED
  BY <1>1, <1>2

\* The offsets that are added are within the files.
LEMMA Md5RecvDoneInv ==
  ASSUME IInv, NEW i \in DOMAIN exams, NEW begin \in BOOLEAN, Md5RecvDone(i, begin)
  PROVE  IInv'
<1>1. exams \in Seq(Sent) /\ exams[i] \in Sent /\ i \in 1..Len(exams) /\ IsUpload(u)
  BY DEF IInv, TypeInv
<1>2. PICK l : l = exams[i]
  OBVIOUS
<1> DEFINE offset == [f \in Files |-> IF f \in l.want THEN CheckedOffset(f, l.have[f])
                                      ELSE u.offset[f]]
<1>3. PICK set, loc, calls :
        u' = [u EXCEPT !.set = set, !.offset = offset, !.iter = 1, !.local = loc, !.calls = calls]
  BY <1>2 DEF Md5RecvDone
<1>4. offset \in [Files -> Nat]
      /\ \A f \in Files : offset[f] <= Size[f] /\ (f \in Taken => offset[f] = 0)
  <2>1. \A f \in l.want : /\ CheckedOffset(f, l.have[f]) \in 0..Size[f]
                          /\ f \in Taken => CheckedOffset(f, l.have[f]) = 0
    BY <1>1, <1>2, CheckedOffsetOK
  <2>2. \A f \in Files : u.offset[f] \in Nat /\ u.offset[f] <= Size[f] /\ (f \in Taken => u.offset[f] = 0)
    BY <1>1 DEF IInv, OffsetInv, IsUpload
  <2>3. \A f \in Files : Size[f] \in Nat
    BY SizeAssumption
  <2> QED
    BY <2>1, <2>2, <2>3
<1> HIDE DEF offset
<1>5. u' = [state |-> u.state, set |-> set, offset |-> offset, iter |-> 1,
            cur |-> u.cur, pos |-> u.pos, opened |-> u.opened, waiting |-> u.waiting,
            local |-> loc, calls |-> calls]
  BY <1>1, <1>3 DEF IsUpload
<1>6. IsUpload(u') /\ u'.state = u.state /\ OffsetInv'
  BY <1>1, <1>4, <1>5 DEF IsUpload, OffsetInv
<1>7. \A q \in Points : Stands(q) => Stands(q)'
  BY <1>5 DEF Stands
<1>8. /\ UNCHANGED <<d, copies, hashers, spoiled, pipe, net, lists>>
      /\ exams' = RemoveAt(exams, i)
  BY DEF Md5RecvDone
<1>9. exams' \in Seq(Sent) /\ lists' \in Seq(Sent)
  BY <1>1, <1>8 DEF RemoveAt, IInv, TypeInv
<1> QED
  BY <1>6, <1>7, <1>8, <1>9, StandsStill

\* The slot, and the drained notifications.
LEMMA SlotsInv == IInv /\ (BeginTransfer \/ RequeueTransfer \/ QueuesDrained \/ Reap) => IInv'
<1> SUFFICES ASSUME IInv, BeginTransfer \/ RequeueTransfer \/ QueuesDrained \/ Reap PROVE IInv'
  OBVIOUS
<1>1. IsUpload(u) /\ OffsetInv /\ lists \in Seq(Sent) /\ exams \in Seq(Sent)
  BY DEF IInv, TypeInv
<1>2. ASSUME NEW loc, NEW calls, u' = [u EXCEPT !.local = loc, !.calls = calls],
             UNCHANGED <<d, copies, hashers, spoiled, pipe, net, lists, exams>>
      PROVE  IInv'
  <2>1. u' = [state |-> u.state, set |-> u.set, offset |-> u.offset, iter |-> u.iter,
              cur |-> u.cur, pos |-> u.pos, opened |-> u.opened, waiting |-> u.waiting,
              local |-> loc, calls |-> calls]
    BY <1>1, <1>2 DEF IsUpload
  <2>2. IsUpload(u') /\ u'.state = u.state /\ OffsetInv'
    BY <1>1, <2>1 DEF IsUpload, OffsetInv
  <2>3. \A q \in Points : Stands(q) => Stands(q)'
    BY <2>1 DEF Stands
  <2> QED
    BY <1>1, <1>2, <2>2, <2>3, StandsStill
<1>3. CASE BeginTransfer
  <2>1. PICK calls : u' = [u EXCEPT !.local = FALSE, !.calls = calls]
    BY <1>3 DEF BeginTransfer
  <2> QED
    BY <1>2, <1>3, <2>1 DEF BeginTransfer
<1>4. CASE RequeueTransfer
  <2>1. u' = [u EXCEPT !.local = TRUE, !.calls = u.calls]
    BY <1>1, <1>4 DEF RequeueTransfer, IsUpload
  <2> QED
    BY <1>2, <1>4, <2>1 DEF RequeueTransfer
<1>5. CASE QueuesDrained
  <2>1. CASE u.waiting
    BY <1>5, <2>1, CloseInv DEF QueuesDrained, Close
  <2>2. CASE ~u.waiting
    <3>1. u' = [u EXCEPT !.local = u.local, !.calls = 1]
      BY <1>1, <1>5, <2>2 DEF QueuesDrained, IsUpload
    <3> QED
      BY <1>2, <1>5, <2>2, <3>1 DEF QueuesDrained
  <2> QED
    BY <2>1, <2>2
<1>6. CASE Reap
  BY <1>6, CloseInv DEF Reap, Close
<1> QED
  BY <1>3, <1>4, <1>5, <1>6

\* The turns of DoUpload()'s loop that send nothing.
LEMMA NothingSentInv ==
  ASSUME IInv, NotYet \/ EndOfFile \/ OpenFails, UNCHANGED <<d, copies, hashers, spoiled>>
  PROVE  IInv'
<1>1. IsUpload(u) /\ OffsetInv /\ lists \in Seq(Sent) /\ exams \in Seq(Sent)
  BY DEF IInv, TypeInv
<1>2. UNCHANGED <<pipe, net, lists, exams>>
  BY DEF NotYet, EndOfFile, OpenFails
<1>3. ASSUME NEW cur, NEW pos \in Int, NEW opened \in BOOLEAN, NEW iter, NEW calls,
             u' = [u EXCEPT !.cur = cur, !.pos = pos, !.opened = opened, !.iter = iter,
                            !.calls = calls],
             \A q \in Points : Stands(q) =>
               /\ pos >= 0 /\ opened => cur \in Files /\ pos <= Size[cur] /\ q = <<cur, pos>>
               /\ pos < 0 => Finished(q)
      PROVE  IInv'
  <2>1. u' = [state |-> u.state, set |-> u.set, offset |-> u.offset, iter |-> iter,
              cur |-> cur, pos |-> pos, opened |-> opened, waiting |-> u.waiting,
              local |-> u.local, calls |-> calls]
    BY <1>1, <1>3 DEF IsUpload
  <2>2. IsUpload(u') /\ u'.state = u.state /\ OffsetInv'
    BY <1>1, <1>3, <2>1 DEF IsUpload, OffsetInv
  <2>3. u'.cur = cur /\ u'.pos = pos /\ u'.opened = opened
    BY <2>1
  <2>4. \A q \in Points : Stands(q) => Stands(q)'
    BY <1>3, <2>3 DEF Stands
  <2> QED
    BY <1>1, <1>2, <2>2, <2>4, StandsStill
<1>4. CASE NotYet
  <2>1. u' = [u EXCEPT !.cur = u.cur, !.pos = u.pos, !.opened = u.opened, !.iter = u.iter,
                       !.calls = Returns]
    BY <1>1, <1>4 DEF NotYet, IsUpload
  <2>2. u.pos \in Int /\ u.opened \in BOOLEAN
    BY <1>1 DEF IsUpload
  <2> QED
    BY <1>3, <2>1, <2>2 DEF Stands
<1>5. CASE EndOfFile
  <2>1. u' = [u EXCEPT !.cur = u.cur, !.pos = -1, !.opened = u.opened, !.iter = u.iter,
                       !.calls = u.calls]
    BY <1>1, <1>5 DEF EndOfFile, IsUpload
  <2>2. u.opened \in BOOLEAN /\ -1 \in Int /\ ~(-1 >= 0)
    BY <1>1 DEF IsUpload
  <2>3. \A q \in Points : Stands(q) => Finished(q)
    BY <1>5 DEF EndOfFile, Stands, Finished
  <2> QED
    BY <1>3, <2>1, <2>2, <2>3
<1>6. CASE OpenFails
  <2>1. PICK f \in Unshared :
          u' = [u EXCEPT !.cur = f, !.pos = u.offset[f], !.opened = FALSE,
                         !.iter = u.iter + 1, !.calls = Returns]
    BY <1>6 DEF OpenFails
  <2>2. PICK pos, iter : pos = u.offset[f] /\ iter = u.iter + 1
    OBVIOUS
  <2>3. pos \in Int /\ ~(pos < 0)
    BY <1>1, <2>2, FilesAssumption DEF IsUpload
  <2>4. u' = [u EXCEPT !.cur = f, !.pos = pos, !.opened = FALSE, !.iter = iter,
                       !.calls = Returns]
    BY <2>1, <2>2
  <2> QED
    BY <1>3, <2>3, <2>4
<1> QED
  BY <1>4, <1>5, <1>6

LEMMA DrainLeads == \A q : Leads(Drain, q, q)
BY DEF Leads, Drain

\* The next buffer, of the file and from the place where the last message ends.
LEMMA SendBufferInv ==
  ASSUME IInv, SendBuffer, u.state = "open", UNCHANGED <<d, copies, hashers, spoiled>>
  PROVE  IInv'
<1>1. PICK f, pos : f = u.cur /\ pos = u.pos
  OBVIOUS
<1>2. /\ IsUpload(u) /\ pos \in Int /\ pos >= 0 /\ u.opened = TRUE /\ pos < Size[f]
      /\ u' = [u EXCEPT !.pos = pos + 1, !.calls = Returns]
      /\ pipe' = pipe \o <<Data(f, pos + 1), Drain>>
      /\ UNCHANGED <<net, lists, exams>>
  BY <1>1 DEF SendBuffer, Send, IInv, TypeInv, IsUpload
<1>3. u' = [state |-> u.state, set |-> u.set, offset |-> u.offset, iter |-> u.iter,
            cur |-> f, pos |-> pos + 1, opened |-> TRUE, waiting |-> u.waiting,
            local |-> u.local, calls |-> Returns]
  BY <1>1, <1>2 DEF IsUpload
<1>4. IsUpload(u') /\ u'.state = u.state /\ u'.offset = u.offset
  <2>1. pos + 1 \in Int /\ u.offset \in [Files -> Nat]
    BY <1>2 DEF IsUpload
  <2> QED
    BY <1>3, <2>1 DEF IsUpload
<1>5. ASSUME NEW q \in Points, NEW p, Stands(q), Flow(pipe, p, q)
      PROVE  \E r \in Points : Flow(pipe', p, r) /\ Stands(r)'
  <2>1. f \in Files /\ Size[f] \in Nat /\ q = <<f, pos>>
    BY <1>1, <1>2, <1>5, SizeAssumption DEF Stands
  <2> DEFINE m == Data(f, pos + 1)
             r == <<f, pos + 1>>
  <2>2. IsData(m) /\ Leads(m, q, r)
    <3>1. m.what = "data" /\ m.f = f /\ m.k = pos + 1
      BY DEF Data
    <3>2. pos + 1 \in 1..Size[f] /\ (pos + 1) - 1 = pos
      BY <1>2, <2>1
    <3> QED
      BY <2>1, <3>1, <3>2 DEF Leads, IsData
  <2> HIDE DEF m
  <2>3. Flow(Append(pipe, m), p, r)
    BY <1>5, <2>2, FlowAppend
  <2>4. Flow(Append(Append(pipe, m), Drain), p, r)
    BY <2>3, DrainLeads, FlowAppend
  <2>5. PICK S : pipe \in Seq(S)
    BY <1>5, FlowPoints
  <2>6. Append(Append(pipe, m), Drain) = pipe \o <<m, Drain>>
    <3>1. pipe \in Seq(S \cup {m, Drain})
      BY <2>5
    <3> QED
      BY <3>1
  <2>7. Stands(r)'
    <3>1. u'.cur = f /\ u'.pos = pos + 1
      BY <1>3
    <3>2. pos + 1 >= 0 /\ pos + 1 <= Size[f] /\ ~(pos + 1 < 0)
      BY <1>2, <2>1
    <3> QED
      BY <2>1, <3>1, <3>2 DEF Stands
  <2>8. r \in Points
    BY <1>2, <2>1 DEF Points
  <2>9. pipe' = pipe \o <<m, Drain>>
    BY <1>2 DEF m
  <2> QED
    BY <2>4, <2>6, <2>7, <2>8, <2>9
<1> QED
  BY <1>2, <1>4, <1>5, StandsBehind

\* The header of the next file, behind a complete one.
LEMMA OpenFileInv ==
  ASSUME IInv, OpenFile, u.state = "open", UNCHANGED <<d, copies, hashers, spoiled>>
  PROVE  IInv'
<1>1. PICK f \in Files :
        /\ u.pos < 0 /\ pipe' = pipe \o <<Header(f, u.offset[f])>>
        /\ u' = [u EXCEPT !.cur = f, !.pos = u.offset[f], !.opened = TRUE, !.iter = @ + 1]
        /\ UNCHANGED <<net, lists, exams>>
  BY DEF OpenFile, NextFile, Send
<1>2. PICK start : start = u.offset[f]
  OBVIOUS
<1>3. IsUpload(u) /\ start \in Nat /\ start <= Size[f] /\ (f \in Taken => start = 0)
      /\ Size[f] \in Nat
  BY <1>2, SizeAssumption DEF IInv, TypeInv, IsUpload, OffsetInv
<1>4. PICK iter : u' = [u EXCEPT !.cur = f, !.pos = start, !.opened = TRUE, !.iter = iter]
  BY <1>1, <1>2
<1>5. u' = [state |-> u.state, set |-> u.set, offset |-> u.offset, iter |-> iter,
            cur |-> f, pos |-> start, opened |-> TRUE, waiting |-> u.waiting,
            local |-> u.local, calls |-> u.calls]
  BY <1>3, <1>4 DEF IsUpload
<1>6. IsUpload(u') /\ u'.state = u.state /\ u'.offset = u.offset
  BY <1>3, <1>5 DEF IsUpload
<1>7. ASSUME NEW q \in Points, NEW p, Stands(q), Flow(pipe, p, q)
      PROVE  \E r \in Points : Flow(pipe', p, r) /\ Stands(r)'
  <2> DEFINE m == Header(f, start)
             r == <<f, start>>
  <2>1. Finished(q)
    BY <1>1, <1>7 DEF Stands
  <2>2. IsHeader(m) /\ Leads(m, q, r)
    BY <1>3, <2>1 DEF Leads, IsHeader, Header
  <2> HIDE DEF m
  <2>3. Flow(Append(pipe, m), p, r)
    BY <1>7, <2>2, FlowAppend
  <2>4. PICK S : pipe \in Seq(S)
    BY <1>7, FlowPoints
  <2>5. Append(pipe, m) = pipe \o <<m>>
    <3>1. pipe \in Seq(S \cup {m})
      BY <2>4
    <3> QED
      BY <3>1
  <2>6. Stands(r)'
    BY <1>3, <1>5 DEF Stands
  <2>7. r \in Points
    BY <1>3 DEF Points
  <2>8. pipe' = pipe \o <<m>>
    BY <1>1, <1>2 DEF m
  <2> QED
    BY <2>3, <2>5, <2>6, <2>7, <2>8
<1> QED
  BY <1>1, <1>6, <1>7, StandsBehind

LEMMA NoMoreFilesInv ==
  ASSUME IInv, NoMoreFiles, u.state = "open", UNCHANGED <<d, copies, hashers, spoiled>>
  PROVE  IInv'
<1>1. /\ IsUpload(u) /\ pipe' = pipe \o <<Drain>>
      /\ u' = [u EXCEPT !.waiting = TRUE, !.calls = Returns]
      /\ UNCHANGED <<net, lists, exams>>
  BY DEF NoMoreFiles, Send, IInv, TypeInv
<1>2. u' = [state |-> u.state, set |-> u.set, offset |-> u.offset, iter |-> u.iter,
            cur |-> u.cur, pos |-> u.pos, opened |-> u.opened, waiting |-> TRUE,
            local |-> u.local, calls |-> Returns]
  BY <1>1 DEF IsUpload
<1>3. IsUpload(u') /\ u'.state = u.state /\ u'.offset = u.offset
  BY <1>1, <1>2 DEF IsUpload
<1>4. ASSUME NEW q \in Points, NEW p, Stands(q), Flow(pipe, p, q)
      PROVE  \E r \in Points : Flow(pipe', p, r) /\ Stands(r)'
  <2>1. Flow(Append(pipe, Drain), p, q)
    BY <1>4, DrainLeads, FlowAppend
  <2>2. PICK S : pipe \in Seq(S)
    BY <1>4, FlowPoints
  <2>3. pipe \in Seq(S \cup {Drain})
    BY <2>2
  <2>4. Append(pipe, Drain) = pipe \o <<Drain>>
    BY <2>3
  <2>5. Stands(q)'
    BY <1>2, <1>4 DEF Stands
  <2> QED
    BY <1>1, <2>1, <2>4, <2>5
<1> QED
  BY <1>1, <1>3, <1>4, StandsBehind

LEMMA DoUploadAuxInv == IInv /\ DoUploadAux => IInv'
<1> SUFFICES ASSUME IInv, DoUploadAux PROVE IInv'
  OBVIOUS
<1>1. UNCHANGED <<d, copies, hashers, spoiled>> /\ u.state = "open"
  BY DEF DoUploadAux
<1>2. CASE NotYet \/ EndOfFile \/ OpenFails
  BY <1>1, <1>2, NothingSentInv
<1>3. CASE SendBuffer
  BY <1>1, <1>3, SendBufferInv
<1>4. CASE OpenFile
  BY <1>1, <1>4, OpenFileInv
<1>5. CASE NoMoreFiles
  BY <1>1, <1>5, NoMoreFilesInv
<1>6. CASE ReadError
  BY <1>1, <1>6, CloseInv DEF ReadError, Close
<1> QED
  BY <1>2, <1>3, <1>4, <1>5, <1>6 DEF DoUploadAux

\* The message at the head of the pipe goes over to the end of the net.
LEMMA TransmitInv == IInv /\ Transmit => IInv'
<1> SUFFICES ASSUME IInv, Transmit PROVE IInv'
  OBVIOUS
<1>1. /\ u.state = "open" /\ pipe # <<>> /\ pipe' = Tail(pipe)
      /\ \/ Head(pipe).what = "drain" /\ net' = net
         \/ Head(pipe).what # "drain" /\ net' = Append(net, Head(pipe))
      /\ UNCHANGED <<d, copies, hashers, lists, u, exams, spoiled>>
  BY DEF Transmit
<1>2. d.state = "connected"
  BY <1>1 DEF IInv, TypeInv
<1>3. PICK p \in Points, q \in Points :
        Flow(net, <<d.cur, d.done>>, p) /\ Flow(pipe, p, q) /\ Stands(q)
  BY <1>1, <1>2 DEF IInv, WireInv
<1>4. PICK r \in Points : Leads(Head(pipe), p, r) /\ Flow(Tail(pipe), r, q)
  BY <1>1, <1>3, FlowTail
<1>5. Flow(net', <<d.cur, d.done>>, r)
  <2>1. CASE Head(pipe).what = "drain" /\ net' = net
    BY <1>3, <1>4, <2>1 DEF Leads, IsHeader, IsData
  <2>2. CASE net' = Append(net, Head(pipe))
    BY <1>3, <1>4, <2>2, FlowAppend
  <2> QED
    BY <1>1, <2>1, <2>2
<1>6. WireInv'
  BY <1>1, <1>3, <1>4, <1>5 DEF WireInv, Stands
<1>7. TypeInv' /\ OffsetInv'
  BY <1>1 DEF IInv, TypeInv, IsUpload, OffsetInv
<1> QED
  BY <1>1, <1>6, <1>7, UploadSide

LEMMA ConnectionLostInv == IInv /\ ConnectionLost => IInv'
BY CloseInv DEF ConnectionLost

\* Another download adds the next buffer to a file that this one does not write.
LEMMA OtherDownloadInv ==
  ASSUME IInv, NEW f \in Files, OtherDownload(f)
  PROVE  IInv'
<1>1. PICK own, s, rest :
        /\ own = Own(f) /\ s = SubSeq(Content(f), 1, Len(own) + 1)
        /\ rest = IF copies[f] = <<>> THEN <<>> ELSE Tail(copies[f])
  OBVIOUS
<1>2. /\ f \notin Taken /\ Len(own) < Size[f]
      /\ ~(d.state = "connected" /\ d.cur = f /\ d.copy = 1)
      /\ UNCHANGED <<d, hashers, lists, u, exams, pipe, net, spoiled>>
  BY <1>1 DEF OtherDownload
<1>3. copies' = [copies EXCEPT ![f] = <<s>> \o rest]
  BY <1>1 DEF OtherDownload
<1>4. copies[f] \in Seq(Seq(Blocks)) /\ own \in Seq(Blocks) /\ Len(own) \in Nat /\ Size[f] \in Nat
  BY <1>1, SizeAssumption DEF IInv, TypeInv, Own
<1>5. s \in Seq(Blocks) /\ Begins(s, f)
  <2>1. Content(f) \in Seq(Blocks) /\ Len(Content(f)) = Size[f]
        /\ \A j \in 1..Size[f] : Content(f)[j] = <<f, j>>
    BY ContentType
  <2> HIDE DEF Content
  <2>2. s \in Seq(Blocks) /\ Len(s) = Len(own) + 1 /\ \A j \in 1..Len(s) : s[j] = Content(f)[j]
    BY <1>1, <1>2, <1>4, <2>1
  <2> QED
    BY <1>2, <1>4, <2>1, <2>2 DEF Begins
<1>6. /\ rest \in Seq(Seq(Blocks))
      /\ Len(rest) = IF copies[f] = <<>> THEN 0 ELSE Len(copies[f]) - 1
      /\ \A k \in 1..Len(rest) : rest[k] = copies[f][k + 1]
  BY <1>1, <1>4
<1> DEFINE new == <<s>> \o rest
<1>7. new \in Seq(Seq(Blocks)) /\ Len(new) = Len(rest) + 1 /\ new[1] = s
      /\ \A k \in 2..Len(new) : new[k] = rest[k - 1]
  BY <1>5, <1>6
<1>8. copies' = [copies EXCEPT ![f] = new]
  BY <1>3
<1> HIDE DEF new
<1>9. /\ copies' \in [Files -> Seq(Seq(Blocks))] /\ copies'[f] = new
      /\ \A g \in Files : g # f => copies'[g] = copies[g]
  BY <1>7, <1>8 DEF IInv, TypeInv
<1>10. DOMAIN copies[f] \subseteq DOMAIN new /\ DOMAIN new \subseteq DOMAIN copies[f] \cup {1}
       /\ \A k \in DOMAIN new : k # 1 => new[k] = copies[f][k]
  <2>1. DOMAIN new = 1..Len(new) /\ DOMAIN copies[f] = 1..Len(copies[f]) /\ Len(copies[f]) \in Nat
    BY <1>4, <1>7
  <2>2. CASE copies[f] = <<>>
    BY <1>6, <1>7, <2>1, <2>2
  <2>3. CASE copies[f] # <<>>
    <3>1. Len(new) = Len(copies[f]) /\ Len(rest) = Len(copies[f]) - 1 /\ Len(copies[f]) >= 1
      BY <1>4, <1>6, <1>7, <2>1, <2>3
    <3>2. ASSUME NEW k \in 1..Len(new), k # 1 PROVE new[k] = copies[f][k]
      <4>1. new[k] = rest[k - 1] /\ k - 1 \in 1..Len(rest) /\ (k - 1) + 1 = k
        BY <1>7, <2>1, <3>1, <3>2
      <4>2. rest[k - 1] = copies[f][(k - 1) + 1]
        BY <1>6, <4>1
      <4> QED
        BY <4>1, <4>2
    <3> QED
      BY <2>1, <3>1, <3>2
  <2> QED
    BY <2>2, <2>3
<1>11. TypeInv' /\ OffsetInv' /\ CountInv'
  BY <1>2, <1>9 DEF IInv, TypeInv, IsUpload, OffsetInv, CountInv
<1>12. WireInv'
  BY <1>2 DEF IInv, WireInv, Stands
<1>13. Written(f) \subseteq Written(f)' /\ Written(f)' \subseteq Written(f) \cup {1}
  BY <1>2, <1>9, <1>10 DEF Written
<1>14. \A g \in Files : g # f => Written(g)' = Written(g)
  BY <1>9 DEF Written
<1>15. \A k \in Written(f) : k # 1 => copies'[f][k] = copies[f][k]
  BY <1>9, <1>10 DEF Written
<1>16. CopiesInv'
  <2>1. \A g \in Taken : copies'[g] # <<>> /\ copies'[g][1] = Foreign
    BY <1>2, <1>9, FilesAssumption DEF IInv, CopiesInv
  <2>2. ASSUME NEW g \in Files, NEW k \in Written(g)'
        PROVE  <<g, k>> \in spoiled' \/ Begins(copies'[g][k], g)
    <3>1. CASE g = f /\ k = 1
      BY <1>5, <1>7, <1>9, <3>1
    <3>2. CASE g = f /\ k # 1
      BY <1>2, <1>13, <1>15, <2>2, <3>2 DEF IInv, CopiesInv
    <3>3. CASE g # f
      BY <1>2, <1>9, <1>14, <2>2, <3>3 DEF IInv, CopiesInv
    <3> QED
      BY <3>1, <3>2, <3>3
  <2> QED
    BY <2>1, <2>2 DEF CopiesInv, Begins
<1>17. CurrentInv'
  <2>1. ASSUME d.state = "connected", d.cur # None
        PROVE  d.copy \in Written(d.cur)' /\ copies'[d.cur][d.copy] = copies[d.cur][d.copy]
    <3>1. d.cur \in Files /\ d.copy \in Written(d.cur)
      BY <2>1 DEF IInv, TypeInv, Downloads, CurrentInv
    <3>2. CASE d.cur = f
      BY <1>2, <1>13, <1>15, <2>1, <3>1, <3>2
    <3>3. CASE d.cur # f
      BY <1>2, <1>9, <1>14, <3>1, <3>3
    <3> QED
      BY <3>2, <3>3
  <2> QED
    BY <1>2, <2>1 DEF IInv, CurrentInv
<1>18. ASSUME NEW g \in Files, Got(g) PROVE Got(g)'
  <2>1. CASE g = f
    <3>1. ASSUME NEW k \in Written(f) PROVE copies'[f][k] = copies[f][k] \/ copies[f][k] # Content(f)
      <4>1. CASE k = 1
        <5>1. copies[f] # <<>>
          BY <1>4, <3>1, <4>1 DEF Written
        <5>2. copies[f][1] = own
          BY <1>1, <5>1 DEF Own
        <5>3. Len(Content(f)) = Size[f]
          BY ContentType
        <5>4. own # Content(f)
          BY <1>2, <1>4, <5>3
        <5> QED
          BY <4>1, <5>2, <5>4
      <4> QED
        BY <1>15, <4>1
    <3> QED
      BY <1>2, <1>9, <1>10, <1>18, <2>1, <3>1, GotKept
  <2>2. CASE g # f
    BY <1>2, <1>9, <1>18, <2>2, GotKept
  <2> QED
    BY <2>1, <2>2
<1>19. GotInv'
  BY <1>2, <1>18 DEF IInv, GotInv
<1> QED
  BY <1>11, <1>12, <1>16, <1>17, <1>19 DEF IInv

-----------------------------------------------------------------------------
(* The theorems *)

LEMMA NextInv == IInv /\ [Next]_vars => IInv'
<1> SUFFICES ASSUME IInv, [Next]_vars PROVE IInv'
  OBVIOUS
<1>1. CASE Downloader
  BY <1>1, ConnectInv, FileHeaderInv, FileDataInv, FileDataFailsInv, DisconnectedInv,
     HashersInv DEF Downloader
<1>2. CASE Uploader
  BY <1>2, FileListInv, SlotsInv, DoUploadAuxInv, TransmitInv, Md5RecvDoneInv DEF Uploader
<1>3. CASE RequeueTransfer \/ RestartSession \/ ConnectionLost
  BY <1>3, SlotsInv, RestartInv, ConnectionLostInv
<1>4. CASE \E f \in Files : OtherDownload(f)
  BY <1>4, OtherDownloadInv
<1>5. CASE UNCHANGED vars
  <2>1. UNCHANGED <<d, copies, hashers, spoiled, u, net, pipe, lists, exams>>
    BY <1>5 DEF vars
  <2>2. TypeInv' /\ OffsetInv' /\ WireInv'
    BY <2>1 DEF IInv, TypeInv, IsUpload, OffsetInv, WireInv, Stands
  <2> QED
    BY <2>1, <2>2, UploadSide
<1> QED
  BY <1>1, <1>2, <1>3, <1>4, <1>5 DEF Next

LEMMA Invariant == Spec => []IInv
BY InitInv, NextInv, PTL DEF Spec

\* Every copy that is written is a beginning of the file that was asked for, unless it
\* was begun in the middle: DoUploadAux(), the drained notifications and the lists of
\* earlier connections never double, drop or misplace a buffer.
THEOREM IntactUnlessSpoiledHolds == Spec => []IntactUnlessSpoiled
<1>1. IInv => IntactUnlessSpoiled
  <2> SUFFICES ASSUME IInv, NEW f \in Files, NEW k \in Written(f), <<f, k>> \notin spoiled
               PROVE  IsPrefix(copies[f][k], Content(f))
    BY DEF IntactUnlessSpoiled
  <2>1. Begins(copies[f][k], f) /\ copies[f][k] \in Seq(Blocks)
    BY DEF IInv, CopiesInv, TypeInv, Written
  <2> QED
    BY <2>1, BeginsIsPrefix
<1> QED
  BY <1>1, Invariant, PTL

\* A download that ends without an error has got every file whole (or in a copy that
\* was begun in the middle), over all its connections and restarts.
THEOREM FinishedIsCompleteHolds == Spec => []FinishedIsComplete
<1>1. IInv => FinishedIsComplete
  BY DEF IInv, GotInv, Got, FinishedIsComplete
<1> QED
  BY <1>1, Invariant, PTL

-----------------------------------------------------------------------------
(* What is there whole is not fetched again *)

UsedInv == used \in [losses : Nat, halts : Nat, restarts : Nat, foreign : Nat]

\* A whole file is off both lists; a copy that was begun in the middle, which may have
\* its own name, lacks the beginning.
KeptInv ==
  /\ UsedInv
  /\ used.foreign = 0 =>
       /\ d.state = "connected" =>
            /\ d.cur \notin d.want
            /\ d.cur # None /\ <<d.cur, d.copy>> \in spoiled => d.done > 0
       /\ \A f \in Files, k \in Nat : <<f, k>> \in spoiled =>
            /\ k \in DOMAIN copies[f]
            /\ copies[f][k] = <<>> \/ copies[f][k][1] # <<f, 1>>
       /\ \A f \in Files \ Taken : Size[f] > 0 /\ Own(f) = Content(f) =>
            f \notin d.orig /\ f \notin d.want

\* Where the lists only shrink, the copies stay and no other download is at work.
LEMMA KeptStays ==
  ASSUME KeptInv, UNCHANGED <<copies, spoiled>>, UsedInv', used'.foreign = used.foreign,
         d'.orig \subseteq d.orig, d'.want \subseteq d.orig \cup d.want,
         d'.state = "connected" =>
           /\ d'.cur \notin d'.want
           /\ d'.cur = None \/ <<d'.cur, d'.copy>> \notin spoiled
  PROVE  KeptInv'
BY DEF KeptInv, Own, Content

LEMMA UseForeign ==
  ASSUME UsedInv, NEW what \in {"losses", "halts", "restarts"}, NEW bound, Use(what, bound)
  PROVE  UsedInv' /\ used'.foreign = used.foreign
BY DEF UsedInv, Use

LEMMA InitKept == Init => KeptInv
<1> SUFFICES ASSUME Init PROVE KeptInv
  OBVIOUS
<1>1. UsedInv /\ spoiled = {}
  BY DEF Init, UsedInv
<1>2. d.state # "connected"
  BY DEF Init, Restarted
<1>3. ASSUME NEW f \in Files \ Taken, Size[f] > 0 PROVE Own(f) # Content(f)
  <2>1. Own(f) = <<>>
    BY <1>3 DEF Init, Own
  <2>2. Len(Content(f)) = Size[f] /\ Size[f] \in Nat
    BY <1>3, ContentType
  <2> QED
    BY <1>3, <2>1, <2>2
<1> QED
  BY <1>1, <1>2, <1>3 DEF KeptInv

\* The session restarts or ends.
LEMMA EndKept ==
  ASSUME KeptInv, UNCHANGED <<copies, spoiled>>, UsedInv', used'.foreign = used.foreign,
         NEW x \in Downloads, x.orig \subseteq d.orig, x.want \subseteq d.orig \cup d.want,
         d' = Aborted(x) \/ d' = Restarted(x)
  PROVE  KeptInv'
<1>1. /\ Restarted(x).orig = x.orig /\ Restarted(x).want = x.orig
      /\ Restarted(x).state # "connected"
  BY DEF Restarted
<1>2. CASE d' = Restarted(x)
  BY <1>1, <1>2, KeptStays
<1>3. CASE d' = Aborted(x) /\ ~x.auto
  <2>1. d' = [x EXCEPT !.state = "stopped", !.done = -1, !.size = -1, !.error = TRUE]
    BY <1>3 DEF Aborted
  <2>2. d'.state = "stopped" /\ d'.orig = x.orig /\ d'.want = x.want
    BY <2>1 DEF Downloads
  <2> QED
    BY <2>2, KeptStays
<1>4. CASE d' = Aborted(x) /\ x.auto
  BY <1>2, <1>4 DEF Aborted
<1> QED
  BY <1>2, <1>3, <1>4

\* A new copy is empty; a file that was begun is off the list.
LEMMA HeaderKept == IInv /\ KeptInv /\ FileHeader => KeptInv'
<1> SUFFICES ASSUME IInv, KeptInv, FileHeader PROVE KeptInv'
  OBVIOUS
<1>h. PICK h, f, start : h = Head(net) /\ f = h.f /\ start = h.start
  OBVIOUS
<1> DEFINE new == Fallback(f, start) \/ copies[f] = <<>>
           named == new => Len(copies[f]) < MaxNames
           copy == IF new THEN Len(copies[f]) + 1 ELSE 1
<1>0. d.state = "connected" /\ net # <<>> /\ h.what = "header" /\ d \in Downloads
      /\ UNCHANGED used /\ UsedInv' /\ Begun(d, f).want = d.want \ {f}
  BY <1>h DEF FileHeader, IInv, TypeInv, KeptInv, UsedInv, Begun, Downloads
<1>1. IsHeader(h) /\ Finished(<<d.cur, d.done>>)
  BY <1>0, <1>h, HeaderComes
<1>2. f \in Files /\ start \in Nat
  BY <1>1, <1>h, SizeAssumption DEF IsHeader
<1>3. Begun(d, f).orig \subseteq d.orig
  BY <1>0 DEF Begun, Downloads
<1>4. CASE f \in d.want /\ named
  <2>1. /\ copies' = IF new THEN [copies EXCEPT ![f] = Append(@, <<>>)] ELSE copies
        /\ d' = [Begun(d, f) EXCEPT !.cur = f, !.copy = copy, !.done = start,
                                    !.size = Size[f], !.index = @ + 1]
        /\ spoiled' = IF new /\ start > 0 THEN spoiled \cup {<<f, copy>>} ELSE spoiled
    BY <1>4, <1>h DEF FileHeader
  <2>2. \A g \in Files : copies[g] \in Seq(Seq(Blocks)) /\ Len(copies[g]) \in Nat
                         /\ DOMAIN copies[g] = 1..Len(copies[g])
    BY DEF IInv, TypeInv
  <2>3. <<>> \in Seq(Blocks)
    OBVIOUS
  <2>4. ~new => start > 0
    BY DEF Fallback
  <2>5. copy \in Nat
    BY <1>2, <2>2
  <2>6. d'.want = d.want \ {f} /\ d'.orig \subseteq d.orig /\ d'.cur = f /\ d'.copy = copy
        /\ d'.done = start
    <3> HIDE DEF copy
    <3>1. PICK b : b = Begun(d, f)
      OBVIOUS
    <3>2. b \in Downloads
      BY <1>0, <1>1, <1>4, <3>1, BegunGot
    <3>3. d' = [b EXCEPT !.cur = f, !.copy = copy, !.done = start, !.size = Size[f],
                         !.index = @ + 1]
      BY <2>1, <3>1
    <3>4. d'.want = b.want /\ d'.orig = b.orig /\ d'.cur = f /\ d'.copy = copy
          /\ d'.done = start
      BY <3>2, <3>3 DEF Downloads
    <3> QED
      BY <1>0, <1>3, <3>1, <3>4
  <2>7. \A g \in Files, k \in Nat : k \in DOMAIN copies[g] =>
          k \in DOMAIN copies'[g] /\ copies'[g][k] = copies[g][k]
    BY <1>2, <2>1, <2>2, <2>3 DEF IInv, TypeInv
  <2>8. new => copy \notin DOMAIN copies[f] /\ copy \in DOMAIN copies'[f] /\ copies'[f][copy] = <<>>
    <3> SUFFICES ASSUME new PROVE copy \notin DOMAIN copies[f] /\ copy \in DOMAIN copies'[f]
                                  /\ copies'[f][copy] = <<>>
      OBVIOUS
    <3>1. copy = Len(copies[f]) + 1 /\ copies'[f] = Append(copies[f], <<>>)
      BY <1>2, <2>1 DEF IInv, TypeInv
    <3> HIDE DEF new, copy
    <3> QED
      BY <1>2, <2>2, <2>3, <3>1
  <2>9. \A g \in Files : g # f => copies'[g] = copies[g]
    BY <1>2, <2>1 DEF IInv, TypeInv
  <2>10. \A g \in Files : copies[g] # <<>> => copies'[g][1] = copies[g][1] /\ copies'[g] # <<>>
    <3> SUFFICES ASSUME NEW g \in Files, copies[g] # <<>>
                 PROVE  copies'[g][1] = copies[g][1] /\ copies'[g] # <<>>
      OBVIOUS
    <3>1. 1 \in DOMAIN copies[g]
      BY <2>2
    <3>2. 1 \in DOMAIN copies'[g] /\ copies'[g][1] = copies[g][1]
      BY <2>7, <3>1
    <3> QED
      BY <3>2
  <2>11. copies[f] = <<>> => copies'[f] = <<<<>>>>
    BY <1>2, <2>1 DEF IInv, TypeInv
  <2> HIDE DEF new, copy, named
  <2>12. ASSUME NEW g \in Files \ Taken, Size[g] > 0, Own(g)' = Content(g) PROVE Own(g) = Content(g)
    <3>1. Len(Content(g)) = Size[g] /\ Size[g] \in Nat
      BY <2>12, ContentType
    <3>2. Content(g) # <<>>
      BY <2>12, <3>1
    <3>3. CASE copies[g] = <<>>
      <4>1. copies'[g] = <<>> \/ copies'[g] = <<<<>>>>
        BY <2>9, <2>11, <3>3
      <4>2. Own(g)' = <<>>
        BY <4>1 DEF Own
      <4> QED
        BY <2>12, <3>2, <4>2
    <3>4. CASE copies[g] # <<>>
      BY <2>10, <2>12, <3>4 DEF Own
    <3> QED
      BY <3>3, <3>4
  <2>13. ASSUME used.foreign = 0, NEW g \in Files, NEW k \in Nat, <<g, k>> \in spoiled'
         PROVE  /\ k \in DOMAIN copies'[g]
                /\ copies'[g][k] = <<>> \/ copies'[g][k][1] # <<g, 1>>
    <3>1. CASE <<g, k>> \in spoiled
      <4>1. k \in DOMAIN copies[g] /\ (copies[g][k] = <<>> \/ copies[g][k][1] # <<g, 1>>)
        BY <2>13, <3>1 DEF KeptInv
      <4> QED
        BY <2>7, <4>1
    <3>2. CASE <<g, k>> \notin spoiled
      <4>1. g = f /\ k = copy /\ new
        BY <2>1, <2>13, <3>2
      <4> QED
        BY <2>8, <4>1
    <3> QED
      BY <3>1, <3>2
  <2>14. ASSUME used.foreign = 0, <<f, copy>> \in spoiled' PROVE start > 0
    <3>1. CASE new /\ ~(start > 0)
      <4>1. <<f, copy>> \in spoiled
        BY <2>1, <2>14, <3>1
      <4> QED
        BY <1>2, <2>5, <2>8, <2>14, <3>1, <4>1 DEF KeptInv
    <3> QED
      BY <2>4, <3>1
  <2>15. \A g \in Files \ Taken : used.foreign = 0 /\ Size[g] > 0 /\ Own(g)' = Content(g) =>
           g \notin d'.orig /\ g \notin d'.want
    BY <2>6, <2>12 DEF KeptInv
  <2> QED
    BY <1>0, <2>6, <2>13, <2>14, <2>15 DEF KeptInv, Content
<1>5. CASE ~(f \in d.want /\ named)
  <2> DEFINE x == IF f \in d.want THEN Begun(d, f) ELSE d
  <2>1. d' = Aborted(x) /\ UNCHANGED <<copies, spoiled>>
    BY <1>5, <1>h DEF FileHeader
  <2>2. x \in Downloads /\ x.orig \subseteq d.orig /\ x.want \subseteq d.orig \cup d.want
    BY <1>0, <1>1, <1>3, BegunGot
  <2> HIDE DEF x
  <2> QED
    BY <1>0, <2>1, <2>2, EndKept
<1> QED
  BY <1>4, <1>5

\* The buffer that makes a file whole takes it off the list.
LEMMA DataKept == IInv /\ KeptInv /\ FileData => KeptInv'
<1> SUFFICES ASSUME IInv, KeptInv, FileData, used.foreign = 0 PROVE KeptInv'
  BY DEF FileData, KeptInv, UsedInv
<1>1. PICK f, n, h, done : f = d.cur /\ n = d.copy /\ h = Head(net) /\ done = d.done
  OBVIOUS
<1>2. /\ d.state = "connected" /\ net # <<>> /\ h.what = "data" /\ d \in Downloads
      /\ copies' = [copies EXCEPT ![f][n] = Append(@, <<h.f, h.k>>)]
      /\ d' = DataWritten(d) /\ UNCHANGED <<used, spoiled>>
  BY <1>1 DEF FileData, IInv, TypeInv
<1>3. PICK p \in Points : Flow(net, <<f, done>>, p)
  BY <1>1, <1>2 DEF IInv, WireInv
<1>4. PICK r : Leads(h, <<f, done>>, r)
  BY <1>1, <1>2, <1>3, FlowTail
<1>5. h.f \in Files /\ h.k \in 1..Size[h.f] /\ <<f, done>> = <<h.f, h.k - 1>>
  BY <1>2, <1>4 DEF Leads, IsData, IsHeader
<1>6. /\ f \in Files /\ f # None /\ Size[f] \in Nat /\ done \in Nat
      /\ h.f = f /\ h.k = done + 1
  <2>1. f \in Files /\ Size[f] \in Nat /\ h.f = f /\ done = h.k - 1
    BY <1>5, SizeAssumption
  <2> QED
    BY <1>5, <2>1, FilesAssumption
<1>7. /\ d.size = Size[f] /\ n \in Written(f)
      /\ <<f, n>> \in spoiled \/ Len(copies[f][n]) = done
  BY <1>1, <1>2, <1>6 DEF IInv, CurrentInv
<1>8. copies[f] \in Seq(Seq(Blocks)) /\ n \in DOMAIN copies[f] /\ copies[f][n] \in Seq(Blocks)
      /\ n \in Nat /\ <<f, done + 1>> \in Blocks
  BY <1>6, <1>7 DEF IInv, TypeInv, Written, Blocks
<1> DEFINE s == Append(copies[f][n], <<f, done + 1>>)
<1>9. /\ s \in Seq(Blocks) /\ Len(s) = Len(copies[f][n]) + 1
      /\ copies[f][n] = <<>> => s[1] = <<f, done + 1>>
      /\ copies[f][n] # <<>> => s[1] = copies[f][n][1]
  BY <1>8
<1>10. copies' = [copies EXCEPT ![f] = [copies[f] EXCEPT ![n] = s]]
  BY <1>2, <1>6
<1> HIDE DEF s
<1>11. /\ \A g \in Files : DOMAIN copies'[g] = DOMAIN copies[g]
       /\ copies'[f][n] = s
       /\ \A g \in Files : \A k \in DOMAIN copies[g] :
            <<g, k>> # <<f, n>> => copies'[g][k] = copies[g][k]
  BY <1>6, <1>8, <1>10 DEF IInv, TypeInv
<1>12. /\ d'.state = "connected" /\ d'.want = d.want /\ d'.cur = f /\ d'.copy = n
       /\ d'.done = done + 1 /\ d'.orig \subseteq d.orig
       /\ done + 1 >= Size[f] /\ n = 1 => f \notin d'.orig
  BY <1>1, <1>2, <1>7 DEF DataWritten, Downloads
<1>13. f \notin d.want /\ (<<f, n>> \in spoiled => done > 0)
  <2>1. d.cur \notin d.want /\ (<<d.cur, d.copy>> \in spoiled => d.done > 0)
    <3>1. d.cur # None /\ d.state = "connected" /\ used.foreign = 0
      BY <1>1, <1>2, <1>6
    <3>2. d.cur \notin d.want
      BY <3>1 DEF KeptInv
    <3>3. <<d.cur, d.copy>> \in spoiled => d.done > 0
      BY <3>1 DEF KeptInv
    <3> QED
      BY <3>2, <3>3
  <2> QED
    BY <1>1, <2>1
<1>14. ASSUME NEW g \in Files, NEW k \in Nat, <<g, k>> \in spoiled
       PROVE  /\ k \in DOMAIN copies'[g]
              /\ copies'[g][k] = <<>> \/ copies'[g][k][1] # <<g, 1>>
  <2>1. k \in DOMAIN copies[g] /\ (copies[g][k] = <<>> \/ copies[g][k][1] # <<g, 1>>)
    BY <1>14 DEF KeptInv
  <2>2. CASE <<g, k>> = <<f, n>>
    <3>1. s[1] # <<f, 1>>
      <4>1. CASE copies[f][n] = <<>>
        BY <1>6, <1>9, <1>13, <1>14, <2>2, <4>1
      <4>2. CASE copies[f][n] # <<>>
        BY <1>9, <2>1, <2>2, <4>2
      <4> QED
        BY <4>1, <4>2
    <3> QED
      BY <1>11, <2>1, <2>2, <3>1
  <2>3. CASE <<g, k>> # <<f, n>>
    BY <1>11, <2>1, <2>3
  <2> QED
    BY <2>2, <2>3
<1>15. ASSUME NEW g \in Files \ Taken, Size[g] > 0, Own(g)' = Content(g)
       PROVE  g \notin d'.orig /\ g \notin d'.want
  <2>1. copies[g] \in Seq(Seq(Blocks)) /\ copies'[g] # <<>>
    <3>1. Len(Content(g)) = Size[g]
      BY <1>15, ContentType
    <3>2. Content(g) # <<>>
      BY <1>15, <3>1
    <3> QED
      BY <1>15, <3>2 DEF Own, IInv, TypeInv
  <2>2. 1 \in DOMAIN copies[g] /\ copies'[g][1] = Content(g)
    <3>1. copies'[g][1] = Content(g)
      BY <1>15, <2>1 DEF Own
    <3>2. copies[g] # <<>>
      <4>1. CASE g = f
        BY <1>8, <4>1
      <4>2. CASE g # f
        BY <1>10, <2>1, <4>2 DEF IInv, TypeInv
      <4> QED
        BY <4>1, <4>2
    <3> QED
      BY <2>1, <3>1, <3>2
  <2>3. CASE g = f /\ n = 1
    <3>1. s = Content(f)
      BY <1>11, <2>2, <2>3
    <3>2. Len(Content(f)) = Size[f] /\ Content(f)[1] = <<f, 1>>
      BY <1>6, <1>15, <2>3, ContentType
    <3>3. <<f, n>> \notin spoiled
      <4> SUFFICES ASSUME <<f, n>> \in spoiled PROVE FALSE
        OBVIOUS
      <4>1. copies'[f][n] = <<>> \/ copies'[f][n][1] # <<f, 1>>
        BY <1>6, <1>8, <1>14
      <4>2. s # <<>>
        BY <1>8, <1>9
      <4> QED
        BY <1>11, <3>1, <3>2, <4>1, <4>2
    <3>4. done + 1 >= Size[f]
      BY <1>6, <1>7, <1>9, <3>1, <3>2, <3>3
    <3> QED
      BY <1>12, <1>13, <2>3, <3>4
  <2>4. CASE ~(g = f /\ n = 1)
    <3>1. Own(g) = Content(g)
      <4>1. copies'[g][1] = copies[g][1]
        BY <1>11, <2>2, <2>4
      <4>2. copies[g] # <<>>
        BY <2>2
      <4> QED
        BY <2>2, <4>1, <4>2 DEF Own
    <3> QED
      BY <1>12, <1>15, <3>1 DEF KeptInv
  <2> QED
    BY <2>3, <2>4
<1>16. UsedInv' /\ used'.foreign = 0 /\ done + 1 > 0
  BY <1>2, <1>6 DEF KeptInv, UsedInv
<1> QED
  BY <1>2, <1>12, <1>13, <1>14, <1>15, <1>16 DEF KeptInv, Content

LEMMA NextKept == IInv /\ KeptInv /\ [Next]_vars => KeptInv'
<1> SUFFICES ASSUME IInv, KeptInv, [Next]_vars PROVE KeptInv'
  OBVIOUS
<1>0. UsedInv /\ d \in Downloads
  BY DEF KeptInv, IInv, TypeInv
<1>1. ASSUME UNCHANGED <<d, copies, spoiled>>, UsedInv', used'.foreign = used.foreign
      PROVE  KeptInv'
  BY <1>1 DEF KeptInv, Own, Content
<1>2. ASSUME UNCHANGED <<d, copies, spoiled, used>> PROVE KeptInv'
  BY <1>0, <1>1, <1>2 DEF UsedInv
<1>3. CASE Downloader
  <2>1. CASE Connect
    <3>1. d.state = "waiting" /\ d' = [d EXCEPT !.state = "connected"]
          /\ UNCHANGED <<copies, used, spoiled>>
      BY <2>1 DEF Connect
    <3>2. /\ d'.want = d.want /\ d'.orig = d.orig /\ d'.cur = d.cur /\ d'.copy = d.copy
          /\ d.cur = None /\ d.copy = 0
      BY <1>0, <3>1 DEF Downloads, IInv, CurrentInv
    <3>3. None \notin d.want
      BY <1>0, FilesAssumption DEF Downloads
    <3> QED
      BY <1>0, <3>1, <3>2, <3>3, KeptStays DEF UsedInv
  <2>2. CASE FileDataFails
    <3>1. d' = Aborted(d) /\ UNCHANGED <<copies, spoiled>> /\ Use("losses", MaxLosses)
      BY <2>2 DEF FileDataFails
    <3>2. UsedInv' /\ used'.foreign = used.foreign
      BY <1>0, <3>1, UseForeign
    <3> QED
      BY <1>0, <3>1, <3>2, EndKept
  <2>3. CASE Disconnected
    <3>1. UNCHANGED <<copies, spoiled, used>> /\ UsedInv'
      BY <1>0, <2>3 DEF Disconnected, UsedInv
    <3>2. CASE d' = Restarted(d)
      BY <1>0, <3>1, <3>2, EndKept
    <3>3. CASE d' # Restarted(d)
      <4>1. d' = [d EXCEPT !.state = "stopped", !.auto = FALSE, !.error = Incomplete(d)]
        BY <2>3, <3>3 DEF Disconnected
      <4>2. d'.state = "stopped" /\ d'.want = d.want /\ d'.orig = d.orig
        BY <1>0, <4>1 DEF Downloads
      <4> QED
        BY <3>1, <4>2, KeptStays
    <3> QED
      BY <3>2, <3>3
  <2>4. ASSUME NEW i \in DOMAIN hashers, Hash(i) \/ Md5SendDone(i) PROVE KeptInv'
    BY <1>2, <2>4 DEF Hash, Md5SendDone
  <2> QED
    BY <1>3, <2>1, <2>2, <2>3, <2>4, HeaderKept, DataKept DEF Downloader
<1>4. CASE Uploader
  BY <1>2, <1>4 DEF Uploader, FileList, BeginTransfer, DoUploadAux, Transmit, QueuesDrained,
                    Reap, Md5RecvDone
<1>5. CASE RequeueTransfer
  <2>1. UsedInv' /\ used'.foreign = used.foreign
    BY <1>0, <1>5, UseForeign DEF RequeueTransfer
  <2> QED
    BY <1>1, <1>5, <2>1 DEF RequeueTransfer
<1>6. CASE ConnectionLost
  <2>1. UsedInv' /\ used'.foreign = used.foreign
    BY <1>0, <1>6, UseForeign DEF ConnectionLost
  <2> QED
    BY <1>1, <1>6, <2>1 DEF ConnectionLost
<1>7. CASE RestartSession
  <2>1. UsedInv' /\ used'.foreign = used.foreign
    BY <1>0, <1>7, UseForeign DEF RestartSession
  <2> QED
    BY <1>0, <1>7, <2>1, EndKept DEF RestartSession
<1>8. ASSUME NEW f \in Files, OtherDownload(f) PROVE KeptInv'
  <2>1. used' = [used EXCEPT !["foreign"] = @ + 1]
    BY <1>8 DEF OtherDownload, Use
  <2>2. UsedInv' /\ used'.foreign # 0
    BY <1>0, <2>1 DEF UsedInv
  <2> QED
    BY <2>2 DEF KeptInv
<1>9. CASE UNCHANGED vars
  BY <1>2, <1>9 DEF vars
<1> QED
  BY <1>3, <1>4, <1>5, <1>6, <1>7, <1>8, <1>9 DEF Next

\* Only a header makes a copy, and only one that is wanted.
LEMMA KeptStep ==
  ASSUME IInv, KeptInv, [Next]_vars, NEW f \in Files \ Taken,
         Size[f] > 0, Own(f) = Content(f), used.foreign = 0
  PROVE  Len(copies'[f]) = Len(copies[f])
<1>0. f \notin d.want /\ copies[f] \in Seq(Seq(Blocks)) /\ copies \in [Files -> Seq(Seq(Blocks))]
  BY DEF KeptInv, IInv, TypeInv
<1>1. CASE UNCHANGED copies
  BY <1>1
<1>2. CASE FileHeader
  <2>1. Head(net).f \in d.want \/ UNCHANGED copies
    BY <1>2 DEF FileHeader
  <2>2. CASE Head(net).f \in d.want
    <3>1. Head(net).f # f
      BY <1>0, <2>2
    <3>2. PICK s : copies' = [copies EXCEPT ![Head(net).f] = s] \/ copies' = copies
      BY <1>2 DEF FileHeader
    <3> QED
      BY <1>0, <3>1, <3>2
  <2> QED
    BY <1>1, <2>1, <2>2
<1>3. CASE FileData
  <2>1. PICK c, n, m : copies' = [copies EXCEPT ![c][n] = m]
    BY <1>3 DEF FileData
  <2>2. CASE c = f
    <3>1. copies'[f] = [copies[f] EXCEPT ![n] = m]
      BY <1>0, <2>1, <2>2
    <3>2. DOMAIN copies'[f] = DOMAIN copies[f]
      BY <3>1
    <3> QED
      BY <1>0, <3>1, <3>2
  <2> QED
    BY <1>0, <2>1, <2>2
<1>4. ASSUME NEW g \in Files, OtherDownload(g) PROVE Len(copies'[f]) = Len(copies[f])
  <2>1. Len(Own(g)) < Size[g]
    BY <1>4 DEF OtherDownload
  <2>2. g # f
    <3>1. Len(Content(f)) = Size[f] /\ Size[f] \in Nat
      BY ContentType
    <3> QED
      BY <2>1, <3>1
  <2>3. PICK s : copies' = [copies EXCEPT ![g] = s]
    BY <1>4 DEF OtherDownload
  <2> QED
    BY <1>0, <2>2, <2>3
<1>5. Next => \/ UNCHANGED copies \/ FileHeader \/ FileData
              \/ \E g \in Files : OtherDownload(g)
  BY DEF Next, Downloader, Uploader, Connect, FileDataFails, Disconnected, Hash, Md5SendDone,
         FileList, BeginTransfer, DoUploadAux, Transmit, QueuesDrained, Reap, Md5RecvDone,
         RequeueTransfer, RestartSession, ConnectionLost
<1> QED
  BY <1>1, <1>2, <1>3, <1>4, <1>5 DEF vars

\* A file that is there whole under its own name gets no second copy, whatever the
\* threads of earlier connections still send.
THEOREM NotFetchedAgain == Spec => NotFetchedAgainIfNamed
<1>1. IInv /\ KeptInv /\ [Next]_vars =>
        [\A f \in Files \ Taken :
           Size[f] > 0 /\ Whole(f) /\ Own(f) = Content(f) /\ used.foreign = 0 =>
             Len(copies'[f]) = Len(copies[f])]_vars
  BY KeptStep
<1>2. Spec => []KeptInv
  BY Invariant, InitKept, NextKept, PTL DEF Spec
<1> QED
  BY <1>1, <1>2, Invariant, PTL DEF Spec, NotFetchedAgainIfNamed
=============================================================================
