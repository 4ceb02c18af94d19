---------------------------- MODULE TreeClients -----------------------------
(***************************************************************************)
(* The MUSCLE server with clients that do whatever they like: they set and *)
(* remove data, subscribe with patterns that overlap and keep what they    *)
(* are told of.  What the server promises them is that this is, once all   *)
(* messages have arrived, the part of the tree they have subscribed to.    *)
(***************************************************************************)
EXTENDS DataTree

CONSTANTS
  Writers,    \* the sessions that have data
  Keys,       \* the paths, below a session's node, that are set and removed
  Values,     \* data
  MaxQueue    \* bound on the messages that wait to be read, before a step

VARIABLES
  view,     \* what each client has been told
  lapsed    \* subscriptions that the client has given up since it came

vars == <<nodes, subs, marks, count, out, view, lapsed>>

Init ==
  /\ TreeInit
  /\ view = [s \in Sessions |-> <<>>]
  /\ lapsed = [s \in Sessions |-> {}]

\* There is room for what a step may send.
Room == Cardinality(UNION {{s} \X DOMAIN out[s] : s \in Sessions}) < MaxQueue

Attach(s) ==
  /\ Room /\ AttachedToServer(s)
  /\ view' = [view EXCEPT ![s] = <<>>]
  /\ lapsed' = [lapsed EXCEPT ![s] = {}]

Detach(s) == Room /\ Cleanup(s) /\ UNCHANGED <<view, lapsed>>

SetNodes(s) ==
  /\ s \in Writers /\ Room
  /\ \E keys \in Keys, value \in Values : SetData(s, keys, value)
  /\ UNCHANGED <<view, lapsed>>

RemoveNodes(s) ==
  /\ s \in Writers /\ Room
  /\ \E keys \in Keys : \E n \in 1..2 : RemoveData(s, {SubSeq(k, 1, n) : k \in ToSet(keys)})
  /\ UNCHANGED <<view, lapsed>>

SubscribeTo(s) == Room /\ (\E p \in Patterns : Subscribe(s, p)) /\ UNCHANGED <<view, lapsed>>

GiveUp(s) ==
  /\ Room
  /\ \E p \in subs[s] : Unsubscribe(s, {p}) /\ lapsed' = [lapsed EXCEPT ![s] = @ \cup {p}]
  /\ UNCHANGED view

\* What a client makes of a PR_RESULT_DATAITEMS message: the removals come first.
Told(v, m) == Overlay(m.here, Only(v, DOMAIN v \ m.gone))

Receive(s) ==
  /\ out[s] # <<>>
  /\ view' = [view EXCEPT ![s] = Told(@, Head(out[s]))]
  /\ out' = [out EXCEPT ![s] = Tail(@)]
  /\ UNCHANGED <<nodes, subs, marks, count, lapsed>>

Next ==
  \E s \in Sessions :
    \/ Attach(s) \/ Detach(s) \/ SetNodes(s) \/ RemoveNodes(s)
    \/ SubscribeTo(s) \/ GiveUp(s) \/ Receive(s)

Spec == Init /\ [][Next]_vars

-----------------------------------------------------------------------------
(* Properties *)

\* What a client will know when everything that is on its way has arrived.
Final(s) == FoldLeft(Told, view[s], out[s])

Subscribed(s, p) == ~OwnedBy(s, p) /\ \E pattern \in subs[s] : Matches(pattern, p)

\* A client knows, or will know, every node it has subscribed to, and its latest data.
NothingMissed ==
  \A s \in Attached : \A p \in Paths :
    Subscribed(s, p) => p \in DOMAIN Final(s) /\ Final(s)[p] = nodes[p]

\* A client forgets, or will forget, every node that is gone, unless it has given up a
\* subscription to it: then the removal may have come while it was not subscribed.
NothingStale ==
  \A s \in Attached : \A p \in DOMAIN Final(s) \ Paths :
    Subscribed(s, p) => \E pattern \in lapsed[s] : Matches(pattern, p)
=============================================================================
