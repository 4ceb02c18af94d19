------------------------------ MODULE DataTree ------------------------------
(***************************************************************************)
(* The database of the MUSCLE server (StorageReflectSession.cpp,           *)
(* DataNode.cpp): a tree of data nodes, of which every session owns the    *)
(* part below /host/session, and the subscriptions by which a session is   *)
(* told of changes in the others' parts.  Each node counts, for every      *)
(* session, the subscriptions that match it; these counts alone decide who *)
(* is told.                                                                *)
(*                                                                         *)
(* The server is one thread: an action handles one message of a session,   *)
(* with the PushSubscriptionMessages() that follows.  What it has for a    *)
(* session is in the outgoing queue of its gateway.  Query filters and     *)
(* ordered indices are left out; BeShare uses neither.                     *)
(***************************************************************************)
EXTENDS Integers, Sequences, FiniteSets, SequencesExt, FiniteSetsExt

CONSTANTS
  Sessions,        \* session IDs
  Host,            \* the host of each session
  Blank,           \* the data of a node that was made for its children
  Patterns,        \* subscription strings
  Matches(_, _),   \* whether a pattern matches a path
  MaxNodes,        \* _maxNodeCount, the nodes a session may make
  MaxItems         \* _maxSubscriptionMessageItems, 50 in the code

ASSUME LimitsAssumption == MaxNodes \in Nat /\ MaxItems \in Nat \ {0}
ASSUME PatternsAssumption == IsFiniteSet(Patterns)

VARIABLES
  nodes,   \* the data of each path that exists
  subs,    \* _subscriptions of each session
  marks,   \* _subscribers of each node: how many subscriptions of a session match it
  count,   \* _currentNodeCount of each session
  out      \* the outgoing messages of each session's gateway

tree == <<nodes, subs, marks, count, out>>

Root(s) == <<Host[s], s>>
Paths == DOMAIN nodes
Attached == {s \in Sessions : Root(s) \in Paths}

OwnedBy(s, path) == IsPrefix(Root(s), path)
Subtree(path) == {p \in Paths : IsPrefix(path, p)}

Items(gone, here) == [what |-> "items", gone |-> gone, here |-> here, n |-> 0]
Pong(n) == [what |-> "pong", gone |-> {}, here |-> <<>>, n |-> n]

Overlay(f, g) == [x \in DOMAIN f \cup DOMAIN g |-> IF x \in DOMAIN f THEN f[x] ELSE g[x]]
Only(f, S) == [x \in DOMAIN f \cap S |-> f[x]]

TreeInit ==
  /\ nodes = <<>> /\ marks = <<>>
  /\ subs = [s \in Sessions |-> {}]
  /\ count = [s \in Sessions |-> 0]
  /\ out = [s \in Sessions |-> <<>>]

\* GetMatchCount().
MatchCount(s, path) == Cardinality({p \in subs[s] : Matches(p, path)})

\* IncrementSubscriptionRefCount() with a negative number: never below zero.
Lowered(n, by) == IF by >= n THEN 0 ELSE n - by

\* The messages that report the items, parents first, a message for each MaxItems.
Reports(here) ==
  LET order == SetToSortSeq(DOMAIN here, LAMBDA p, q : Len(p) < Len(q))
      last(i) == IF i * MaxItems < Len(order) THEN i * MaxItems ELSE Len(order) IN
  [i \in 1..((Len(order) + MaxItems - 1) \div MaxItems) |->
     Items({}, Only(here, ToSet(SubSeq(order, (i - 1) * MaxItems + 1, last(i)))))]

\* NotifySubscribersThatNodeChanged(), for nodes that were made or set by a session,
\* which is not told itself.
TellPut(by, here) ==
  out' = [t \in Sessions |->
    IF t = by THEN out[t]
    ELSE out[t] \o Reports(Only(here, {p \in DOMAIN here : marks'[p][t] > 0}))]

\* The same for nodes that are removed: the removals are one field of one message.
TellGone(by, gone) ==
  out' = [t \in Sessions |->
    LET told == {p \in gone : marks[p][t] > 0} IN
    IF t = by \/ told = {} THEN out[t] ELSE Append(out[t], Items(told, <<>>))]

\* PutChild() and SetData() of these nodes: every session counts its subscriptions that
\* match a new node.
Put(by, here) ==
  /\ nodes' = Overlay(here, nodes)
  /\ marks' = [p \in Paths \cup DOMAIN here |->
       IF p \in Paths THEN marks[p] ELSE [t \in Sessions |-> MatchCount(t, p)]]
  /\ TellPut(by, here)

\* A node for the host, if it is the first session from there, and one for the session.
AttachedToServer(s) ==
  /\ s \notin Attached
  /\ Put(s, [p \in {<<Host[s]>>, Root(s)} \ Paths |-> Blank])
  /\ UNCHANGED <<subs, count>>

\* The subscriptions stay in the counts of the nodes.
CleanupKeepsMarks(s) ==
  LET lonely == \A t \in Attached \ {s} : Host[t] # Host[s]
      gone == Subtree(Root(s)) \cup (IF lonely THEN {<<Host[s]>>} ELSE {}) IN
  /\ s \in Attached
  /\ nodes' = Only(nodes, Paths \ gone)
  /\ marks' = Only(marks, Paths \ gone)
  /\ subs' = [subs EXCEPT ![s] = {}]
  /\ count' = [count EXCEPT ![s] = 0]
  /\ out' = [t \in Sessions |->
       LET told == {p \in gone : marks[p][t] > 0} IN
       IF t = s THEN <<>>
       ELSE IF told = {} THEN out[t] ELSE Append(out[t], Items(told, <<>>))]

\* The session's part of the tree goes, and its host's node with the last session from
\* there; then its marks on the nodes of others.
Cleanup(s) ==
  LET lonely == \A t \in Attached \ {s} : Host[t] # Host[s]
      gone == Subtree(Root(s)) \cup (IF lonely THEN {<<Host[s]>>} ELSE {}) IN
  /\ s \in Attached
  /\ nodes' = Only(nodes, Paths \ gone)
  /\ marks' = [p \in Paths \ gone |->
       [marks[p] EXCEPT ![s] = IF MatchCount(s, p) > 0 THEN 0 ELSE @]]
  /\ subs' = [subs EXCEPT ![s] = {}]
  /\ count' = [count EXCEPT ![s] = 0]
  /\ out' = [t \in Sessions |->
       LET told == {p \in gone : marks[p][t] > 0} IN
       IF t = s THEN <<>>
       ELSE IF told = {} THEN out[t] ELSE Append(out[t], Items(told, <<>>))]

\* SetDataNode(): the nodes of the path that are missing are made, while the session may
\* make any, and then the last one is set.
SetDataNode(s, value, st, key) ==
  LET path == Root(s) \o key
      missing == {p \in {SubSeq(path, 1, n) : n \in 3..Len(path)} :
                    p \notin Paths /\ p \notin DOMAIN st.here}
      free == IF st.count < MaxNodes THEN MaxNodes - st.count ELSE 0
      lacking == IF free < Cardinality(missing) THEN Cardinality(missing) - free ELSE 0
      made == {p \in missing : Len(p) <= Len(path) - lacking} IN
  [here |-> Overlay(IF lacking = 0
                    THEN [p \in made \cup {path} |-> IF p = path THEN value ELSE Blank]
                    ELSE [p \in made |-> Blank], st.here),
   count |-> st.count + Cardinality(made)]

\* PR_COMMAND_SETDATA: each field of the message is the data of one node.
SetData(s, keys, value) ==
  /\ s \in Attached
  /\ LET done == FoldLeft(LAMBDA st, key : SetDataNode(s, value, st, key),
                          [here |-> <<>>, count |-> count[s]], keys) IN
     /\ Put(s, done.here)
     /\ count' = [count EXCEPT ![s] = done.count]
  /\ UNCHANGED subs

\* Only the nodes that were named are counted.
RemoveDataCountsRoots(s, keys) ==
  /\ s \in Attached
  /\ LET gone == UNION {Subtree(Root(s) \o key) : key \in keys} IN
     /\ nodes' = Only(nodes, Paths \ gone)
     /\ marks' = Only(marks, Paths \ gone)
     /\ count' = [count EXCEPT ![s] = @ - Cardinality({k \in keys : Root(s) \o k \in Paths})]
     /\ TellGone(s, gone)
  /\ UNCHANGED subs

\* What is below the nodes that were named goes without a word.
RemoveDataTellsRoots(s, keys) ==
  /\ s \in Attached
  /\ LET gone == UNION {Subtree(Root(s) \o key) : key \in keys} IN
     /\ nodes' = Only(nodes, Paths \ gone)
     /\ marks' = Only(marks, Paths \ gone)
     /\ count' = [count EXCEPT ![s] = @ - Cardinality(gone)]
     /\ TellGone(s, {Root(s) \o key : key \in keys} \cap Paths)
  /\ UNCHANGED subs

\* PR_COMMAND_REMOVEDATA: the nodes and everything below them.
RemoveData(s, keys) ==
  /\ s \in Attached
  /\ LET gone == UNION {Subtree(Root(s) \o key) : key \in keys} IN
     /\ nodes' = Only(nodes, Paths \ gone)
     /\ marks' = Only(marks, Paths \ gone)
     /\ count' = [count EXCEPT ![s] = @ - Cardinality(gone)]
     /\ TellGone(s, gone)
  /\ UNCHANGED subs

\* DoGetData(): what matches, but for the session's own nodes.
DoGetData(s, pattern) ==
  Reports(Only(nodes, {p \in Paths : Matches(pattern, p) /\ ~OwnedBy(s, p)}))

\* The nodes are not marked, so that their changes are not told.
SubscribeUnmarked(s, pattern) ==
  /\ s \in Attached
  /\ subs' = [subs EXCEPT ![s] = @ \cup {pattern}]
  /\ out' = [out EXCEPT ![s] = @ \o DoGetData(s, pattern)]
  /\ UNCHANGED <<nodes, marks, count>>

\* PR_COMMAND_SETPARAMETERS with a "SUBSCRIBE:" field: the nodes that match are marked,
\* if the subscription is new, and sent.
Subscribe(s, pattern) ==
  /\ s \in Attached
  /\ subs' = [subs EXCEPT ![s] = @ \cup {pattern}]
  /\ marks' = IF pattern \in subs[s] THEN marks
              ELSE [p \in Paths |->
                      IF Matches(pattern, p) THEN [marks[p] EXCEPT ![s] = @ + 1] ELSE marks[p]]
  /\ out' = [out EXCEPT ![s] = @ \o DoGetData(s, pattern)]
  /\ UNCHANGED <<nodes, count>>

\* PR_COMMAND_REMOVEPARAMETERS: the subscriptions that its key matches.
Unsubscribe(s, gone) ==
  /\ s \in Attached
  /\ subs' = [subs EXCEPT ![s] = @ \ gone]
  /\ marks' = [p \in Paths |->
       [marks[p] EXCEPT ![s] =
          Lowered(@, Cardinality({pattern \in subs[s] \cap gone : Matches(pattern, p)}))]]
  /\ UNCHANGED <<nodes, count, out>>

\* PR_COMMAND_JETTISONRESULTS: items of this depth are taken out of the messages that
\* are not sent yet; a message that becomes empty goes.
JettisonOutgoingResults(s, depth) ==
  LET without(m) == IF m.what # "items" THEN m
                    ELSE Items({p \in m.gone : Len(p) # depth},
                               Only(m.here, {p \in DOMAIN m.here : Len(p) # depth}))
      kept(m) == m.what # "items" \/ m.gone # {} \/ DOMAIN m.here # {} IN
  /\ s \in Attached
  /\ out' = [out EXCEPT ![s] = SelectSeq([i \in DOMAIN @ |-> without(@[i])], kept)]
  /\ UNCHANGED <<nodes, subs, marks, count>>

\* PR_COMMAND_PING.
Ping(s, n) ==
  /\ s \in Attached
  /\ out' = [out EXCEPT ![s] = Append(@, Pong(n))]
  /\ UNCHANGED <<nodes, subs, marks, count>>

-----------------------------------------------------------------------------
(* Properties *)

\* A node counts exactly the subscriptions that match it, over every order in which
\* nodes are made and subscriptions come and go: with less a session is not told, with
\* more it is told of what it does not want any more.
MarksExact == \A p \in Paths, s \in Sessions : marks[p][s] = MatchCount(s, p)

\* The number that is held against the limit is the number of nodes of the session.
CountExact ==
  \A s \in Sessions :
    /\ count[s] = Cardinality({p \in Paths : OwnedBy(s, p) /\ Len(p) > 2})
    /\ count[s] <= MaxNodes
=============================================================================
