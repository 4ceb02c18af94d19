------------------------- MODULE TreeClients_proofs -------------------------
(***************************************************************************)
(* The reference counts of the MUSCLE server's nodes are exact, for any    *)
(* sessions, hosts, data and limits, and for any finite set of patterns.   *)
(*                                                                         *)
(* MarksExact is inductive but for the types: each node has counts, one    *)
(* for each session, and the subscriptions are patterns.                   *)
(***************************************************************************)
EXTENDS TreeClients, FiniteSetTheorems, TLAPS

\* Every node has counts, for every session; the subscriptions of a session are patterns.
Marked ==
  /\ subs \in [Sessions -> SUBSET Patterns]
  /\ DOMAIN marks = Paths
  /\ \A p \in Paths : marks[p] = [t \in Sessions |-> marks[p][t]]

IInv == Marked /\ MarksExact

\* The subscriptions of S that match a path.
Hits(S, path) == {q \in S : Matches(q, path)}

\* The subscriptions that are counted are finitely many.
LEMMA HitsFinite ==
  ASSUME NEW S \in SUBSET Patterns, NEW path
  PROVE  IsFiniteSet(Hits(S, path)) /\ Cardinality(Hits(S, path)) \in Nat
<1>1. Hits(S, path) \subseteq Patterns
  BY DEF Hits
<1> QED
  BY <1>1, PatternsAssumption, FS_Subset, FS_CardinalityType

\* A new subscription adds one to the count of the nodes that it matches.
LEMMA HitsAdd ==
  ASSUME NEW S \in SUBSET Patterns, NEW path, NEW q \in Patterns, q \notin S
  PROVE  Cardinality(Hits(S \cup {q}, path)) =
           Cardinality(Hits(S, path)) + (IF Matches(q, path) THEN 1 ELSE 0)
<1>1. IsFiniteSet(Hits(S, path)) /\ Cardinality(Hits(S, path)) \in Nat
  BY HitsFinite
<1>2. CASE Matches(q, path)
  <2>1. Hits(S \cup {q}, path) = Hits(S, path) \cup {q} /\ q \notin Hits(S, path)
    BY <1>2 DEF Hits
  <2> QED
    BY <1>1, <1>2, <2>1, FS_AddElement
<1>3. CASE ~Matches(q, path)
  <2>1. Hits(S \cup {q}, path) = Hits(S, path)
    BY <1>3 DEF Hits
  <2> QED
    BY <1>1, <1>3, <2>1
<1> QED
  BY <1>2, <1>3

\* Subscriptions that are given up take their number from the count, which is not less.
LEMMA HitsRemove ==
  ASSUME NEW S \in SUBSET Patterns, NEW path, NEW gone
  PROVE  Cardinality(Hits(S \ gone, path)) =
           Lowered(Cardinality(Hits(S, path)), Cardinality(Hits(S \cap gone, path)))
<1> DEFINE A == Hits(S, path)
           B == Hits(S \cap gone, path)
<1>1. IsFiniteSet(A) /\ Cardinality(A) \in Nat
  BY HitsFinite
<1>2. Cardinality(B) \in Nat
  BY HitsFinite
<1>3. Cardinality(Hits(S \ gone, path)) \in Nat
  BY HitsFinite
<1>4. Hits(S \ gone, path) = A \ B /\ A \cap B = B
  BY DEF Hits
<1>5. Cardinality(A \ B) = Cardinality(A) - Cardinality(A \cap B)
  BY <1>1, FS_Difference
<1>6. Cardinality(Hits(S \ gone, path)) = Cardinality(A) - Cardinality(B)
  BY <1>4, <1>5
<1> HIDE DEF A, B
<1> QED
  BY <1>1, <1>2, <1>3, <1>6 DEF Lowered, A, B
-----------------------------------------------------------------------------
\* Before there are sessions there are no nodes.
LEMMA InitInv == Init => IInv
BY DEF Init, TreeInit, IInv, Marked, MarksExact, Paths

\* New nodes get the counts of the subscriptions that there are; others keep theirs.
LEMMA PutInv ==
  ASSUME IInv, NEW s, NEW here, Put(s, here), subs' = subs
  PROVE  IInv'
<1> USE DEF IInv, Marked, Paths
<1>1. DOMAIN nodes' = Paths \cup DOMAIN here
  BY DEF Put, Overlay
<1>2. marks' = [p \in Paths \cup DOMAIN here |->
                  IF p \in Paths THEN marks[p] ELSE [t \in Sessions |-> MatchCount(t, p)]]
  BY DEF Put
<1>3. Marked'
  BY <1>1, <1>2
<1>4. \A p, t : MatchCount(t, p)' = MatchCount(t, p)
  BY DEF MatchCount
<1>5. MarksExact'
  BY <1>1, <1>2, <1>4 DEF MarksExact
<1> QED
  BY <1>3, <1>5

\* Nodes that go take their counts with them.
LEMMA RemoveInv ==
  ASSUME IInv, NEW gone, subs' = subs,
         nodes' = Only(nodes, Paths \ gone), marks' = Only(marks, Paths \ gone)
  PROVE  IInv'
<1> USE DEF IInv, Marked, Paths
<1>1. DOMAIN nodes' = Paths \ gone
  BY DEF Only
<1>2. marks' = [p \in Paths \ gone |-> marks[p]]
  BY DEF Only
<1>3. Marked'
  BY <1>1, <1>2
<1>4. \A p, t : MatchCount(t, p)' = MatchCount(t, p)
  BY DEF MatchCount
<1>5. MarksExact'
  BY <1>1, <1>2, <1>4 DEF MarksExact
<1> QED
  BY <1>3, <1>5

\* A session that leaves takes its subscriptions out of the counts of all nodes.
LEMMA CleanupInv ==
  ASSUME IInv, NEW s \in Sessions, Cleanup(s)
  PROVE  IInv'
<1> USE DEF IInv, Marked, Paths
<1>1. PICK gone :
        /\ nodes' = Only(nodes, Paths \ gone)
        /\ marks' = [p \in Paths \ gone |->
                       [marks[p] EXCEPT ![s] = IF MatchCount(s, p) > 0 THEN 0 ELSE @]]
  BY DEF Cleanup
<1>2. subs' = [subs EXCEPT ![s] = {}]
  BY DEF Cleanup
<1>3. DOMAIN nodes' = Paths \ gone
  BY <1>1 DEF Only
<1>4. Marked'
  BY <1>1, <1>2, <1>3
<1>5. \A p, t : t \in Sessions \ {s} => MatchCount(t, p)' = MatchCount(t, p)
  BY <1>2 DEF MatchCount
<1>6. \A p : MatchCount(s, p)' = 0
  <2> TAKE p
  <2>1. {q \in subs'[s] : Matches(q, p)} = {}
    BY <1>2
  <2> QED
    BY <2>1, FS_EmptySet DEF MatchCount
<1>7. \A p : MatchCount(s, p) \in Nat
  <2> TAKE p
  <2>1. MatchCount(s, p) = Cardinality(Hits(subs[s], p))
    BY DEF MatchCount, Hits
  <2> QED
    BY <2>1, HitsFinite
<1>8. ASSUME NEW p \in Paths', NEW t \in Sessions
      PROVE  marks'[p][t] = MatchCount(t, p)'
  <2>1. p \in Paths \ gone /\ marks[p][t] = MatchCount(t, p)
    BY <1>3 DEF MarksExact
  <2>2. CASE t = s
    BY <1>1, <1>6, <1>7, <2>1, <2>2
  <2>3. CASE t # s
    BY <1>1, <1>5, <2>1, <2>3
  <2> QED
    BY <2>2, <2>3
<1>9. MarksExact'
  BY <1>8 DEF MarksExact
<1> QED
  BY <1>4, <1>9

\* A subscription that is new is counted by the nodes it matches; one that is made
\* again is not.
LEMMA SubscribeInv ==
  ASSUME IInv, NEW s \in Sessions, NEW pattern \in Patterns, Subscribe(s, pattern)
  PROVE  IInv'
<1> USE DEF IInv, Marked, Paths
<1>1. /\ subs' = [subs EXCEPT ![s] = @ \cup {pattern}]
      /\ nodes' = nodes
      /\ marks' = IF pattern \in subs[s] THEN marks
                  ELSE [p \in Paths |-> IF Matches(pattern, p)
                          THEN [marks[p] EXCEPT ![s] = @ + 1] ELSE marks[p]]
  BY DEF Subscribe
<1>2. subs' \in [Sessions -> SUBSET Patterns]
  BY <1>1
<1>3. CASE pattern \in subs[s]
  <2>1. subs' = subs /\ marks' = marks
    BY <1>1, <1>3
  <2> QED
    BY <1>1, <2>1 DEF MarksExact, MatchCount
<1>4. CASE pattern \notin subs[s]
  <2>1. Marked'
    BY <1>1, <1>2, <1>4
  <2>2. ASSUME NEW p \in Paths', NEW t \in Sessions
        PROVE  marks'[p][t] = MatchCount(t, p)'
    <3>1. p \in Paths /\ marks[p][t] = MatchCount(t, p)
      BY <1>1 DEF MarksExact
    <3>2. CASE t # s
      <4>1. subs'[t] = subs[t]
        BY <1>1, <3>2
      <4>2. marks'[p][t] = marks[p][t]
        BY <1>1, <1>4, <3>1, <3>2
      <4> QED
        BY <3>1, <4>1, <4>2 DEF MatchCount
    <3>3. CASE t = s
      <4>1. subs'[s] = subs[s] \cup {pattern}
        BY <1>1
      <4>2. MatchCount(s, p)' = Cardinality(Hits(subs[s] \cup {pattern}, p))
        BY <4>1 DEF MatchCount, Hits
      <4>3. MatchCount(s, p) = Cardinality(Hits(subs[s], p))
        BY DEF MatchCount, Hits
      <4>4. MatchCount(s, p)' = MatchCount(s, p) + (IF Matches(pattern, p) THEN 1 ELSE 0)
        BY <1>4, <4>2, <4>3, HitsAdd
      <4>5. MatchCount(s, p) \in Nat
        BY <4>3, HitsFinite
      <4>6. CASE Matches(pattern, p)
        <5>1. marks'[p][s] = marks[p][s] + 1
          BY <1>1, <1>4, <3>1, <4>6
        <5> QED
          BY <3>1, <3>3, <4>4, <4>6, <5>1
      <4>7. CASE ~Matches(pattern, p)
        <5>1. marks'[p][s] = marks[p][s]
          BY <1>1, <1>4, <3>1, <4>7
        <5> QED
          BY <3>1, <3>3, <4>4, <4>5, <4>7, <5>1
      <4> QED
        BY <4>6, <4>7
    <3> QED
      BY <3>2, <3>3
  <2> QED
    BY <2>1, <2>2 DEF MarksExact
<1> QED
  BY <1>3, <1>4

\* The subscriptions that are given up are taken out of the counts.
LEMMA UnsubscribeInv ==
  ASSUME IInv, NEW s \in Sessions, NEW gone, Unsubscribe(s, gone)
  PROVE  IInv'
<1> USE DEF IInv, Marked, Paths
<1>1. /\ subs' = [subs EXCEPT ![s] = @ \ gone]
      /\ nodes' = nodes
      /\ marks' = [p \in Paths |->
           [marks[p] EXCEPT ![s] =
              Lowered(@, Cardinality({q \in subs[s] \cap gone : Matches(q, p)}))]]
  BY DEF Unsubscribe
<1>2. Marked'
  BY <1>1
<1>3. ASSUME NEW p \in Paths', NEW t \in Sessions
      PROVE  marks'[p][t] = MatchCount(t, p)'
  <2>1. p \in Paths /\ marks[p][t] = MatchCount(t, p)
    BY <1>1 DEF MarksExact
  <2>2. CASE t # s
    <3>1. subs'[t] = subs[t] /\ marks'[p][t] = marks[p][t]
      BY <1>1, <2>1, <2>2
    <3> QED
      BY <2>1, <3>1 DEF MatchCount
  <2>3. CASE t = s
    <3>1. marks'[p][s] = Lowered(marks[p][s], Cardinality(Hits(subs[s] \cap gone, p)))
      BY <1>1, <2>1 DEF Hits
    <3>2. subs'[s] = subs[s] \ gone
      BY <1>1
    <3>3. MatchCount(s, p)' = Cardinality(Hits(subs[s] \ gone, p))
      BY <3>2 DEF MatchCount, Hits
    <3>4. MatchCount(s, p) = Cardinality(Hits(subs[s], p))
      BY DEF MatchCount, Hits
    <3>5. subs[s] \in SUBSET Patterns
      OBVIOUS
    <3>6. Cardinality(Hits(subs[s] \ gone, p)) =
            Lowered(Cardinality(Hits(subs[s], p)), Cardinality(Hits(subs[s] \cap gone, p)))
      BY <3>5, HitsRemove
    <3> QED
      BY <2>1, <2>3, <3>1, <3>3, <3>4, <3>6
  <2> QED
    BY <2>2, <2>3
<1> QED
  BY <1>2, <1>3 DEF MarksExact

\* Every step of the clients and of the server keeps the counts exact.
LEMMA NextInv == IInv /\ [Next]_vars => IInv'
<1> SUFFICES ASSUME IInv, [Next]_vars PROVE IInv'
  OBVIOUS
<1>1. ASSUME UNCHANGED <<nodes, subs, marks>> PROVE IInv'
  BY <1>1 DEF IInv, Marked, MarksExact, Paths, MatchCount
<1>2. CASE UNCHANGED vars
  BY <1>1, <1>2 DEF vars
<1>3. ASSUME NEW s \in Sessions, Attach(s) PROVE IInv'
  BY <1>3, PutInv DEF Attach, AttachedToServer
<1>4. ASSUME NEW s \in Sessions, Detach(s) PROVE IInv'
  BY <1>4, CleanupInv DEF Detach
<1>5. ASSUME NEW s \in Sessions, SetNodes(s) PROVE IInv'
  <2>1. PICK keys, value : SetData(s, keys, value)
    BY <1>5 DEF SetNodes
  <2>2. PICK here : Put(s, here)
    BY <2>1 DEF SetData
  <2>3. subs' = subs
    BY <2>1 DEF SetData
  <2> QED
    BY <2>2, <2>3, PutInv
<1>6. ASSUME NEW s \in Sessions, RemoveNodes(s) PROVE IInv'
  <2>1. PICK keys : RemoveData(s, keys)
    BY <1>6 DEF RemoveNodes
  <2>2. PICK gone : nodes' = Only(nodes, Paths \ gone) /\ marks' = Only(marks, Paths \ gone)
    BY <2>1 DEF RemoveData
  <2>3. subs' = subs
    BY <2>1 DEF RemoveData
  <2> QED
    BY <2>2, <2>3, RemoveInv
<1>7. ASSUME NEW s \in Sessions, SubscribeTo(s) PROVE IInv'
  BY <1>7, SubscribeInv DEF SubscribeTo
<1>8. ASSUME NEW s \in Sessions, GiveUp(s) PROVE IInv'
  BY <1>8, UnsubscribeInv DEF GiveUp
<1>9. ASSUME NEW s \in Sessions, Receive(s) PROVE IInv'
  BY <1>1, <1>9 DEF Receive
<1> QED
  BY <1>2, <1>3, <1>4, <1>5, <1>6, <1>7, <1>8, <1>9 DEF Next

\* The counts by which the server decides whom to tell of a change are the numbers of
\* subscriptions that match (DataNode::_subscribers), whatever patterns overlap and in
\* whatever order nodes, subscriptions and sessions come and go.
THEOREM MarksAreExact == Spec => []MarksExact
<1>1. Init => IInv
  BY InitInv
<1>2. IInv /\ [Next]_vars => IInv'
  BY NextInv
<1>3. IInv => MarksExact
  BY DEF IInv
<1> QED
  BY <1>1, <1>2, <1>3, PTL DEF Spec
=============================================================================
