------------------------------ MODULE Hashtable ------------------------------
(***************************************************************************)
(* MUSCLE's Hashtable (muscle/util/Hashtable.h), the container in which    *)
(* BeShare keeps its users, results, files and transfers and the server    *)
(* its nodes and subscriptions.  One array holds the heads of the buckets, *)
(* their chains and the free entries: each bucket number is mapped to an   *)
(* entry (_mapTo), and entries are swapped when one bucket's chain has     *)
(* taken the entry in which another should start.  A list through the      *)
(* entries in use keeps their order; iterators hold pointers into it and   *)
(* are redirected when entries are removed, moved, or copied to a bigger   *)
(* array.                                                                  *)
(*                                                                         *)
(* A table is one record.  The doubly linked list of the iteration is the  *)
(* sequence order; the chains and the free list, which share their links,  *)
(* keep them (prev, next).  A HashtableIterator holds two independent      *)
(* traversals, of the keys and of the values, which are treated alike;     *)
(* each is an iterator of the model.  Left out: running out of memory,     *)
(* which leaves the table as it was, copies of iterators, NOREGISTER       *)
(* iterators, and SwapContents() of two tables.                            *)
(***************************************************************************)
EXTENDS Integers, Sequences, SequencesExt, FiniteSetsExt

CONSTANTS
  Keys,              \* a set of integers, compared as such
  Values,            \* the integers that are put under each key
  Iters,             \* HashtableIterator objects
  Functor,           \* the key's HashFunctor
  HashRange,         \* number of hash codes, 2^32 in the code
  InitialCapacity,   \* the constructor's argument
  SortModes,         \* the modes given to SetAutoSortMode()
  MaxSize            \* bound on the sizes asked for with EnsureSize()

ASSUME CapacityAssumption == InitialCapacity \in Nat \ {0}
ASSUME ModesAssumption == {"off"} \subseteq SortModes /\ SortModes \subseteq {"off", "key", "value"}
ASSUME FunctorAssumption == Functor \in [Keys -> 0..(HashRange - 1)]

VARIABLES table, iters

vars == <<table, iters>>

None == -1   \* NULL
InvalidHash == HashRange - 1   \* MUSCLE_HASHTABLE_INVALID_HASH_CODE

ComputeHash(k) == IF Functor[k] = InvalidHash THEN (Functor[k] + 1) % HashRange ELSE Functor[k]

Blank == [hash |-> InvalidHash, key |-> None, value |-> None, prev |-> None, next |-> None]

\* A table whose array is not allocated yet.
NewTable(size, mode) ==
  [size |-> size, slots |-> <<>>, mapTo |-> <<>>, mappedFrom |-> <<>>, freeHead |-> None,
   order |-> <<>>, count |-> 0, mode |-> mode]

\* PutAux()'s demand allocation; CreateEntriesArray() links all entries as free.
Allocated(t) ==
  IF t.slots # <<>> THEN t
  ELSE LET S == 0..(t.size - 1) IN
    [t EXCEPT !.slots = [e \in S |-> [Blank EXCEPT
                           !.prev = e - 1, !.next = IF e = t.size - 1 THEN None ELSE e + 1]],
              !.mapTo = [e \in S |-> e], !.mappedFrom = [e \in S |-> e], !.freeHead = 0]

\* A traversal: its owner is there (live), its direction and cookie, and as history the
\* items it found before it that have stayed in their places, to be visited and visited.
NoIterator == [live |-> FALSE, back |-> FALSE, cookie |-> None, owed |-> {}, given |-> {}]

Init ==
  /\ table = NewTable(InitialCapacity, "off")
  /\ iters = [i \in Iters |-> NoIterator]

-----------------------------------------------------------------------------
\* The array: links, the free list, the map from buckets to entries.

SetNext(slots, e, x) == IF e = None THEN slots ELSE [slots EXCEPT ![e].next = x]
SetPrev(slots, e, x) == IF e = None THEN slots ELSE [slots EXCEPT ![e].prev = x]

\* Mutant: an entry from the middle of the free list is not taken out of it.
RemoveOnlyHead(t, e) ==
  LET n == t.slots[e].next IN
  [t EXCEPT !.slots = SetNext(SetPrev(SetPrev(@, n, None), e, None), e, None),
            !.freeHead = IF @ = e THEN n ELSE @]

RemoveFromFreeList(t, e) ==
  LET n == t.slots[e].next  p == t.slots[e].prev IN
  [t EXCEPT !.slots = SetNext(SetPrev(SetNext(SetPrev(@, n, p), p, n), e, None), e, None),
            !.freeHead = IF @ = e THEN n ELSE @]

ReturnToFreeList(t, e) ==
  [t EXCEPT !.slots = SetPrev([@ EXCEPT ![e] = [Blank EXCEPT !.next = t.freeHead]], t.freeHead, e),
            !.freeHead = e]

SwapMaps(t, a, b) ==
  LET m == [t.mapTo EXCEPT ![a] = t.mapTo[b], ![b] = t.mapTo[a]] IN
  [t EXCEPT !.mapTo = m, !.mappedFrom = [@ EXCEPT ![m[a]] = a, ![m[b]] = b]]

IsBucketHead(t, e) ==
  t.slots[e].hash # InvalidHash /\ t.mapTo[t.slots[e].hash % t.size] = e

\* The entries of the chain that starts at e.
Chain(t, e) ==
  LET Hop[n \in 0..t.size] ==
        IF n = 0 THEN e
        ELSE LET x == Hop[n - 1] IN IF x = None THEN None ELSE t.slots[x].next
  IN  SelectSeq([n \in 1..t.size |-> Hop[n - 1]], LAMBDA x : x # None)

GetEntry(t, k) ==
  LET head == t.mapTo[ComputeHash(k) % t.size]
      Hit(x) == t.slots[x].hash = ComputeHash(k) /\ t.slots[x].key = k
      Walk[x \in DOMAIN t.slots \cup {None}] ==
        IF x = None \/ Hit(x) THEN x ELSE Walk[t.slots[x].next]
  IN  IF t.count > 0 /\ IsBucketHead(t, head) THEN Walk[head] ELSE None

-----------------------------------------------------------------------------
\* The order of iteration.

PlaceOf(t, e) == CHOOSE n \in DOMAIN t.order : t.order[n] = e

OrderedKeys(t) == [n \in DOMAIN t.order |-> t.slots[t.order[n]].key]

\* IterateCookie(): the entry after e in the iterator's direction.
IterateCookie(t, e, back) ==
  LET n == PlaceOf(t, e) + (IF back THEN -1 ELSE 1) IN
  IF n \in DOMAIN t.order THEN t.order[n] ELSE None

\* InsertSortedIterationEntry(): at the end, or before the first greater entry; the
\* middle is searched only for an entry that is less than the last.
InsertSortedIterationEntry(t, e) ==
  LET Less(n) == t.mode # "off" /\ t.slots[e][t.mode] < t.slots[t.order[n]][t.mode]
      greater == {n \in DOMAIN t.order : Less(n)}
      last == Len(t.order)
  IN  [t EXCEPT !.order = InsertAt(@, IF {1, last} \cap greater = {} THEN last + 1 ELSE Min(greater), e)]

\* Mutant: an iterator that goes backwards is sent on forwards.
RedirectedForward(e) ==
  [i \in Iters |-> [iters[i] EXCEPT !.cookie = IF @ = e THEN IterateCookie(table, e, FALSE) ELSE @]]

\* RemoveIterationEntry(), for the iterators: those on e go on to the next entry.
Redirected(e) ==
  [i \in Iters |-> [iters[i] EXCEPT !.cookie =
     IF @ = e THEN IterateCookie(table, e, iters[i].back) ELSE @]]

\* History: k is no longer where it was when the traversals began.
Displaced(its, ks) ==
  [i \in Iters |-> [its[i] EXCEPT !.owed = @ \ ks, !.given = @ \ ks]]

\* RemoveIterationEntry(e) and InsertIterationEntry(e) at place n of what is left.
MovedTo(t, e, n) == [t EXCEPT !.order = InsertAt(SelectSeq(@, LAMBDA x : x # e), n, e)]

-----------------------------------------------------------------------------
\* PutAux() of a key that is not in the table, which has a free entry: behind the head
\* of its bucket's chain, or as the head; if another chain has taken the entry in which
\* the bucket should start, the bucket is mapped to a free one first.
Inserted(t, k, v) ==
  LET h == ComputeHash(k)
      slot == t.mapTo[h % t.size]
      joins == IsBucketHead(t, slot)
      taken == ~joins /\ t.slots[slot].hash # InvalidHash
      e == IF joins \/ taken THEN t.freeHead ELSE slot
      mapped == IF taken THEN SwapMaps(t, t.mappedFrom[slot], t.mappedFrom[t.freeHead]) ELSE t
      unfree == RemoveFromFreeList(mapped, e)
      after == IF joins THEN unfree.slots[slot].next ELSE None
      filled == [unfree.slots EXCEPT ![e] = [hash |-> h, key |-> k, value |-> v,
                   prev |-> IF joins THEN slot ELSE None, next |-> after]]
      linked == IF joins THEN SetNext(SetPrev(filled, after, e), slot, e) ELSE filled
  IN  InsertSortedIterationEntry([unfree EXCEPT !.slots = linked, !.count = @ + 1], e)

\* NextPrime(), for which 1 is a prime.
NextPrime(n) ==
  CHOOSE p \in n..(2 * n + 1) :
    LET Prime(x) == x % 2 = 1 /\ \A d \in 3..(x - 1) : x % d # 0 \/ d % 2 = 0
    IN  Prime(p) /\ \A x \in n..(p - 1) : ~Prime(x)

\* The bigger table that EnsureSize() fills with a copy of every entry, in order.
Bigger(t, n) ==
  FoldLeft(LAMBDA b, e : Inserted(Allocated(b), t.slots[e].key, t.slots[e].value),
           NewTable(NextPrime(Max({t.count, n})), t.mode), t.order)

\* EnsureSize(): the iterators are redirected to the copies of their entries.
Grown(t, n) == IF t.size >= n THEN t ELSE Bigger(t, n)

Followed(its, t, n) ==
  IF t.size >= n THEN its
  ELSE LET b == Bigger(t, n)
           Clone(e) == IF e = None THEN None ELSE GetEntry(b, t.slots[e].key)
           moved == [i \in Iters |-> [its[i] EXCEPT !.cookie = Clone(@)]]
       IN  IF OrderedKeys(b) = OrderedKeys(t) THEN moved ELSE Displaced(moved, Keys)

\* The place to which a new value moves an entry of a table sorted by value.
SortedPlace(t, e) ==
  LET n == PlaceOf(t, e)
      V(m) == t.slots[t.order[m]].value
      left == {m \in 1..(n - 1) : \A x \in m..(n - 1) : V(n) < V(x)}
      right == {m \in (n + 1)..Len(t.order) : \A x \in (n + 1)..m : V(n) > V(x)}
  IN  IF t.mode # "value" THEN n
      ELSE IF left # {} THEN Min(left)
      ELSE IF right # {} THEN Max(right) ELSE n

\* PutAux() of a key that is there already.
Replace(k, v) ==
  LET e == GetEntry(table, k)
      set == [table EXCEPT !.slots[e].value = v]
      n == SortedPlace(set, e)
  IN  /\ e # None
      /\ table' = MovedTo(set, e, n)
      /\ iters' = IF n = PlaceOf(set, e) THEN iters ELSE Displaced(Redirected(e), {k})

\* PutAux() of a new key: the table first grows if it is full.
PutNew(k, v) ==
  LET t == Allocated(table)
      n == IF t.count = t.size THEN t.size * 2 ELSE t.size
  IN  /\ GetEntry(table, k) = None
      /\ table' = Inserted(Allocated(Grown(t, n)), k, v)
      /\ iters' = Followed(iters, t, n)

Put(k, v) == Replace(k, v) \/ PutNew(k, v)

\* Mutant: the bucket stays mapped to the entry of the head that was removed.
RemoveKeepsMap(k) ==
  LET e == GetEntry(table, k)
      p == table.slots[e].prev
      n == table.slots[e].next
      unlinked == [table EXCEPT !.slots = SetPrev(SetNext(@, p, n), n, p),
                                !.order = SelectSeq(@, LAMBDA x : x # e),
                                !.count = @ - 1]
  IN  /\ e # None
      /\ table' = ReturnToFreeList(unlinked, e)
      /\ iters' = Displaced(Redirected(e), {k})

\* RemoveAux(): the second entry of a chain whose head is removed becomes the head.
RemoveKey(k) ==
  LET e == GetEntry(table, k)
      p == table.slots[e].prev
      n == table.slots[e].next
      unlinked == [table EXCEPT !.slots = SetPrev(SetNext(@, p, n), n, p),
                                !.order = SelectSeq(@, LAMBDA x : x # e),
                                !.count = @ - 1]
      headed == IF p = None /\ n # None
                THEN SwapMaps(unlinked, table.mappedFrom[e], table.mappedFrom[n])
                ELSE unlinked
  IN  /\ e # None
      /\ table' = ReturnToFreeList(headed, e)
      /\ iters' = Displaced(Redirected(e), {k})

\* Clear(): the iterators are told, and the entries freed in their order or all dropped.
Clear(release) ==
  /\ table' = IF release THEN NewTable(InitialCapacity, table.mode)
              ELSE [FoldLeft(ReturnToFreeList, table, table.order)
                      EXCEPT !.order = <<>>, !.count = 0]
  /\ iters' = [i \in Iters |-> IF iters[i].live THEN NoIterator ELSE iters[i]]

EnsureSize(n) == table' = Grown(table, n) /\ iters' = Followed(iters, table, n)

-----------------------------------------------------------------------------
\* Moving an item in the order, which does nothing to one that is there already.
Move(k, n) ==
  LET e == GetEntry(table, k) IN
  /\ e # None /\ n # PlaceOf(table, e)
  /\ table' = MovedTo(table, e, n)
  /\ iters' = Displaced(Redirected(e), {k})

MoveToFront(k) == Move(k, 1)

MoveToBack(k) == Move(k, Len(table.order))

\* MoveToBefore(): next to f, once k has been taken out.
MoveToBefore(k, f) ==
  LET e == GetEntry(table, k)  x == GetEntry(table, f) IN
  /\ e # None /\ x # None /\ e # x
  /\ Move(k, PlaceOf(table, x) - (IF PlaceOf(table, e) < PlaceOf(table, x) THEN 1 ELSE 0))

MoveToBehind(k, d) ==
  LET e == GetEntry(table, k)  x == GetEntry(table, d) IN
  /\ e # None /\ x # None /\ e # x
  /\ Move(k, PlaceOf(table, x) + (IF PlaceOf(table, e) < PlaceOf(table, x) THEN 0 ELSE 1))

\* SortByAux(): runs of 1, 2, 4... entries are merged two by two until one is left.
Merge(t, by, p, q) ==
  LET M[i \in 1..(Len(p) + 1), j \in 1..(Len(q) + 1)] ==
        IF i > Len(p) THEN SubSeq(q, j, Len(q))
        ELSE IF j > Len(q) THEN SubSeq(p, i, Len(p))
        ELSE IF t.slots[p[i]][by] <= t.slots[q[j]][by] THEN <<p[i]>> \o M[i + 1, j]
        ELSE <<q[j]>> \o M[i, j + 1]
  IN  M[1, 1]

MergePass(t, by, s, n) ==
  LET Run(from) == SubSeq(s, from, Min({from + n - 1, Len(s)}))
      P[m \in 0..Len(s)] ==   \* what the first m of the pairs of runs give
        IF m = 0 THEN <<>>
        ELSE P[m - 1] \o Merge(t, by, Run((m - 1) * 2 * n + 1), Run((m - 1) * 2 * n + n + 1))
  IN  P[Len(s)]

SortByAux(t, by) ==
  LET Passes[m \in 0..Len(t.order)] ==
        IF m = 0 THEN t.order ELSE MergePass(t, by, Passes[m - 1], 2^(m - 1))
  IN  [t EXCEPT !.order = Passes[Min({m \in 0..Len(t.order) : 2^m >= Len(t.order)})]]

\* SortByKey(), SortByValue(): no iterator is told.
SortBy(by) ==
  /\ table' = SortByAux(table, by)
  /\ iters' = IF table'.order = table.order THEN iters ELSE Displaced(iters, Keys)

\* SetAutoSortMode(), with Sort(): by value unless the mode is by key.
SetAutoSortMode(m, sortNow) ==
  LET t == [table EXCEPT !.mode = m] IN
  /\ table' = IF sortNow THEN SortByAux(t, IF m = "key" THEN m ELSE "value") ELSE t
  /\ iters' = IF table'.order = table.order THEN iters ELSE Displaced(iters, Keys)

-----------------------------------------------------------------------------
\* The keys that a traversal at e is still to return.
KeysFrom(t, e, back) ==
  IF e = None THEN {}
  ELSE {t.slots[t.order[n]].key : n \in {m \in DOMAIN t.order :
          IF back THEN m <= PlaceOf(t, e) ELSE m >= PlaceOf(t, e)}}

\* InitializeIterator() and InitializeIteratorAt().
StartAt(i, e, back) ==
  /\ ~iters[i].live
  /\ iters' = [iters EXCEPT ![i] =
       [live |-> TRUE, back |-> back, cookie |-> e, owed |-> KeysFrom(table, e, back), given |-> {}]]
  /\ UNCHANGED table

GetIterator(i, back) ==
  StartAt(i, IF table.order = <<>> THEN None
             ELSE IF back THEN Last(table.order) ELSE Head(table.order), back)

GetIteratorAt(i, k, back) == StartAt(i, GetEntry(table, k), back)

\* GetNextKey() or GetNextValue().
GetNext(i) ==
  LET e == iters[i].cookie  k == table.slots[e].key IN
  /\ iters[i].live /\ e # None
  /\ iters' = [iters EXCEPT ![i].cookie = IterateCookie(table, e, iters[i].back),
                            ![i].owed = @ \ {k},
                            ![i].given = @ \cup ({k} \cap iters[i].owed)]
  /\ UNCHANGED table

DestroyIterator(i) ==
  /\ iters[i].live
  /\ iters' = [iters EXCEPT ![i] = NoIterator]
  /\ UNCHANGED table

Next ==
  \/ \E k \in Keys : \E v \in Values[k] : Put(k, v)
  \/ \E k \in Keys : RemoveKey(k) \/ MoveToFront(k) \/ MoveToBack(k)
  \/ \E k, f \in Keys : MoveToBefore(k, f) \/ MoveToBehind(k, f)
  \/ \E release \in BOOLEAN : Clear(release)
  \/ \E n \in 1..MaxSize : EnsureSize(n)
  \/ \E by \in {"key", "value"} : SortBy(by)
  \/ \E m \in SortModes \ {table.mode}, now \in BOOLEAN : SetAutoSortMode(m, now)
  \/ \E i \in Iters, back \in BOOLEAN : GetIterator(i, back) \/ \E k \in Keys : GetIteratorAt(i, k, back)
  \/ \E i \in Iters : GetNext(i) \/ DestroyIterator(i)

Spec == Init /\ [][Next]_vars

-----------------------------------------------------------------------------
Slots == DOMAIN table.slots

\* An entry is in use or on the free list, never lost and never both, and the list can
\* be walked both ways: else a Put() into a table that is not full would find no entry.
NoEntryIsLost ==
  table.slots # <<>> =>
    LET free == Chain(table, table.freeHead) IN
    /\ IsInjective(free)
    /\ ToSet(free) = Slots \ ToSet(table.order)
    /\ \A n \in DOMAIN free :
         table.slots[free[n]].prev = IF n = 1 THEN None ELSE free[n - 1]

\* A traversal still has before it every item that was to be visited when it began, has
\* not been visited and has stayed in its place, whatever was put, removed, moved or
\* copied to a bigger table meanwhile; and it does not come back to one that it has
\* visited.
EachIsVisitedOnce ==
  \A i \in Iters : iters[i].live =>
    LET ahead == KeysFrom(table, iters[i].cookie, iters[i].back) IN
    iters[i].owed \subseteq ahead /\ iters[i].given \cap ahead = {}

KeyAt(e) == IF e = None THEN None ELSE table.slots[e].key

Map == INSTANCE OrderedMap WITH
  NoKey <- None,
  Values <- UNION {Values[k] : k \in Keys},
  mode <- table.mode,
  items <- [n \in DOMAIN table.order |->
              LET s == table.slots[table.order[n]] IN [key |-> s.key, value |-> s.value]],
  cursors <- [i \in Iters |-> [live |-> iters[i].live, back |-> iters[i].back,
                               at |-> KeyAt(iters[i].cookie)]]

\* The table is an ordered map: buckets, chains, swaps and growth are invisible to its
\* users and to the iterators, which move only when asked or when their item leaves.
IsAnOrderedMap == Map!Spec
=============================================================================
