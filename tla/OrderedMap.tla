------------------------------ MODULE OrderedMap ------------------------------
(***************************************************************************)
(* What the users of a MUSCLE Hashtable rely on: a map that keeps its      *)
(* items in a well-defined order, and iterators that stand on keys.  An    *)
(* iterator moves only when it is asked to, or when the item it stands on  *)
(* leaves its place; then it goes on to the neighbour.  Slots, buckets and *)
(* the growth of the table are not to be seen.                             *)
(***************************************************************************)
EXTENDS Integers, Sequences, SequencesExt

CONSTANTS Values, Iters,
          NoKey    \* where an iterator stands that has come to the end

VARIABLES items,   \* sequence of records [key, value]
          mode,    \* the order kept by Put(): "off", "key" or "value"
          cursors  \* each iterator: live, back(wards), and the key at which it stands

vars == <<items, mode, cursors>>

KeysOf(s) == {s[n].key : n \in DOMAIN s}

Index(k) == CHOOSE n \in DOMAIN items : items[n].key = k

Without(s, k) == SelectSeq(s, LAMBDA x : x.key # k)

SortedBy(s, by) ==
  by # "off" => \A m, n \in DOMAIN s : m < n => s[m][by] <= s[n][by]

SameItems(s, t) == Len(s) = Len(t) /\ ToSet(s) = ToSet(t)

\* The neighbour at which an iterator goes on after k.
After(k, back) ==
  LET n == Index(k) + (IF back THEN -1 ELSE 1) IN
  IF n \in DOMAIN items THEN items[n].key ELSE NoKey

Leave(k) ==
  cursors' = [i \in Iters |-> [cursors[i] EXCEPT !.at =
                IF @ = k THEN After(k, cursors[i].back) ELSE @]]

-----------------------------------------------------------------------------
Init ==
  /\ items = <<>>
  /\ mode = "off"
  /\ cursors = [i \in Iters |-> [live |-> FALSE, back |-> FALSE, at |-> NoKey]]

\* A new item goes to the end, or to a place that keeps a sorted map sorted.
PutNew(k, v) ==
  LET item == [key |-> k, value |-> v] IN
  /\ Len(items') = Len(items) + 1
  /\ SameItems(items', Append(items, item))
  /\ SortedBy(items, mode) => Without(items', k) = items /\ SortedBy(items', mode)
  /\ mode = "off" => items' = Append(items, item)
  /\ UNCHANGED <<mode, cursors>>

\* A known item keeps its place, unless the map is sorted by value.
PutOld(k, v) ==
  LET there == [items EXCEPT ![Index(k)].value = v] IN
  /\ Len(items') = Len(items)
  /\ UNCHANGED mode
  /\ \/ items' = there /\ UNCHANGED cursors
     \/ /\ mode = "value" /\ ~SortedBy(there, mode)
        /\ SameItems(items', there)
        /\ Without(items', k) = Without(items, k)
        /\ SortedBy(items, mode) => SortedBy(items', mode)
        /\ Leave(k)

Remove1(k) ==
  /\ items' = Without(items, k)
  /\ Leave(k)
  /\ UNCHANGED mode

Move(k) ==
  /\ items' # items
  /\ SameItems(items', items)
  /\ Without(items', k) = Without(items, k)
  /\ Leave(k)
  /\ UNCHANGED mode

\* Equal items stay in the order in which they were.
SortItems(by) ==
  /\ items' # items
  /\ SameItems(items', items)
  /\ SortedBy(items', by)
  /\ \A v \in Values : LET Same(x) == by = "value" /\ x.value = v IN
       SelectSeq(items', Same) = SelectSeq(items, Same)
  /\ UNCHANGED cursors

Clear ==
  /\ items' = <<>>
  /\ \A i \in Iters : ~cursors'[i].live /\ cursors'[i].at = NoKey
  /\ UNCHANGED mode

\* A map whose order was broken by hand may be put in order again when it grows.
Reorder ==
  /\ items' # items /\ ~SortedBy(items, mode)
  /\ SameItems(items', items) /\ SortedBy(items', mode)
  /\ UNCHANGED <<mode, cursors>>

UseIterator(i) ==
  /\ UNCHANGED <<items, mode>>
  /\ \A j \in Iters \ {i} : cursors'[j] = cursors[j]
  /\ \/ /\ cursors[i].live /\ cursors[i].at # NoKey
        /\ cursors'[i] = [cursors[i] EXCEPT !.at = After(@, cursors[i].back)]
     \/ /\ ~cursors[i].live
        /\ cursors'[i].live /\ cursors'[i].at \in KeysOf(items) \cup {NoKey}
     \/ ~cursors'[i].live /\ cursors'[i].at = NoKey

Next ==
  \/ mode' \in {"off", "key", "value"} /\ UNCHANGED <<items, cursors>>
  \/ \E i \in Iters : UseIterator(i)
  \/ Clear \/ Reorder
  \/ \E k \in KeysOf(items') \ KeysOf(items), v \in Values : PutNew(k, v)
  \/ \E k \in KeysOf(items), v \in Values : PutOld(k, v)
  \/ \E k \in KeysOf(items) \ KeysOf(items') : Remove1(k)
  \/ \E k \in KeysOf(items) : Move(k)
  \/ \E by \in {"key", "value"} : SortItems(by) /\ mode' \in {"off", "key", "value"}

Spec == Init /\ [][Next]_vars
=============================================================================
