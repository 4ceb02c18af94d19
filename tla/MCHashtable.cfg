CONSTANTS
  Keys = {1, 2, 3}
  Values <- AmongEquals
  Iters = {i1}
  Functor <- Colliding
  HashRange = 8
  InitialCapacity = 1
  MaxSize = 2
  SortModes = {"off", "key", "value"}
SPECIFICATION Spec
INVARIANTS NoEntryIsLost EachIsVisitedOnce
PROPERTIES IsAnOrderedMap
