CONSTANTS
  Sessions = {s1, s2, s3}
  Users = {u1}
  Anon = Anon
  Commands = {"socket", "reaper", "shortest"}
  Limits = {1, 2}
  MaxFiles = 2
  FirstOpt <- Shortest
SPECIFICATION Spec
SYMMETRY OnlySessions
INVARIANTS TypeOK SlotsAreLive ActiveUploadIsWatched NoIdleSlot RemovesLiveSessions NobodyLeftHalted
PROPERTIES StartsWithinLimit
CHECK_DEADLOCK FALSE
