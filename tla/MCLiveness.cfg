CONSTANTS
  Sessions = {s1, s2}
  Users = {u1}
  Anon = Anon
  Commands = {"socket", "connectBack", "connect", "reject", "resume", "return", "reaper", "scan"}
  Limits = {1, 2}
  MaxFiles = 1
  FirstOpt <- Shortest
SPECIFICATION FairSpec
INVARIANTS SlotsAreSound
PROPERTIES EveryUploadEnds HandlersReturn
CHECK_DEADLOCK FALSE
