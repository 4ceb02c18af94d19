CONSTANTS
  Sessions = {s1, s2}
  Users = {u1}
  Anon = Anon
  Commands = {"connect", "accept", "reject", "leave", "return", "halt", "resume", "autoClear"}
  Limits = {1, 2}
  MaxFiles = 1
  FirstOpt <- OneOfAnybody
SPECIFICATION Spec
SYMMETRY OnlySessions
INVARIANTS SlotsAreSound
CHECK_DEADLOCK FALSE
