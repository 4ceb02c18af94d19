CONSTANTS
  Sessions = {s1, s2}
  Users = {u1}
  Anon = Anon
  Commands = {"socket", "limit", "pause", "halt", "resume", "multi", "move", "perUser", "cancel", "clear", "bad"}
  Limits = {1, 2}
  MaxFiles = 1
  FirstOpt <- OneEach
SPECIFICATION Spec
SYMMETRY OnlySessions
INVARIANTS SlotsAreSound
CHECK_DEADLOCK FALSE
