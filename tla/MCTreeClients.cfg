SPECIFICATION Spec
CONSTANTS
  s1 = s1
  s2 = s2
  h = h
  files = files
  a = a
  b = b
  Sessions = {s1, s2}
  Host <- OneHost
  Blank = 0
  Patterns = {"all", "files"}
  Matches <- PathMatches
  MaxNodes = 2
  MaxItems = 2
  Keys <- Requests
  Values = {1, 2}
  Writers = {s1}
  MaxQueue = 2
INVARIANTS MarksExact CountExact NothingMissed NothingStale
CHECK_DEADLOCK FALSE
