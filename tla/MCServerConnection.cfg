SPECIFICATION FairSpec
CONSTANTS
  me = me
  other = other
  host1 = host1
  host2 = host2
  beshareNode = beshareNode
  nameNode = nameNode
  filesNode = filesNode
  fileNode = fileNode
  Sessions = {me, other}
  Mine = {me}
  Host <- Hosts
  Blank = 0
  Patterns = {"sessions", "users", "files"}
  Queries = {"files"}
  Matches <- PathMatches
  MaxNodes = 9
  MaxItems = 2
  Names <- NamePath
  FileKeys <- SharedPaths
  NoSession = NoSession
  NoQuery = NoQuery
  MaxSteps = 4
INVARIANTS ReconnectIsPending UsersAreThere QueryIsComplete ResultsAreThere
PROPERTIES QueryEnds
CHECK_DEADLOCK FALSE
