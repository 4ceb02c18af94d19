------------------------- MODULE MCServerConnection -------------------------
\* This client, and one other user.
EXTENDS ServerConnection

CONSTANTS me, other, host1, host2, beshareNode, nameNode, filesNode, fileNode

Hosts == [s \in {me, other} |-> IF s = other THEN host2 ELSE host1]
NamePath == <<beshareNode, nameNode>>
SharedPaths == {<<beshareNode, filesNode, fileNode>>}
PathMatches(pattern, path) ==
  CASE pattern = "sessions" -> Len(path) = 2
    [] pattern = "users" -> Len(path) = 4
    [] pattern = "files" -> Len(path) = 5
=============================================================================
