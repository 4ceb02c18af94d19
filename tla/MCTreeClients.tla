--------------------------- MODULE MCTreeClients ----------------------------
\* Two sessions of one host and patterns that overlap, as "/*/*" and "/*/*/files/*".
EXTENDS TreeClients

CONSTANTS s1, s2, h, files, a, b

OneHost == [s \in {s1, s2} |-> h]
Requests == {<<<<files, a>>, <<files, b>>>>}
PathMatches(pattern, path) ==
  CASE pattern = "all" -> Len(path) \in 2..4
    [] pattern = "files" -> Len(path) = 4
    [] pattern = "sessions" -> Len(path) = 2
=============================================================================
