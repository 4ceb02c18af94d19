--------------------------- MODULE MCSharedFiles ---------------------------
\* Two nodes, two names, the shared folder and one folder in it: enough for two files
\* of one name, a rename, a name that is freed and taken again, and a folder that is
\* moved out and back.
EXTENDS SharedFiles, TLC

Symmetry == Permutations(Files) \cup Permutations(Names)
=============================================================================
