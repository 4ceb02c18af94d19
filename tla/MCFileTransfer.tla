--------------------------- MODULE MCFileTransfer ---------------------------
\* A file of two buffers and an empty one behind it.
EXTENDS FileTransfer

CONSTANTS a, b
RequestAB == <<a, b>>
SizeAB == [f \in {a, b} |-> IF f = a THEN 2 ELSE 0]
=============================================================================
