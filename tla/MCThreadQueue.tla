--------------------------- MODULE MCThreadQueue ---------------------------
\* Two sending threads (the window's looper and the share-scanning thread) and
\* four messages: enough for a sender to be caught between append and signal
\* while the other one appends and the receiver empties the queue.
EXTENDS ThreadQueue
=============================================================================
