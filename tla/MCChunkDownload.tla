--------------------------- MODULE MCChunkDownload ---------------------------
(* Small instances of ChunkDownload: two ranges, two attempts per range, and *)
(* a budget for every kind of disturbance.                                   *)
EXTENDS ChunkDownload

\* A redirected file with a digest, which may come without a length, and a file
\* without a digest whose length is known from the start
MCFiles == {[digestKnown |-> TRUE, redirected |-> TRUE, length |-> "unstated"],
            [digestKnown |-> FALSE, redirected |-> FALSE, length |-> "known"]}
\* Nothing is known of it before HEAD.
MCPlainFile == {[digestKnown |-> FALSE, redirected |-> FALSE, length |-> "stated"]}
=============================================================================
