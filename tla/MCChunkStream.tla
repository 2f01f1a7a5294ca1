---------------------------- MODULE MCChunkStream ----------------------------
(***************************************************************************)
(* ChunkStream for TLC: two chunk streams, one with a message in two       *)
(* chunks followed by one that may use any format, one with messages on    *)
(* two message streams and an extended timestamp.                          *)
(***************************************************************************)
EXTENDS ChunkStream

MCScript ==
    (3 :> <<[type |-> 20, length |-> 1, stream_id |-> 0, timestamp |-> 0],
            [type |-> 9, length |-> 3, stream_id |-> 1, timestamp |-> 5]>>) @@
    (4 :> <<[type |-> 8, length |-> 3, stream_id |-> 1, timestamp |-> 0],
            [type |-> 8, length |-> 3, stream_id |-> 1, timestamp |-> 1],
            [type |-> 8, length |-> 3, stream_id |-> 1, timestamp |-> 2]>>)

\* A single message of two chunks with a timestamp of its own.
MCScriptLongAbsolute ==
    4 :> <<[type |-> 8, length |-> 3, stream_id |-> 1, timestamp |-> 1]>>
=============================================================================
