---------------------------- MODULE MCByteStream ----------------------------
(***************************************************************************)
(* A ring of three cells, strings of up to four bytes (one more than fits) *)
(* over two byte values, and enough bytes pushed for both cursors to wrap  *)
(* more than once.                                                         *)
(***************************************************************************)
EXTENDS ByteStream, SequencesExt


CONSTANT MaxPushed      \* bound on bytes_pushed, for TLC only

MCData == BoundedSeq(Byte, Capacity + 1)

MCNext == Next /\ bytes_pushed' <= MaxPushed

MCSpec == Init /\ [][MCNext]_vars
=============================================================================
