------------------------------ MODULE Streams ------------------------------
(***************************************************************************)
(* What a ByteStream promises to the rest of the program, as operators on  *)
(* a value: a bounded first-in first-out queue of bytes with cumulative    *)
(* counts, an end-of-stream mark and an error mark.  ByteStream.tla models *)
(* the ring buffer of src/src/byte_stream.cc and is shown to implement it; *)
(* the layers above (reassembler, sender, receiver) are written over these *)
(* operators.                                                              *)
(*                                                                         *)
(* The bytes held are the sequence `queue'; bytes_pushed is recovered as   *)
(* popped + Len(queue).                                                    *)
(***************************************************************************)
EXTENDS Naturals, Sequences

Lesser(a, b) == IF a <= b THEN a ELSE b

NewStream(capacity) ==
  [capacity |-> capacity, queue |-> << >>, popped |-> 0,
   closed |-> FALSE, error |-> FALSE]

StreamType(capacity, Byte) ==
  [capacity : {capacity}, queue : Seq(Byte), popped : Nat,
   closed : BOOLEAN, error : BOOLEAN]

BytesBuffered(s) == Len(s.queue)

BytesPushed(s) == s.popped + Len(s.queue)

AvailableCapacity(s) == s.capacity - Len(s.queue)

IsFinished(s) == s.closed /\ s.queue = << >>

(* Writer::push: silently refused after close, silently truncated to the   *)
(* space that is left.                                                     *)
Push(s, data) ==
  IF s.closed THEN s
  ELSE [s EXCEPT !.queue =
          @ \o SubSeq(data, 1, Lesser(Len(data), AvailableCapacity(s)))]

Close(s) == [s EXCEPT !.closed = TRUE]

(* Reader::peek shows only the bytes up to the end of the ring, whose read *)
(* cursor is popped % capacity.                                            *)
PeekLength(s) ==
  Lesser(s.capacity - (s.popped % s.capacity), BytesBuffered(s))

Peek(s) == SubSeq(s.queue, 1, PeekLength(s))

(* Reader::pop, defined when len <= BytesBuffered(s): it throws otherwise. *)
Pop(s, len) ==
  [s EXCEPT !.queue = SubSeq(@, len + 1, Len(@)), !.popped = @ + len]

SetError(s) == [s EXCEPT !.error = TRUE]
=============================================================================
