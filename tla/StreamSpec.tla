----------------------------- MODULE StreamSpec -----------------------------
(***************************************************************************)
(* The abstract specification of a ByteStream: its users see a bounded     *)
(* queue, on which pushes, pops, reads, close and set_error act in any     *)
(* order, and the strings they exchange with it.                           *)
(***************************************************************************)
EXTENDS Streams

CONSTANTS Capacity, Data

VARIABLES
  stream,
  passed      \* the string the last operation took from or gave to its caller

Init == stream = NewStream(Capacity) /\ passed = << >>

PushStep ==
  \E data \in Data : stream' = Push(stream, data) /\ passed' = data

CloseStep == stream' = Close(stream) /\ passed' = << >>

PopStep ==
  \E len \in 0..BytesBuffered(stream) :
    stream' = Pop(stream, len) /\ passed' = << >>

(* A read takes bytes off the queue and hands over exactly those.          *)
ReadStep ==
  \E len \in 0..BytesBuffered(stream) :
    stream' = Pop(stream, len) /\ passed' = SubSeq(stream.queue, 1, len)

ErrorStep == stream' = SetError(stream) /\ passed' = << >>

Next == PushStep \/ CloseStep \/ PopStep \/ ReadStep \/ ErrorStep

Spec == Init /\ [][Next]_<<stream, passed>>
=============================================================================
