----------------------------- MODULE ByteStream -----------------------------
(***************************************************************************)
(* The ring buffer of src/src/byte_stream.cc: a vector of `capacity_'      *)
(* cells, a write and a read cursor that wrap around, and the cumulative   *)
(* counts from which every size is computed.  One action per member        *)
(* function of Writer and Reader that changes state, and one for the       *)
(* helper read() of src/util/byte_stream_helpers.cc.                       *)
(***************************************************************************)
EXTENDS Naturals, Sequences

CONSTANTS
  Capacity,   \* capacity_, the size of the ring
  Byte,       \* the values a byte may take
  Data,       \* the strings a writer may push
  Nul         \* what resize() leaves in the cells, a byte like any other

ASSUME CapacityAssumption == Capacity \in Nat \ {0}
ASSUME DataAssumption == Data \subseteq Seq(Byte) /\ Nul \in Byte

VARIABLES
  buffer, writer_cursor, reader_cursor, bytes_pushed, bytes_popped,
  closed, error,
  passed      \* the string the last call handed over: what push() was given,
              \* what read() returned, nothing for the others

vars == <<buffer, writer_cursor, reader_cursor, bytes_pushed, bytes_popped,
          closed, error, passed>>

Min2(a, b) == IF a <= b THEN a ELSE b

Cells == 0 .. Capacity - 1

Init ==
  /\ buffer = [c \in Cells |-> Nul]
  /\ writer_cursor = 0 /\ reader_cursor = 0
  /\ bytes_pushed = 0 /\ bytes_popped = 0
  /\ closed = FALSE /\ error = FALSE
  /\ passed = << >>

-----------------------------------------------------------------------------
bytes_buffered == bytes_pushed - bytes_popped

available_capacity == Capacity - (bytes_pushed - bytes_popped)

is_finished == closed /\ bytes_popped = bytes_pushed

(* A definition named Faulty... is a plausible bug; no action uses one.  It *)
(* is there to show that a property tells it from the code.                *)

(* Off by one at the end of the ring.                                      *)
FaultyShown(cursor, buffered) == Min2(Capacity - 1 - cursor, buffered)

(* How much of `buffered' bytes peek() shows with the read cursor at       *)
(* `cursor': it stops at the end of the ring.                              *)
Shown(cursor, buffered) == Min2(Capacity - cursor, buffered)

(* The n bytes in the cells from `cursor' on, which do not wrap.           *)
Bytes(cursor, n) == [i \in 1..n |-> buffer[cursor + i - 1]]

peek == Bytes(reader_cursor, Shown(reader_cursor, bytes_buffered))

(* The write does not continue at the start of the ring.                   *)
FaultyOffset(cursor, c) == IF c >= cursor THEN c - cursor ELSE Capacity

(* How far cell c lies after `cursor' around the ring.                     *)
Offset(cursor, c) ==
  IF c >= cursor THEN c - cursor ELSE c + Capacity - cursor

(* The cursor is not brought back.                                         *)
FaultyAdvance(cursor, n) == cursor + n

Advance(cursor, n) == (cursor + n) % Capacity

(* What does not fit is not cut off.                                       *)
FaultyWriteLength(data) == Len(data)

WriteLength(data) == Min2(Len(data), available_capacity)

Push(data) ==
  /\ ~closed
  /\ WriteLength(data) # 0
  /\ buffer' = [c \in Cells |->
                  IF Offset(writer_cursor, c) < WriteLength(data)
                  THEN data[Offset(writer_cursor, c) + 1]
                  ELSE buffer[c]]
  /\ writer_cursor' = Advance(writer_cursor, WriteLength(data))
  /\ bytes_pushed' = bytes_pushed + WriteLength(data)
  /\ passed' = data
  /\ UNCHANGED <<reader_cursor, bytes_popped, closed, error>>

(* push() after close(), or of nothing, or into a full ring, returns early.*)
PushRefused(data) ==
  /\ closed \/ WriteLength(data) = 0
  /\ passed' = data
  /\ UNCHANGED <<buffer, writer_cursor, reader_cursor, bytes_pushed,
                 bytes_popped, closed, error>>

Close ==
  /\ closed' = TRUE /\ passed' = << >>
  /\ UNCHANGED <<buffer, writer_cursor, reader_cursor, bytes_pushed,
                 bytes_popped, error>>

(* The cells a pop releases keep their bytes.  A pop of more than is       *)
(* buffered throws before it changes anything.                             *)
Pop(len) ==
  /\ bytes_buffered >= len
  /\ reader_cursor' = Advance(reader_cursor, len)
  /\ bytes_popped' = bytes_popped + len
  /\ passed' = << >>
  /\ UNCHANGED <<buffer, writer_cursor, bytes_pushed, closed, error>>

SetError ==
  /\ error' = TRUE /\ passed' = << >>
  /\ UNCHANGED <<buffer, writer_cursor, reader_cursor, bytes_pushed,
                 bytes_popped, closed>>

(* The helper read(): peek and pop, and once more from the start of the    *)
(* ring when the first peek stopped at its end.                            *)
Read(max_len) ==
  LET first  == Min2(max_len, Shown(reader_cursor, bytes_buffered))
      cursor == Advance(reader_cursor, first)
      second == Min2(max_len - first, Shown(cursor, bytes_buffered - first))
  IN  /\ passed' = Bytes(reader_cursor, first) \o Bytes(cursor, second)
      /\ reader_cursor' = Advance(cursor, second)
      /\ bytes_popped' = bytes_popped + first + second
      /\ UNCHANGED <<buffer, writer_cursor, bytes_pushed, closed, error>>

Next ==
  \/ \E data \in Data : Push(data) \/ PushRefused(data)
  \/ Close
  \/ \E len \in 0..Capacity : Pop(len) \/ Read(len)
  \/ SetError

Spec == Init /\ [][Next]_vars

-----------------------------------------------------------------------------
TypeOK ==
  /\ buffer \in [Cells -> Byte]
  /\ writer_cursor \in Cells /\ reader_cursor \in Cells
  /\ bytes_pushed \in Nat /\ bytes_popped \in Nat
  /\ closed \in BOOLEAN /\ error \in BOOLEAN
  /\ passed \in Seq(Byte)

(* The two cursors are a redundant encoding of the two counts, and the     *)
(* ring never holds more than its capacity: what the arithmetic of         *)
(* available_capacity() and peek() silently relies on.                     *)
CursorsFollowCounts ==
  /\ bytes_popped <= bytes_pushed
  /\ bytes_pushed - bytes_popped <= Capacity
  /\ writer_cursor = Advance(reader_cursor, bytes_pushed - bytes_popped)
  /\ reader_cursor = bytes_popped % Capacity

(* The bytes the ring holds, oldest first.                                 *)
Queue == [i \in 1..bytes_buffered |-> buffer[Advance(reader_cursor, i - 1)]]

(* A reader is never shown an empty view while bytes are buffered (read()  *)
(* would throw and the sender would stall), and what it is shown is the    *)
(* oldest bytes, in order.                                                 *)
PeekShowsOldest ==
  /\ bytes_buffered > 0 => peek # << >>
  /\ peek = SubSeq(Queue, 1, Len(peek))

(* read(max_len) hands over the oldest bytes across the wrap of the ring:  *)
(* max_len of them, or all there are; the others stay, in order.           *)
ReadTakesOldest ==
  [][\A max_len \in 0..Capacity : Read(max_len) =>
       LET taken == Min2(max_len, bytes_buffered)
       IN  /\ passed' = SubSeq(Queue, 1, taken)
           /\ Queue' = SubSeq(Queue, taken + 1, bytes_buffered)]_vars

(* Once a reader has seen end of stream it never sees another byte.        *)
FinishedIsFinal == [][is_finished => is_finished' /\ bytes_pushed' = bytes_pushed]_vars

(* The ring implements the bounded queue the other modules are built on:   *)
(* the bytes given to push() are those queued, those read() returns are    *)
(* those dequeued.                                                         *)
Abstract == INSTANCE StreamSpec WITH
  stream <- [capacity |-> Capacity, queue |-> Queue, popped |-> bytes_popped,
             closed |-> closed, error |-> error]

ImplementsStream == Abstract!Spec
=============================================================================
