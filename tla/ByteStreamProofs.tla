-------------------------- MODULE ByteStreamProofs --------------------------
(***************************************************************************)
(* What holds of the ring buffer for every capacity, every alphabet and    *)
(* every set of strings.  The inductive invariant is the type invariant    *)
(* with CursorsFollowCounts: the cursors alone cannot tell an empty ring   *)
(* from a full one, so nothing about the queue is inductive without the    *)
(* counts, and the counts say nothing about cells without the cursors.     *)
(***************************************************************************)
EXTENDS ByteStream, SequenceTheorems, TLAPS

(* The names of Streams are those of the ring's operations, too.           *)
Common == INSTANCE Lemmas

USE CapacityAssumption, DataAssumption

IInv == TypeOK /\ CursorsFollowCounts

-----------------------------------------------------------------------------
(* A cursor that advances, by any number of bytes, stays in the ring.      *)
LEMMA AdvanceType ==
  ASSUME NEW x \in Int, NEW n \in Int
  PROVE  Advance(x, n) \in Cells
BY Common!ModRange DEF Advance, Cells

(* Two moves around the ring are one.                                      *)
LEMMA AdvanceTwice ==
  ASSUME NEW x \in Int, NEW a \in Int, NEW b \in Int
  PROVE  Advance(Advance(x, a), b) = Advance(x, a + b)
<1>1. PICK y \in Int : y = x + a
  OBVIOUS
<1>2. (y + b) % Capacity = ((y % Capacity) + b) % Capacity
  BY Common!ModAdd
<1>3. x + (a + b) = y + b
  BY <1>1
<1> QED
  BY <1>1, <1>2, <1>3 DEF Advance

(* A count and the cursor it determines move together.                     *)
LEMMA AdvanceRemainder ==
  ASSUME NEW x \in Int, NEW n \in Int
  PROVE  Advance(x % Capacity, n) = (x + n) % Capacity
BY Common!ModAdd DEF Advance

(* A cursor with the arithmetic of one wrap.                               *)
LEMMA AdvanceCases ==
  ASSUME NEW x \in Cells, NEW n \in 0..Capacity
  PROVE  Advance(x, n) = IF x + n < Capacity THEN x + n ELSE x + n - Capacity
BY Common!ModStep DEF Advance, Cells

(* Offset undoes Advance within one turn of the ring.                      *)
LEMMA OffsetAdvance ==
  ASSUME NEW x \in Cells, NEW n \in 0 .. Capacity - 1
  PROVE  Offset(x, Advance(x, n)) = n
<1>1. Advance(x, n) = IF x + n < Capacity THEN x + n ELSE x + n - Capacity
  BY AdvanceCases
<1> QED
  BY <1>1 DEF Offset, Cells

(* The distance from one cell to another around the ring is less than the  *)
(* capacity.                                                               *)
LEMMA OffsetType ==
  ASSUME NEW x \in Cells, NEW c \in Cells
  PROVE  Offset(x, c) \in Nat
BY DEF Offset, Cells

(* A push writes what fits.                                                *)
LEMMA WriteLengthType ==
  ASSUME IInv, NEW data \in Data
  PROVE  /\ data \in Seq(Byte)
         /\ WriteLength(data) \in 0 .. Len(data)
         /\ WriteLength(data) <= Capacity - (bytes_pushed - bytes_popped)
<1>1. data \in Seq(Byte) /\ Len(data) \in Nat
  BY LenProperties
<1> QED
  BY <1>1 DEF IInv, TypeOK, CursorsFollowCounts, WriteLength, available_capacity, Min2

-----------------------------------------------------------------------------
(* The constructor establishes the invariant.                              *)
LEMMA InitInv == Init => IInv
<1> SUFFICES ASSUME Init PROVE IInv
  OBVIOUS
<1>1. 0 % Capacity = 0
  BY Common!ModSmall
<1>2. TypeOK
  <2>1. << >> \in Seq(Byte)
    BY EmptySeq
  <2>2. 0 \in Cells
    BY DEF Cells
  <2>3. [c \in Cells |-> Nul] \in [Cells -> Byte]
    OBVIOUS
  <2> QED
    BY <2>1, <2>2, <2>3 DEF Init, TypeOK
<1>3. CursorsFollowCounts
  BY <1>1 DEF Init, CursorsFollowCounts, Advance
<1> QED
  BY <1>2, <1>3 DEF IInv

(* A push that stores something preserves the invariant: what it stores    *)
(* fits in the space left.                                                 *)
LEMMA PushInv ==
  ASSUME IInv, NEW data \in Data, Push(data)
  PROVE  IInv'
<1> DEFINE n == WriteLength(data)
<1>1. /\ data \in [1..Len(data) -> Byte] /\ Len(data) \in Nat
      /\ n \in 0 .. Len(data)
      /\ n <= Capacity - (bytes_pushed - bytes_popped)
  BY WriteLengthType, LenProperties
<1>2. bytes_pushed' \in Nat /\ n \in Nat
  BY <1>1 DEF Push, IInv, TypeOK
<1>3. writer_cursor' = Advance(reader_cursor, bytes_pushed - bytes_popped + n)
  <2>1. writer_cursor' = Advance(Advance(reader_cursor, bytes_pushed - bytes_popped), n)
    BY DEF Push, IInv, CursorsFollowCounts
  <2> QED
    BY <2>1, <1>2, AdvanceTwice DEF IInv, TypeOK, Cells
<1>4. writer_cursor' \in Cells
  <2>1. /\ bytes_pushed - bytes_popped + n \in Int
        /\ reader_cursor \in Int
    BY <1>2 DEF IInv, TypeOK, Cells
  <2> QED
    BY <2>1, <1>3, AdvanceType
<1>5. buffer' \in [Cells -> Byte]
  <2>1. ASSUME NEW c \in Cells, Offset(writer_cursor, c) < n
        PROVE  data[Offset(writer_cursor, c) + 1] \in Byte
    BY <2>1, <1>1, OffsetType DEF IInv, TypeOK
  <2> QED
    BY <2>1 DEF Push, IInv, TypeOK
<1>6. bytes_pushed' - bytes_popped' = bytes_pushed - bytes_popped + n
  BY <1>2 DEF Push, IInv, TypeOK
<1>7. TypeOK'
  <2>1. passed' \in Seq(Byte)
    BY WriteLengthType DEF Push
  <2> QED
    BY <1>2, <1>4, <1>5, <2>1 DEF Push, IInv, TypeOK
<1>8. CursorsFollowCounts'
  BY <1>1, <1>2, <1>3, <1>6 DEF Push, IInv, TypeOK, CursorsFollowCounts
<1> QED
  BY <1>7, <1>8 DEF IInv

(* Whatever releases the `len' oldest bytes keeps the invariant: Pop, and  *)
(* each round of Read.                                                     *)
LEMMA ReleaseInv ==
  ASSUME IInv, NEW len \in Nat, len <= bytes_buffered,
         reader_cursor' = Advance(reader_cursor, len),
         bytes_popped' = bytes_popped + len,
         UNCHANGED <<buffer, writer_cursor, bytes_pushed, closed, error>>,
         passed' \in Seq(Byte)
  PROVE  IInv'
<1>0. /\ bytes_pushed \in Nat /\ bytes_popped \in Nat
      /\ bytes_pushed - bytes_popped <= Capacity
      /\ len <= bytes_pushed - bytes_popped
      /\ reader_cursor \in Int
  BY DEF IInv, TypeOK, CursorsFollowCounts, bytes_buffered, Cells
<1>1. reader_cursor' \in Cells
  BY <1>0, AdvanceType
<1>2. /\ bytes_popped' \in Nat
      /\ bytes_popped' <= bytes_pushed'
      /\ bytes_pushed' - bytes_popped' <= Capacity
  BY <1>0
<1>3. reader_cursor' = bytes_popped' % Capacity
  <2>1. Advance(bytes_popped % Capacity, len) = (bytes_popped + len) % Capacity
    <3>1. bytes_popped \in Int /\ len \in Int
      BY <1>0
    <3> QED
      BY <3>1, AdvanceRemainder, Zenon
  <2>2. reader_cursor = bytes_popped % Capacity
    BY DEF IInv, CursorsFollowCounts
  <2> QED
    BY <2>1, <2>2
<1>4. writer_cursor' = Advance(reader_cursor', bytes_pushed' - bytes_popped')
  <2>1. len \in Int /\ bytes_pushed - (bytes_popped + len) \in Int
    BY <1>0
  <2>2. Advance(Advance(reader_cursor, len), bytes_pushed - (bytes_popped + len))
          = Advance(reader_cursor, len + (bytes_pushed - (bytes_popped + len)))
    BY <1>0, <2>1, AdvanceTwice
  <2>3. len + (bytes_pushed - (bytes_popped + len)) = bytes_pushed - bytes_popped
    BY <1>0
  <2>4. writer_cursor' = Advance(reader_cursor, bytes_pushed - bytes_popped)
    BY DEF IInv, CursorsFollowCounts
  <2> QED
    BY <2>2, <2>3, <2>4
<1>5. TypeOK'
  BY <1>1, <1>2 DEF IInv, TypeOK
<1>6. CursorsFollowCounts'
  BY <1>2, <1>3, <1>4 DEF CursorsFollowCounts
<1> QED
  BY <1>5, <1>6 DEF IInv

(* A pop preserves the invariant: it is refused when it asks for more than *)
(* is buffered.                                                            *)
LEMMA PopInv ==
  ASSUME IInv, NEW len \in 0..Capacity, Pop(len)
  PROVE  IInv'
<1>1. passed' \in Seq(Byte)
  BY EmptySeq DEF Pop
<1> QED
  BY <1>1, ReleaseInv DEF Pop, IInv, TypeOK, bytes_buffered

-----------------------------------------------------------------------------
(* The queue is a sequence of as many bytes as are buffered.               *)
QueueFacts ==
  /\ bytes_buffered \in 0..Capacity
  /\ Queue \in Seq(Byte)
  /\ Len(Queue) = bytes_buffered
  /\ \A i \in 1..bytes_buffered : Queue[i] = buffer[Advance(reader_cursor, i - 1)]

(* What is buffered is a sequence of bytes, as long as the counts say.     *)
LEMMA QueueType ==
  ASSUME IInv
  PROVE  /\ bytes_buffered \in 0..Capacity
         /\ Queue \in Seq(Byte)
         /\ Len(Queue) = bytes_buffered
         /\ \A i \in 1..bytes_buffered :
              Queue[i] = buffer[Advance(reader_cursor, i - 1)]
<1>1. bytes_buffered \in 0..Capacity
  BY DEF IInv, TypeOK, CursorsFollowCounts, bytes_buffered
<1>2. ASSUME NEW i \in 1..bytes_buffered
      PROVE  buffer[Advance(reader_cursor, i - 1)] \in Byte
  <2>1. Advance(reader_cursor, i - 1) \in Cells
    <3>1. i - 1 \in Int /\ reader_cursor \in Int
      BY <1>1 DEF IInv, TypeOK, Cells
    <3> QED
      BY <3>1, AdvanceType
  <2> QED
    BY <2>1 DEF IInv, TypeOK
<1>3. Queue \in [1..bytes_buffered -> Byte]
  BY <1>2 DEF Queue
<1>4. Queue \in Seq(Byte) /\ Len(Queue) = bytes_buffered
  BY <1>1, <1>3
<1> QED
  BY <1>1, <1>4 DEF Queue

(* The same as an implication, to be primed where the next state is meant. *)
LEMMA QueueFactsInv == IInv => QueueFacts
BY QueueType DEF QueueFacts

(* The same of the next state.                                             *)
LEMMA QueueTypeNext ==
  ASSUME IInv'
  PROVE  /\ bytes_buffered' \in 0..Capacity
         /\ Queue' \in Seq(Byte)
         /\ Len(Queue') = bytes_buffered'
         /\ \A i \in 1..bytes_buffered' :
              Queue'[i] = buffer'[Advance(reader_cursor', i - 1)]
<1>1. QueueFacts'
  BY QueueFactsInv, PTL
<1> QED
  BY <1>1 DEF QueueFacts

(* The bytes from a cursor to the end of what it is shown, when the cursor *)
(* stands `skip' bytes after the read cursor.                              *)
LEMMA BytesAreQueued ==
  ASSUME IInv, NEW skip \in 0..bytes_buffered,
         NEW cursor \in Cells, cursor = Advance(reader_cursor, skip),
         NEW n \in Nat, n <= Shown(cursor, bytes_buffered - skip)
  PROVE  /\ Bytes(cursor, n) \in Seq(Byte)
         /\ Len(Bytes(cursor, n)) = n
         /\ \A i \in 1..n : Bytes(cursor, n)[i] = Queue[skip + i]
<1>0. /\ bytes_buffered \in 0..Capacity /\ skip \in Nat
      /\ cursor \in 0 .. Capacity - 1
      /\ n <= Capacity - cursor /\ n <= bytes_buffered - skip
      /\ reader_cursor \in Int
  <2>1. bytes_buffered \in 0..Capacity
    BY QueueType
  <2> QED
    BY <2>1 DEF Shown, Min2, Cells, IInv, TypeOK
<1>1. ASSUME NEW i \in 1..n
      PROVE  /\ cursor + i - 1 \in Cells
             /\ cursor + i - 1 = Advance(reader_cursor, skip + i - 1)
  <2>1. cursor + i - 1 \in Cells /\ i - 1 \in 0..Capacity /\ i - 1 \in Int
        /\ cursor + (i - 1) = cursor + i - 1 /\ cursor + (i - 1) < Capacity
    BY <1>0 DEF Cells
  <2>2. Advance(cursor, i - 1) = cursor + i - 1
    BY <2>1, AdvanceCases
  <2>3. Advance(cursor, i - 1) = Advance(reader_cursor, skip + (i - 1))
    BY <1>0, <2>1, AdvanceTwice
  <2>4. skip + (i - 1) = skip + i - 1
    BY <1>0
  <2> QED
    BY <2>1, <2>2, <2>3, <2>4
<1>2. ASSUME NEW i \in 1..n
      PROVE  /\ buffer[cursor + i - 1] \in Byte
             /\ buffer[cursor + i - 1] = Queue[skip + i]
  <2>1. skip + i \in 1..bytes_buffered
    BY <1>0
  <2>2. Queue[skip + i] = buffer[Advance(reader_cursor, skip + i - 1)]
    BY <2>1, QueueType
  <2> QED
    BY <2>2, <1>1 DEF IInv, TypeOK
<1>3. Bytes(cursor, n) \in [1..n -> Byte]
  BY <1>2 DEF Bytes
<1>4. Bytes(cursor, n) \in Seq(Byte) /\ Len(Bytes(cursor, n)) = n
  BY <1>3
<1> QED
  BY <1>2, <1>4 DEF Bytes

(* Every state of the invariant shows its reader the oldest bytes.         *)
LEMMA PeekInv == IInv => PeekShowsOldest
<1> SUFFICES ASSUME IInv PROVE PeekShowsOldest
  OBVIOUS
<1> DEFINE k == Shown(reader_cursor, bytes_buffered)
<1>1. bytes_buffered \in 0..Capacity /\ Queue \in Seq(Byte)
      /\ Len(Queue) = bytes_buffered
  BY QueueType
<1>2. /\ k \in 0..bytes_buffered
      /\ bytes_buffered > 0 => k > 0
      /\ bytes_buffered - 0 = bytes_buffered
  BY <1>1 DEF Shown, Min2, IInv, TypeOK, Cells
<1>3. reader_cursor = Advance(reader_cursor, 0) /\ reader_cursor \in Cells
  BY AdvanceCases DEF IInv, TypeOK, Cells
<1>4. /\ peek \in Seq(Byte) /\ Len(peek) = k
      /\ \A i \in 1..k : peek[i] = Queue[i]
  <2>1. /\ Bytes(reader_cursor, k) \in Seq(Byte)
        /\ Len(Bytes(reader_cursor, k)) = k
        /\ \A i \in 1..k : Bytes(reader_cursor, k)[i] = Queue[0 + i]
    <3>1. 0 \in 0..bytes_buffered /\ k \in Nat /\ k <= k
      BY <1>1, <1>2
    <3> HIDE DEF k
    <3> QED
      BY <1>2, <1>3, <3>1, BytesAreQueued DEF k
  <2> QED
    BY <1>2, <2>1 DEF peek
<1>5. /\ SubSeq(Queue, 1, k) \in Seq(Byte) /\ Len(SubSeq(Queue, 1, k)) = k
      /\ \A i \in 1..k : SubSeq(Queue, 1, k)[i] = Queue[i]
  BY <1>1, <1>2
<1>6. peek = SubSeq(Queue, 1, k)
  BY <1>4, <1>5, SeqEqual
<1>7. bytes_buffered > 0 => peek # << >>
  BY <1>2, <1>4
<1> QED
  BY <1>4, <1>6, <1>7 DEF PeekShowsOldest

-----------------------------------------------------------------------------
(* What a release does to the queue.                                       *)
LEMMA ReleaseQueue ==
  ASSUME IInv, IInv', NEW len \in Nat, len <= bytes_buffered,
         reader_cursor' = Advance(reader_cursor, len),
         bytes_popped' = bytes_popped + len,
         UNCHANGED <<buffer, bytes_pushed>>
  PROVE  Queue' = SubSeq(Queue, len + 1, bytes_buffered)
<1>1. /\ bytes_buffered \in 0..Capacity /\ Queue \in Seq(Byte)
      /\ Len(Queue) = bytes_buffered
      /\ \A i \in 1..bytes_buffered :
           Queue[i] = buffer[Advance(reader_cursor, i - 1)]
  BY QueueType
<1>2. /\ bytes_buffered' \in 0..Capacity /\ Queue' \in Seq(Byte)
      /\ Len(Queue') = bytes_buffered'
      /\ \A i \in 1..bytes_buffered' :
           Queue'[i] = buffer'[Advance(reader_cursor', i - 1)]
  BY QueueTypeNext
<1>3. bytes_buffered' = bytes_buffered - len
  BY <1>1 DEF bytes_buffered, IInv, TypeOK
<1> DEFINE rest == SubSeq(Queue, len + 1, bytes_buffered)
<1>4. /\ rest \in Seq(Byte) /\ Len(rest) = bytes_buffered - len
      /\ \A i \in 1 .. bytes_buffered - len : rest[i] = Queue[len + i]
  BY <1>1
<1>5. ASSUME NEW i \in 1 .. bytes_buffered - len
      PROVE  Queue'[i] = rest[i]
  <2>1. /\ i - 1 \in Int /\ len \in Int /\ reader_cursor \in Int
        /\ len + i \in 1..bytes_buffered /\ len + (i - 1) = (len + i) - 1
    BY <1>1 DEF IInv, TypeOK, Cells
  <2>2. Advance(reader_cursor', i - 1) = Advance(reader_cursor, len + (i - 1))
    BY <2>1, AdvanceTwice
  <2>3. Queue'[i] = buffer[Advance(reader_cursor', i - 1)]
    BY <1>2, <1>3
  <2>4. Queue[len + i] = buffer[Advance(reader_cursor, (len + i) - 1)]
    BY <1>1, <2>1
  <2> QED
    BY <1>4, <2>1, <2>2, <2>3, <2>4
<1> HIDE DEF rest
<1> QED
  BY <1>2, <1>3, <1>4, <1>5, SeqEqual DEF rest

(* The cells of the d bytes already there lie, from the write cursor on,   *)
(* behind the n cells a push may fill.                                     *)
LEMMA OffsetBehind ==
  ASSUME NEW x \in Cells, NEW d \in 0..Capacity, NEW n \in Nat,
         d + n <= Capacity, NEW k \in 0 .. d - 1
  PROVE  Offset(Advance(x, d), Advance(x, k)) >= n
<1>1. /\ x \in 0 .. Capacity - 1 /\ x \in Int /\ d \in Int /\ k \in Int
      /\ k \in 0 .. Capacity - 1
  BY DEF Cells
<1>2. Advance(x, d) = IF x + d < Capacity THEN x + d ELSE x + d - Capacity
  BY <1>1, AdvanceCases
<1>3. Advance(x, k) = IF x + k < Capacity THEN x + k ELSE x + k - Capacity
  BY <1>1, AdvanceCases
<1>4. CASE x + d < Capacity
  BY <1>1, <1>2, <1>3, <1>4 DEF Offset
<1>5. CASE ~(x + d < Capacity) /\ x + k < Capacity
  BY <1>1, <1>2, <1>3, <1>5 DEF Offset
<1>6. CASE ~(x + d < Capacity) /\ ~(x + k < Capacity)
  BY <1>1, <1>2, <1>3, <1>6 DEF Offset
<1> QED
  BY <1>4, <1>5, <1>6

(* What a push does to the queue.                                          *)
LEMMA PushQueue ==
  ASSUME IInv, IInv', NEW data \in Data, Push(data)
  PROVE  Queue' = Queue \o SubSeq(data, 1, WriteLength(data))
<1> DEFINE n == WriteLength(data)
           d == bytes_buffered
           new == SubSeq(data, 1, n)
<1>1. /\ d \in 0..Capacity /\ Queue \in Seq(Byte) /\ Len(Queue) = d
      /\ \A i \in 1..d : Queue[i] = buffer[Advance(reader_cursor, i - 1)]
  BY QueueType
<1>2. /\ bytes_buffered' \in 0..Capacity /\ Queue' \in Seq(Byte)
      /\ Len(Queue') = bytes_buffered'
      /\ \A i \in 1..bytes_buffered' :
           Queue'[i] = buffer'[Advance(reader_cursor', i - 1)]
  BY QueueTypeNext
<1>3. /\ data \in Seq(Byte) /\ Len(data) \in Nat
      /\ n \in 0 .. Len(data) /\ n \in Nat /\ d + n <= Capacity
  BY WriteLengthType, LenProperties DEF bytes_buffered, IInv, TypeOK
<1>4. bytes_buffered' = d + n
  BY <1>3 DEF bytes_buffered, Push, IInv, TypeOK
<1>5. /\ new \in Seq(Byte) /\ Len(new) = n
      /\ \A i \in 1..n : new[i] = data[i]
  BY <1>3
<1>6. /\ Queue \o new \in Seq(Byte) /\ Len(Queue \o new) = d + n
      /\ \A i \in 1 .. d + n :
           (Queue \o new)[i] = IF i <= d THEN Queue[i] ELSE new[i - d]
  BY <1>1, <1>5, ConcatProperties
<1>7. ASSUME NEW i \in 1 .. d + n
      PROVE  Queue'[i] = IF i <= d THEN Queue[i] ELSE new[i - d]
  <2> DEFINE cell == Advance(reader_cursor, i - 1)
  <2>1. /\ i - 1 \in 0 .. Capacity - 1 /\ i - 1 \in Int
        /\ reader_cursor \in Cells /\ reader_cursor \in Int
        /\ writer_cursor = Advance(reader_cursor, d)
        /\ writer_cursor \in Cells
        /\ d \in Int /\ (i - 1) - d \in Int /\ d + ((i - 1) - d) = i - 1
    <3>1. /\ reader_cursor \in Cells /\ writer_cursor \in Cells
          /\ writer_cursor = Advance(reader_cursor, d)
      BY DEF IInv, TypeOK, CursorsFollowCounts, bytes_buffered
    <3>2. reader_cursor \in Int
      BY <3>1 DEF Cells
    <3> HIDE DEF d, n
    <3>3. /\ i - 1 \in 0 .. Capacity - 1 /\ i - 1 \in Int
          /\ d \in Int /\ (i - 1) - d \in Int /\ d + ((i - 1) - d) = i - 1
      BY <1>1, <1>3
    <3> QED
      BY <3>1, <3>2, <3>3
  <2>2. cell \in Cells
    BY <2>1, AdvanceType
  <2>3. Queue'[i] = IF Offset(writer_cursor, cell) < n
                    THEN data[Offset(writer_cursor, cell) + 1] ELSE buffer[cell]
    BY <1>2, <1>4, <2>2 DEF Push
  <2>4. CASE i <= d
    <3>1. Offset(writer_cursor, cell) >= n
      <4>1. i - 1 \in 0 .. d - 1
        BY <1>1, <2>1, <2>4
      <4> QED
        BY <1>1, <1>3, <2>1, <4>1, OffsetBehind
    <3>2. Queue'[i] = buffer[cell]
      <4>1. Offset(writer_cursor, cell) \in Nat
        BY <2>1, <2>2, OffsetType
      <4>2. ~(Offset(writer_cursor, cell) < n)
        BY <1>3, <3>1, <4>1
      <4> QED
        BY <2>3, <4>2
    <3> QED
      BY <1>1, <2>4, <3>2
  <2>5. CASE ~(i <= d)
    <3>1. (i - 1) - d \in 0 .. Capacity - 1 /\ (i - 1) - d < n
          /\ i - d \in 1..n /\ ((i - 1) - d) + 1 = i - d
      BY <1>1, <1>3, <2>5
    <3>2. cell = Advance(writer_cursor, (i - 1) - d)
      BY <2>1, AdvanceTwice
    <3>3. Offset(writer_cursor, cell) = (i - 1) - d
      BY <2>1, <3>1, <3>2, OffsetAdvance
    <3>4. Queue'[i] = data[((i - 1) - d) + 1]
      BY <2>3, <3>1, <3>3
    <3> QED
      BY <1>5, <2>5, <3>1, <3>4
  <2> QED
    BY <2>4, <2>5
<1> HIDE DEF d, n, new
<1>8. Queue' \in Seq(Byte) /\ Queue \o new \in Seq(Byte)
      /\ Len(Queue') = Len(Queue \o new)
      /\ \A i \in 1 .. Len(Queue') : Queue'[i] = (Queue \o new)[i]
  BY <1>2, <1>4, <1>6, <1>7
<1> QED
  BY <1>8, SeqEqual DEF new, n

(* The two rounds of read() take all that is wanted: the second peek, from *)
(* the start of the ring, shows everything the first one could not.        *)
LEMMA ReadRounds ==
  ASSUME IInv, NEW max_len \in 0..Capacity, Read(max_len)
  PROVE  LET taken == Min2(max_len, bytes_buffered) IN
         /\ taken \in 0..bytes_buffered
         /\ reader_cursor' = Advance(reader_cursor, taken)
         /\ bytes_popped' = bytes_popped + taken
         /\ passed' \in Seq(Byte)
         /\ passed' = SubSeq(Queue, 1, taken)
<1> DEFINE d      == bytes_buffered
           taken  == Min2(max_len, d)
           first  == Min2(max_len, Shown(reader_cursor, d))
           cursor == Advance(reader_cursor, first)
           second == Min2(max_len - first, Shown(cursor, d - first))
           a      == Bytes(reader_cursor, first)
           b      == Bytes(cursor, second)
<1>1. /\ d \in 0..Capacity /\ Queue \in Seq(Byte) /\ Len(Queue) = d
  BY QueueType
<1>2. reader_cursor \in Cells /\ reader_cursor \in Int /\ reader_cursor \in 0 .. Capacity - 1
  BY DEF IInv, TypeOK, Cells
<1>3. first \in 0..d /\ first \in 0..Capacity /\ first \in Nat
      /\ first <= Shown(reader_cursor, d) /\ first <= Capacity - reader_cursor
      /\ d - 0 = d
  BY <1>1, <1>2 DEF Min2, Shown
<1>4. cursor \in Cells /\ cursor \in 0 .. Capacity - 1
      /\ cursor = IF reader_cursor + first < Capacity THEN reader_cursor + first
                  ELSE reader_cursor + first - Capacity
  <2> HIDE DEF first
  <2>1. cursor \in Cells
    BY <1>2, <1>3, AdvanceType
  <2>2. cursor = IF reader_cursor + first < Capacity THEN reader_cursor + first
                 ELSE reader_cursor + first - Capacity
    BY <1>2, <1>3, AdvanceCases
  <2> QED
    BY <2>1, <2>2 DEF Cells
<1>5. /\ second \in Nat /\ second <= Shown(cursor, d - first)
      /\ first + second = taken /\ taken \in 0..d
  <2> HIDE DEF cursor
  <2> QED
    BY <1>1, <1>2, <1>3, <1>4 DEF Min2, Shown
<1>6. /\ passed' = a \o b
      /\ reader_cursor' = Advance(cursor, second)
      /\ bytes_popped' = bytes_popped + first + second
  BY DEF Read
<1>7. /\ a \in Seq(Byte) /\ Len(a) = first
      /\ \A i \in 1..first : a[i] = Queue[0 + i]
  <2>1. 0 \in 0..d /\ reader_cursor = Advance(reader_cursor, 0)
    BY <1>1, <1>2, AdvanceCases
  <2> HIDE DEF first
  <2> QED
    BY <1>2, <1>3, <2>1, BytesAreQueued
<1>8. /\ b \in Seq(Byte) /\ Len(b) = second
      /\ \A i \in 1..second : b[i] = Queue[first + i]
  <2> HIDE DEF first, second
  <2> QED
    BY <1>3, <1>4, <1>5, BytesAreQueued
<1> HIDE DEF first, cursor, second, a, b, taken, d
<1>9. reader_cursor' = Advance(reader_cursor, taken)
  <2>1. first \in Int /\ second \in Int
    BY <1>3, <1>5
  <2>2. Advance(Advance(reader_cursor, first), second)
          = Advance(reader_cursor, first + second)
    BY <1>2, <2>1, AdvanceTwice
  <2> QED
    BY <1>5, <1>6, <2>2 DEF cursor
<1>10. bytes_popped' = bytes_popped + taken
  <2>1. bytes_popped \in Nat
    BY DEF IInv, TypeOK
  <2> QED
    BY <1>3, <1>5, <1>6, <2>1
<1>11. /\ a \o b \in Seq(Byte) /\ Len(a \o b) = taken
       /\ \A i \in 1..taken : (a \o b)[i] = IF i <= first THEN a[i] ELSE b[i - first]
  <2>1. /\ a \o b \in Seq(Byte) /\ Len(a \o b) = Len(a) + Len(b)
        /\ \A i \in 1 .. Len(a) + Len(b) :
             (a \o b)[i] = IF i <= Len(a) THEN a[i] ELSE b[i - Len(a)]
    BY <1>7, <1>8, ConcatProperties
  <2>2. Len(a) = first /\ Len(b) = second /\ Len(a) + Len(b) = taken
    BY <1>5, <1>7, <1>8
  <2> QED
    BY <2>1, <2>2, Zenon
<1>12. /\ SubSeq(Queue, 1, taken) \in Seq(Byte)
       /\ Len(SubSeq(Queue, 1, taken)) = taken
       /\ \A i \in 1..taken : SubSeq(Queue, 1, taken)[i] = Queue[i]
  BY <1>1, <1>5
<1>13. ASSUME NEW i \in 1..taken
       PROVE  (a \o b)[i] = SubSeq(Queue, 1, taken)[i]
  <2>1. CASE i <= first
    BY <1>3, <1>5, <1>7, <1>11, <1>12, <2>1
  <2>2. CASE ~(i <= first)
    <3>1. i - first \in 1..second /\ first + (i - first) = i
      BY <1>3, <1>5, <2>2
    <3> QED
      BY <1>8, <1>11, <1>12, <2>2, <3>1
  <2> QED
    BY <2>1, <2>2
<1>14. a \o b = SubSeq(Queue, 1, taken)
  BY <1>11, <1>12, <1>13, SeqEqual
<1> QED
  BY <1>5, <1>6, <1>9, <1>10, <1>11, <1>14 DEF taken, d

(* The helper read() preserves the invariant: its two pops are one pop.    *)
LEMMA ReadInv ==
  ASSUME IInv, NEW max_len \in 0..Capacity, Read(max_len)
  PROVE  IInv'
<1> DEFINE taken == Min2(max_len, bytes_buffered)
<1>1. /\ taken \in 0..bytes_buffered
      /\ reader_cursor' = Advance(reader_cursor, taken)
      /\ bytes_popped' = bytes_popped + taken
      /\ passed' \in Seq(Byte)
  BY ReadRounds
<1>2. UNCHANGED <<buffer, writer_cursor, bytes_pushed, closed, error>>
  BY DEF Read
<1>3. taken \in Nat /\ taken <= bytes_buffered
  BY <1>1, QueueType
<1> HIDE DEF taken
<1> QED
  BY <1>1, <1>2, <1>3, ReleaseInv

(* Every step preserves the invariant.                                     *)
LEMMA NextInv ==
  ASSUME IInv, [Next]_vars
  PROVE  IInv'
<1>1. CASE \E data \in Data : Push(data)
  BY <1>1, PushInv
<1>2. CASE \E data \in Data : PushRefused(data)
  <2>1. PICK data \in Data : PushRefused(data)
    BY <1>2
  <2>2. passed' \in Seq(Byte)
    BY <2>1 DEF PushRefused
  <2> QED
    BY <2>1, <2>2 DEF PushRefused, IInv, TypeOK, CursorsFollowCounts
<1>3. CASE Close
  BY <1>3, EmptySeq DEF Close, IInv, TypeOK, CursorsFollowCounts
<1>4. CASE \E len \in 0..Capacity : Pop(len)
  BY <1>4, PopInv
<1>5. CASE \E len \in 0..Capacity : Read(len)
  BY <1>5, ReadInv
<1>6. CASE SetError
  BY <1>6, EmptySeq DEF SetError, IInv, TypeOK, CursorsFollowCounts
<1>7. CASE UNCHANGED vars
  BY <1>7 DEF vars, IInv, TypeOK, CursorsFollowCounts
<1> QED
  BY <1>1, <1>2, <1>3, <1>4, <1>5, <1>6, <1>7 DEF Next

(* The invariant holds in every reachable state.                           *)
LEMMA AlwaysInv == Spec => []IInv
<1>1. Init => IInv
  BY InitInv
<1>2. IInv /\ [Next]_vars => IInv'
  BY NextInv
<1> QED
  BY <1>1, <1>2, PTL DEF Spec

-----------------------------------------------------------------------------
(* Every cell holds a byte, every cursor points into the ring, whatever    *)
(* the writer and the reader do.                                           *)
THEOREM TypeCorrect == Spec => []TypeOK
<1>1. IInv => TypeOK
  BY DEF IInv
<1> QED
  BY <1>1, AlwaysInv, PTL

(* The cursors of Writer::push and Reader::pop stay the remainders of the  *)
(* cumulative counts, and the ring never holds more than its capacity, for *)
(* every capacity and every string pushed.                                 *)
THEOREM CursorsCorrect == Spec => []CursorsFollowCounts
<1>1. IInv => CursorsFollowCounts
  BY DEF IInv
<1> QED
  BY <1>1, AlwaysInv, PTL

(* Reader::peek never returns an empty view of a stream that has bytes, so *)
(* read() never throws, and what it returns are the oldest bytes in order. *)
THEOREM PeekCorrect == Spec => []PeekShowsOldest
BY PeekInv, AlwaysInv, PTL

(* The helper read() returns the min(max_len, bytes_buffered) oldest bytes *)
(* and leaves the others in order, wherever the cursors stand.             *)
THEOREM ReadCorrect == Spec => ReadTakesOldest
<1> DEFINE Step ==
      \A max_len \in 0..Capacity : Read(max_len) =>
        LET taken == Min2(max_len, bytes_buffered)
        IN  /\ passed' = SubSeq(Queue, 1, taken)
            /\ Queue' = SubSeq(Queue, taken + 1, bytes_buffered)
<1>1. IInv /\ IInv' => Step
  <2> SUFFICES ASSUME IInv, IInv', NEW max_len \in 0..Capacity, Read(max_len)
               PROVE  LET taken == Min2(max_len, bytes_buffered)
                      IN  /\ passed' = SubSeq(Queue, 1, taken)
                          /\ Queue' = SubSeq(Queue, taken + 1, bytes_buffered)
    OBVIOUS
  <2> DEFINE taken == Min2(max_len, bytes_buffered)
  <2>1. /\ taken \in 0..bytes_buffered
        /\ reader_cursor' = Advance(reader_cursor, taken)
        /\ bytes_popped' = bytes_popped + taken
        /\ passed' = SubSeq(Queue, 1, taken)
    BY ReadRounds
  <2>2. UNCHANGED <<buffer, bytes_pushed>>
    BY DEF Read
  <2>3. taken \in Nat /\ taken <= bytes_buffered
    BY <2>1, QueueType
  <2> HIDE DEF taken
  <2>4. Queue' = SubSeq(Queue, taken + 1, bytes_buffered)
    BY <2>1, <2>2, <2>3, ReleaseQueue
  <2> QED
    BY <2>1, <2>4 DEF taken
<1>2. IInv /\ IInv' => [Step]_vars
  BY <1>1
<1> QED
  BY <1>2, AlwaysInv, PTL DEF ReadTakesOldest

(* Once Reader::is_finished() holds it holds for ever, and nothing is      *)
(* pushed behind it.                                                       *)
THEOREM EndIsFinal == Spec => FinishedIsFinal
<1> DEFINE Step == is_finished => is_finished' /\ bytes_pushed' = bytes_pushed
<1>1. ASSUME IInv, IInv', [Next]_vars PROVE Step
  <2> SUFFICES ASSUME is_finished PROVE is_finished' /\ bytes_pushed' = bytes_pushed
    OBVIOUS
  <2>1. closed /\ bytes_popped = bytes_pushed /\ bytes_pushed \in Nat
    BY <1>1 DEF is_finished, IInv, TypeOK
  <2>2. bytes_pushed' = bytes_pushed /\ closed'
    BY <1>1, <2>1 DEF Next, vars, Push, PushRefused, Close, Pop, Read, SetError
  <2>3. bytes_popped' \in Nat /\ bytes_popped' <= bytes_pushed'
    BY <1>1 DEF IInv, TypeOK, CursorsFollowCounts
  <2>4. bytes_popped' >= bytes_popped
    <3>1. CASE \E len \in 0..Capacity : Pop(len)
      BY <2>1, <3>1 DEF Pop
    <3>2. CASE \E len \in 0..Capacity : Read(len)
      <4>1. PICK max_len \in 0..Capacity : Read(max_len)
        BY <3>2
      <4> DEFINE taken == Min2(max_len, bytes_buffered)
      <4>2. taken \in 0..bytes_buffered /\ bytes_popped' = bytes_popped + taken
        BY <1>1, <4>1, ReadRounds
      <4>3. taken \in Nat
        BY <1>1, <4>2, QueueType
      <4> HIDE DEF taken
      <4> QED
        BY <2>1, <4>2, <4>3
    <3>3. CASE UNCHANGED bytes_popped
      BY <2>1, <3>3
    <3> QED
      BY <1>1, <3>1, <3>2, <3>3 DEF Next, vars, Push, PushRefused, Close, SetError
  <2> QED
    BY <2>1, <2>2, <2>3, <2>4 DEF is_finished
<1>2. IInv /\ IInv' /\ [Next]_vars => [Step]_vars
  BY <1>1
<1> QED
  BY <1>2, AlwaysInv, PTL DEF Spec, FinishedIsFinal

-----------------------------------------------------------------------------
(* The abstract operations on a state that is given field by field.        *)
StreamOf(q, p, cl, e) ==
  [capacity |-> Capacity, queue |-> q, popped |-> p, closed |-> cl, error |-> e]

(* close() on the abstract stream touches only its mark.                   *)
LEMMA CloseOnRecord ==
  ASSUME NEW q, NEW p, NEW cl, NEW e
  PROVE  Abstract!Close(StreamOf(q, p, cl, e)) = StreamOf(q, p, TRUE, e)
<1> DEFINE Put(x) == [StreamOf(q, p, cl, e) EXCEPT !.closed = x]
<1>1. ASSUME NEW x PROVE Put(x) = StreamOf(q, p, x, e)
  BY DEF StreamOf
<1>2. Put(TRUE) = Abstract!Close(StreamOf(q, p, cl, e))
  BY DEF Abstract!Close
<1> HIDE DEF Put
<1> QED
  BY <1>1, <1>2, Zenon

(* set_error() on the abstract stream touches only its mark.               *)
LEMMA ErrorOnRecord ==
  ASSUME NEW q, NEW p, NEW cl, NEW e
  PROVE  Abstract!SetError(StreamOf(q, p, cl, e)) = StreamOf(q, p, cl, TRUE)
<1> DEFINE Put(x) == [StreamOf(q, p, cl, e) EXCEPT !.error = x]
<1>1. ASSUME NEW x PROVE Put(x) = StreamOf(q, p, cl, x)
  BY DEF StreamOf
<1>2. Put(TRUE) = Abstract!SetError(StreamOf(q, p, cl, e))
  BY DEF Abstract!SetError
<1> HIDE DEF Put
<1> QED
  BY <1>1, <1>2, Zenon

(* pop() on the abstract stream drops bytes from the front and counts      *)
(* them.                                                                   *)
LEMMA PopOnRecord ==
  ASSUME NEW q, NEW p, NEW cl, NEW e, NEW len
  PROVE  Abstract!Pop(StreamOf(q, p, cl, e), len)
           = StreamOf(SubSeq(q, len + 1, Len(q)), p + len, cl, e)
<1> DEFINE s == StreamOf(q, p, cl, e)
           Put(x, y) == [s EXCEPT !.queue = x, !.popped = y]
<1>1. ASSUME NEW x, NEW y PROVE Put(x, y) = StreamOf(x, y, cl, e)
  <2>1. [s EXCEPT !.queue = x] = StreamOf(x, p, cl, e)
    BY DEF StreamOf
  <2>2. [StreamOf(x, p, cl, e) EXCEPT !.popped = y] = StreamOf(x, y, cl, e)
    BY DEF StreamOf
  <2>3. Put(x, y) = [[s EXCEPT !.queue = x] EXCEPT !.popped = y]
    <3> HIDE DEF s
    <3> QED
      OBVIOUS
  <2> QED
    BY <2>1, <2>2, <2>3, Zenon
<1>2. s.queue = q /\ s.popped = p
  BY DEF StreamOf
<1>3. Abstract!Pop(s, len) = Put(SubSeq(s.queue, len + 1, Len(s.queue)), s.popped + len)
  <2> HIDE DEF s
  <2> QED
    BY DEF Abstract!Pop
<1> HIDE DEF Put, s
<1>4. Abstract!Pop(s, len) = Put(SubSeq(q, len + 1, Len(q)), p + len)
  BY <1>2, <1>3, Zenon
<1> QED
  BY <1>1, <1>4, Zenon DEF s

(* Each operation on the ring is one on the queue, or changes nothing that *)
(* its users can see.                                                      *)
LEMMA PushRefines ==
  ASSUME IInv, IInv', NEW data \in Data, Push(data)
  PROVE  Abstract!PushStep
<1> DEFINE n == WriteLength(data)
           room == Abstract!Lesser(Len(data), Capacity - Len(Queue))
<1>1. Queue' = Queue \o SubSeq(data, 1, n)
  BY PushQueue
<1>2. n = room
  BY QueueType DEF WriteLength, available_capacity, bytes_buffered, Min2, Abstract!Lesser
<1>3. ~closed /\ UNCHANGED <<bytes_popped, closed, error>> /\ passed' = data
  BY DEF Push
<1> HIDE DEF n
<1> QED
  BY <1>1, <1>2, <1>3 DEF Abstract!PushStep, Abstract!Push, Abstract!AvailableCapacity

(* A push that returns early is a push of which the queue keeps nothing.   *)
LEMMA PushRefusedRefines ==
  ASSUME IInv, NEW data \in Data, PushRefused(data)
  PROVE  Abstract!PushStep
<1> DEFINE before == StreamOf(Queue, bytes_popped, closed, error)
           room   == Abstract!Lesser(Len(data), Capacity - Len(Queue))
<1>1. before' = before /\ passed' = data
  BY DEF PushRefused, StreamOf, Queue, bytes_buffered
<1>2. Abstract!Push(before, data) = before
  <2>1. CASE closed
    BY <2>1 DEF Abstract!Push, StreamOf
  <2>2. CASE ~closed
    <3>1. WriteLength(data) = 0 /\ WriteLength(data) = room
      BY <2>2, QueueType
      DEF PushRefused, WriteLength, available_capacity, bytes_buffered, Min2, Abstract!Lesser
    <3>2. Queue \o SubSeq(data, 1, 0) = Queue
      BY QueueType, WriteLengthType, LenProperties
    <3>3. Abstract!Push(before, data)
            = StreamOf(Queue \o SubSeq(data, 1, room), bytes_popped, closed, error)
      BY <2>2 DEF Abstract!Push, Abstract!AvailableCapacity, StreamOf
    <3> QED
      BY <3>1, <3>2, <3>3
  <2> QED
    BY <2>1, <2>2
<1>3. before' = Abstract!Push(before, data) /\ passed' = data
  BY <1>1, <1>2
<1> QED
  BY <1>3, Zenon DEF Abstract!PushStep, StreamOf

(* Releasing len bytes of the ring is a pop of the queue.                  *)
LEMMA ReleaseRefines ==
  ASSUME IInv, IInv', NEW len \in Nat, len <= bytes_buffered,
         reader_cursor' = Advance(reader_cursor, len),
         bytes_popped' = bytes_popped + len,
         UNCHANGED <<buffer, bytes_pushed, closed, error>>
  PROVE  /\ passed' = << >> => Abstract!PopStep
         /\ passed' = SubSeq(Queue, 1, len) => Abstract!ReadStep
<1>1. Len(Queue) = bytes_buffered /\ bytes_buffered \in Nat
  BY QueueType
<1>2. Queue' = SubSeq(Queue, len + 1, Len(Queue))
  BY <1>1, ReleaseQueue
<1>3. len \in 0..Len(Queue)
  BY <1>1
<1> DEFINE before == StreamOf(Queue, bytes_popped, closed, error)
           after  == StreamOf(SubSeq(Queue, len + 1, Len(Queue)),
                              bytes_popped + len, closed, error)
<1>4. Abstract!Pop(before, len) = after
  BY PopOnRecord
<1>5. before' = after
  BY <1>2 DEF StreamOf
<1>6. Abstract!BytesBuffered(before) = Len(Queue)
  BY DEF Abstract!BytesBuffered, StreamOf
<1>7. before.queue = Queue
  BY DEF StreamOf
<1>8. len \in 0 .. Abstract!BytesBuffered(before) /\ before' = Abstract!Pop(before, len)
  <2> HIDE DEF before, after
  <2> QED
    BY <1>3, <1>4, <1>5, <1>6, Zenon
<1>9. ASSUME passed' = << >> PROVE Abstract!PopStep
  <2>1. \E k \in 0 .. Abstract!BytesBuffered(before) :
          before' = Abstract!Pop(before, k) /\ passed' = << >>
    <3> HIDE DEF before, after
    <3> QED
      BY <1>8, <1>9, Zenon
  <2> QED
    BY <2>1 DEF Abstract!PopStep, StreamOf
<1>10. ASSUME passed' = SubSeq(Queue, 1, len) PROVE Abstract!ReadStep
  <2>1. \E k \in 0 .. Abstract!BytesBuffered(before) :
          before' = Abstract!Pop(before, k) /\ passed' = SubSeq(before.queue, 1, k)
    <3> HIDE DEF before, after
    <3> QED
      BY <1>7, <1>8, <1>10, Zenon
  <2> QED
    BY <2>1, Zenon DEF Abstract!ReadStep, StreamOf
<1> QED
  BY <1>9, <1>10

(* An empty ring is an empty queue.                                        *)
LEMMA InitRefines == Init => Abstract!Init
<1> SUFFICES ASSUME Init PROVE Abstract!Init
  OBVIOUS
<1>1. Queue \in Seq(Byte) /\ Len(Queue) = bytes_buffered
  BY InitInv, QueueType
<1>2. bytes_buffered = 0
  BY DEF Init, bytes_buffered
<1>3. Queue = << >>
  BY <1>1, <1>2, EmptySeq
<1> QED
  BY <1>3 DEF Init, Abstract!Init, Abstract!NewStream

(* The ring buffer of byte_stream.cc, for every capacity, is an            *)
(* implementation of the bounded first-in first-out queue that the         *)
(* reassembler, the sender and the receiver are written against.           *)
THEOREM RingImplementsQueue == Spec => ImplementsStream
<1> DEFINE abstract == [capacity |-> Capacity, queue |-> Queue,
                        popped |-> bytes_popped, closed |-> closed, error |-> error]
           seen     == <<abstract, passed>>
<1>1. Init => Abstract!Init
  BY InitRefines
<1>2. ASSUME IInv, IInv', [Next]_vars
      PROVE  Abstract!Next \/ UNCHANGED seen
  <2>1. CASE \E data \in Data : Push(data)
    BY <1>2, <2>1, PushRefines DEF Abstract!Next
  <2>2. CASE \E data \in Data : PushRefused(data)
    BY <1>2, <2>2, PushRefusedRefines DEF Abstract!Next
  <2>3. CASE Close
    <3>1. UNCHANGED <<Queue, bytes_popped, error>> /\ closed' = TRUE /\ passed' = << >>
      BY <2>3 DEF Close, Queue, bytes_buffered
    <3>2. Abstract!CloseStep
      <4>1. StreamOf(Queue, bytes_popped, closed, error)'
              = StreamOf(Queue, bytes_popped, TRUE, error)
        BY <3>1 DEF StreamOf
      <4>2. StreamOf(Queue, bytes_popped, closed, error)'
              = Abstract!Close(StreamOf(Queue, bytes_popped, closed, error))
        BY <4>1, CloseOnRecord
      <4> QED
        BY <3>1, <4>2, Zenon DEF Abstract!CloseStep, StreamOf
    <3> QED
      BY <3>2 DEF Abstract!Next
  <2>4. CASE \E len \in 0..Capacity : Pop(len)
    <3>1. PICK len \in 0..Capacity : Pop(len)
      BY <2>4
    <3>2. Abstract!PopStep
      BY <1>2, <3>1, QueueType, ReleaseRefines DEF Pop
    <3> QED
      BY <3>2 DEF Abstract!Next
  <2>5. CASE \E len \in 0..Capacity : Read(len)
    <3>1. PICK max_len \in 0..Capacity : Read(max_len)
      BY <2>5
    <3> DEFINE taken == Min2(max_len, bytes_buffered)
    <3>2. /\ taken \in 0..bytes_buffered
          /\ reader_cursor' = Advance(reader_cursor, taken)
          /\ bytes_popped' = bytes_popped + taken
          /\ passed' = SubSeq(Queue, 1, taken)
      BY <1>2, <3>1, ReadRounds
    <3>3. taken \in Nat /\ taken <= bytes_buffered
      BY <1>2, <3>2, QueueType
    <3>4. UNCHANGED <<buffer, bytes_pushed, closed, error>>
      BY <3>1 DEF Read
    <3> HIDE DEF taken
    <3>5. Abstract!ReadStep
      BY <1>2, <3>2, <3>3, <3>4, ReleaseRefines
    <3> QED
      BY <3>5 DEF Abstract!Next
  <2>6. CASE SetError
    <3>1. UNCHANGED <<Queue, bytes_popped, closed>> /\ error' = TRUE /\ passed' = << >>
      BY <2>6 DEF SetError, Queue, bytes_buffered
    <3>2. Abstract!ErrorStep
      <4>1. StreamOf(Queue, bytes_popped, closed, error)'
              = StreamOf(Queue, bytes_popped, closed, TRUE)
        BY <3>1 DEF StreamOf
      <4>2. StreamOf(Queue, bytes_popped, closed, error)'
              = Abstract!SetError(StreamOf(Queue, bytes_popped, closed, error))
        BY <4>1, ErrorOnRecord
      <4> QED
        BY <3>1, <4>2, Zenon DEF Abstract!ErrorStep, StreamOf
    <3> QED
      BY <3>2 DEF Abstract!Next
  <2>7. CASE UNCHANGED vars
    BY <2>7 DEF vars, Queue, bytes_buffered
  <2> QED
    BY <1>2, <2>1, <2>2, <2>3, <2>4, <2>5, <2>6, <2>7 DEF Next
<1>3. IInv /\ IInv' /\ [Next]_vars => [Abstract!Next]_seen
  BY <1>2
<1> QED
  BY <1>1, <1>3, AlwaysInv, PTL DEF Spec, ImplementsStream, Abstract!Spec
=============================================================================
